-------------------------- MODULE RawQuicLoadProofs --------------------------
(***************************************************************************)
(* Proofs for RawQuicLoad, for every number of connections, streams and    *)
(* batches, every mode, and every order in which the goroutines of a batch *)
(* run and fail.                                                           *)
(*                                                                         *)
(* The shared statistics of a batch are tied to the goroutines: the total  *)
(* is the weight of those that have settled plus those that have counted   *)
(* the operation and not yet its outcome, and successes and failures are   *)
(* the weight of the settled ones alone (BatchSums). When wg.Wait returns  *)
(* everyone has settled, so the batch is whole. A goroutine that runs its  *)
(* streams one after another keeps the same account of its own (OwnStats). *)
(***************************************************************************)
EXTENDS RawQuicLoad, FiniteSetTheorems, TLAPS

(* The counters of runStats. *)
Keys == {"total", "ok", "failed", "timeout", "errors", "latencies", "connects"}
RunStats == [Keys -> Nat]

(* The goroutines whose outcome is in the batch's statistics, those of      *)
(* which only the total is, and what one of them stands for.                *)
Settled == {i \in Started : g[i] \in {"close", "done"}}
Pending == {i \in Started : g[i] \in Results}
Weight == IF loadOpts.mode \in {"sequential", "churn"} THEN Streams ELSE 1
BatchSize == Cardinality(Conns) * PerConn

(* No counter is larger than n. *)
AtMost(s, n) == \A k \in Keys : s[k] <= n

(* Everything of AddsUp that is not about the total. *)
Sorted(s) ==
  /\ s.timeout <= s.failed /\ s.errors <= s.failed /\ (s.failed > 0 => s.errors > 0)
  /\ s.ok = IF loadOpts.mode = "handshake" THEN s.connects ELSE s.latencies

(* The variables keep their types. *)
LoadTypes ==
  /\ loadOpts \in [mode : Modes, warmup : BOOLEAN, failOnErrors : BOOLEAN]
  /\ phase \in {"warmup", "measured"}
  /\ main \in {"start", "dial", "batch", "join", "merge", "returned", "exited"}
  /\ batches \in 0..MaxBatches /\ expired \in BOOLEAN /\ openConns \subseteq Conns
  /\ g \in [Goroutines -> Results \cup {"dial", "run", "merge", "close", "done"}]
  /\ left \in [Goroutines -> 0..Streams]
  /\ batch \in RunStats /\ stats \in RunStats /\ local \in [Goroutines -> RunStats]
  /\ err \in BOOLEAN /\ document \in {"none", "warmup", "measured"}
  /\ loadExit \in {"none", "0", "1"}

(* Where a goroutine of a batch can be, by mode. *)
StatesOf(mode) ==
  CASE mode = "concurrent" -> Results \cup {"run", "done"}
    [] mode = "handshake" -> {"dial", "close", "done"}
    [] mode = "sequential" -> {"run", "merge", "done"}
    [] mode = "churn" -> {"dial", "run", "merge", "close", "done"}

(* Goroutines run between StartBatch and Join. *)
Running ==
  /\ main # "join" => \A i \in Goroutines : g[i] = "done"
  /\ main \in {"join", "merge"} => batches > 0
  /\ \A i \in Goroutines : i \notin Started => g[i] = "done"
  /\ \A i \in Goroutines : g[i] \in StatesOf(loadOpts.mode)
  /\ \A i \in Goroutines : AtMost(local[i], Streams)
  /\ main \notin {"join", "merge"} => AtMost(batch, Cardinality(Conns) * Streams)

(* A goroutine's own statistics: what it has run and what it has left are   *)
(* its connection's streams.                                                *)
OwnStats(i) ==
  /\ g[i] = "dial" => local[i] = Zero /\ left[i] = Streams
  /\ g[i] = "run" => local[i].total + left[i] = Streams
  /\ g[i] = "merge" => local[i].total = Streams
  /\ local[i].total = local[i].ok + local[i].failed /\ Sorted(local[i])

(* The batch's statistics hold what is settled and what is pending. *)
BatchSums ==
  /\ batch.total = Weight * Cardinality(Settled) + Cardinality(Pending)
  /\ batch.ok + batch.failed = Weight * Cardinality(Settled)
  /\ Sorted(batch) /\ AtMost(batch, Weight * Cardinality(Settled) + Cardinality(Pending))

(* The account of a running batch. *)
BatchCounts ==
  /\ loadOpts.mode \in {"sequential", "churn"} => \A i \in Started : OwnStats(i)
  /\ BatchSums

(* The phase's statistics hold the batches that have been merged. *)
Merged == IF main \in {"join", "merge"} THEN batches - 1 ELSE batches

(* What a load reports when a dial failed. *)
DialsFailed == [Zero EXCEPT !.failed = Cardinality(Conns) * Streams, !.errors = 1]

(* A phase has its batches in its statistics, a warm-up nothing. *)
PhaseCounts ==
  /\ main \in {"start", "dial"} => batches = 0
  /\ main \in {"returned", "exited"} /\ batches = 0 => stats = DialsFailed
  /\ main \notin {"returned", "exited"} \/ batches > 0 =>
       IF phase = "warmup" THEN stats = Zero
       ELSE AddsUp(stats) /\ stats.total = Merged * BatchSize /\ AtMost(stats, Merged * BatchSize)

(* The document and the exit code come last. *)
Reported ==
  /\ main # "exited" => document = "none" /\ loadExit = "none"
  /\ document = "measured" => phase = "measured"
  /\ ExitZeroMeansMeasured

(* The inductive invariant. *)
LoadInv == /\ LoadTypes /\ Running /\ PhaseCounts /\ Reported
           /\ main \in {"join", "merge"} => BatchCounts

-----------------------------------------------------------------------------
(* merge adds counter by counter. *)
LEMMA MergeStats ==
  ASSUME NEW a \in RunStats, NEW b \in RunStats
  PROVE  /\ merge(a, b) \in RunStats
         /\ \A k \in Keys : merge(a, b)[k] = a[k] + b[k]
  <1>1. DOMAIN a = Keys /\ \A k \in Keys : a[k] \in Nat /\ b[k] \in Nat
    BY Zenon DEF RunStats
  <1>2. \A k \in Keys : merge(a, b)[k] = a[k] + b[k]
    BY <1>1, Zenon DEF merge
  <1>3. merge(a, b) \in RunStats
    BY <1>1 DEF merge, RunStats
  <1> QED  BY <1>2, <1>3, Zenon

(* New statistics are empty. *)
LEMMA ZeroStats == Zero \in RunStats /\ \A k \in Keys : Zero[k] = 0
  BY DEF Zero, RunStats, Keys

(* countRequest adds to the total and to nothing else. *)
LEMMA OneMore ==
  ASSUME NEW s \in RunStats
  PROVE  /\ countRequest(s) \in RunStats /\ countRequest(s).total = s.total + 1
         /\ \A k \in Keys \ {"total"} : countRequest(s)[k] = s[k]
  BY DEF countRequest, RunStats, Keys

(* An outcome is one success with its latency, or one failure with its error. *)
LEMMA OutcomeStats ==
  ASSUME NEW r \in Results
  PROVE  /\ Outcome(r) \in RunStats /\ Outcome(r).total = 0 /\ Outcome(r).connects = 0
         /\ r = "ok" => Outcome(r).ok = 1 /\ Outcome(r).failed = 0
         /\ r # "ok" => Outcome(r).ok = 0 /\ Outcome(r).failed = 1
         /\ Outcome(r).timeout <= Outcome(r).failed /\ Outcome(r).errors = Outcome(r).failed
         /\ Outcome(r).latencies = Outcome(r).ok
  <1>1. CASE r = "ok"
    <2>1. Outcome(r) = [Zero EXCEPT !.ok = 1, !.latencies = 1]
      BY <1>1, Zenon DEF Outcome
    <2>2. Outcome(r) \in RunStats
      <3>1. 1 \in Nat
        BY Zenon
      <3> QED  BY <2>1, <3>1, ZeroStats, Zenon DEF RunStats, Keys
    <2>3. /\ Outcome(r).total = 0 /\ Outcome(r).connects = 0 /\ Outcome(r).ok = 1
          /\ Outcome(r).failed = 0 /\ Outcome(r).timeout = 0 /\ Outcome(r).errors = 0
          /\ Outcome(r).latencies = 1
      BY <2>1, ZeroStats, Zenon DEF RunStats, Keys
    <2> QED  BY <1>1, <2>2, <2>3
  <1>2. CASE r # "ok"
    <2> DEFINE t == IF r = "timeout" THEN 1 ELSE 0
    <2>1. Outcome(r) = [Zero EXCEPT !.failed = 1, !.errors = 1, !.timeout = t]
      BY <1>2, Zenon DEF Outcome
    <2>2. t \in {0, 1} /\ t \in Nat /\ 1 \in Nat
      BY Zenon
    <2> HIDE DEF t
    <2>3. Outcome(r) \in RunStats
      BY <2>1, <2>2, ZeroStats, Zenon DEF RunStats, Keys
    <2>4. /\ Outcome(r).total = 0 /\ Outcome(r).connects = 0 /\ Outcome(r).ok = 0
          /\ Outcome(r).failed = 1 /\ Outcome(r).timeout = t /\ Outcome(r).errors = 1
          /\ Outcome(r).latencies = 0
      BY <2>1, ZeroStats, Zenon DEF RunStats, Keys
    <2> QED  BY <1>2, <2>2, <2>3, <2>4
  <1> QED  BY <1>1, <1>2, Zenon

(* What a cold handshake adds: a connect in place of a latency. *)
LEMMA HandshakeStats ==
  ASSUME NEW r \in Results
  PROVE  LET o == [Outcome(r) EXCEPT !.latencies = 0, !.connects = IF r = "ok" THEN 1 ELSE 0] IN
         /\ o \in RunStats /\ o.total = 0 /\ o.connects = o.ok
         /\ r = "ok" => o.ok = 1 /\ o.failed = 0
         /\ r # "ok" => o.ok = 0 /\ o.failed = 1
         /\ o.timeout <= o.failed /\ o.errors = o.failed
         /\ o.latencies = 0
  <1> DEFINE c == IF r = "ok" THEN 1 ELSE 0
             o == [Outcome(r) EXCEPT !.latencies = 0, !.connects = c]
  <1>1. /\ Outcome(r) \in RunStats /\ Outcome(r).total = 0 /\ Outcome(r).ok = c
        /\ r = "ok" => Outcome(r).failed = 0
        /\ r # "ok" => Outcome(r).failed = 1
        /\ Outcome(r).timeout <= Outcome(r).failed /\ Outcome(r).errors = Outcome(r).failed
    BY OutcomeStats, Zenon
  <1>2. c \in Nat /\ (r = "ok" => c = 1) /\ (r # "ok" => c = 0)
    BY Zenon
  <1> HIDE DEF c
  <1>3. o \in RunStats
    BY <1>1, <1>2, 0 \in Nat, Zenon DEF RunStats, Keys
  <1>4. /\ o.total = Outcome(r).total /\ o.ok = Outcome(r).ok /\ o.failed = Outcome(r).failed
        /\ o.timeout = Outcome(r).timeout /\ o.errors = Outcome(r).errors
        /\ o.latencies = 0 /\ o.connects = c
    BY <1>1, <1>2, Zenon DEF RunStats, Keys
  <1> HIDE DEF o
  <1>5. /\ o \in RunStats /\ o.total = 0 /\ o.connects = o.ok
        /\ r = "ok" => o.ok = 1 /\ o.failed = 0
        /\ r # "ok" => o.ok = 0 /\ o.failed = 1
        /\ o.timeout <= o.failed /\ o.errors = o.failed
        /\ o.latencies = 0
    BY <1>1, <1>2, <1>3, <1>4, Zenon
  <1> QED  BY <1>5, Zenon DEF o, c

(* What a load whose dial failed reports. *)
LEMMA DialsFailedStats ==
  /\ DialsFailed \in RunStats /\ DialsFailed.failed = Cardinality(Conns) * Streams
  /\ DialsFailed.errors = 1 /\ \A k \in Keys \ {"failed", "errors"} : DialsFailed[k] = 0
  <1> DEFINE n == Cardinality(Conns) * Streams
  <1>1. n \in Nat /\ 1 \in Nat
    BY LoadAssumption, FS_CardinalityType
  <1>2. DialsFailed = [Zero EXCEPT !.failed = n, !.errors = 1]
    BY Zenon DEF DialsFailed
  <1> HIDE DEF n
  <1>3. /\ DialsFailed \in RunStats /\ DialsFailed.failed = n /\ DialsFailed.errors = 1
        /\ \A k \in Keys \ {"failed", "errors"} : DialsFailed[k] = 0
    BY <1>1, <1>2, ZeroStats, Zenon DEF RunStats, Keys
  <1> QED  BY <1>3, Zenon DEF n

(* New statistics add up. *)
LEMMA ZeroCounts ==
  /\ \A n \in Nat : AtMost(Zero, n)
  /\ Sorted(Zero) /\ AddsUp(Zero) /\ Zero.total = 0 /\ Zero.ok = 0 /\ Zero.failed = 0
  <1>1. /\ Zero.total = 0 /\ Zero.ok = 0 /\ Zero.failed = 0 /\ Zero.timeout = 0 /\ Zero.errors = 0
        /\ Zero.connects = 0 /\ Zero.latencies = 0
    BY Zenon DEF Zero
  <1>2. \A n \in Nat : AtMost(Zero, n)
    BY ZeroStats DEF AtMost
  <1> QED  BY <1>1, <1>2 DEF Sorted, AddsUp

(* Statistics that agree still do when they are merged. *)
LEMMA SortedMerge ==
  ASSUME NEW a \in RunStats, NEW b \in RunStats, Sorted(a), Sorted(b)
  PROVE  Sorted(merge(a, b))
  <1> DEFINE m == merge(a, b)
  <1>1. \A k \in Keys : a[k] \in Nat /\ b[k] \in Nat /\ m[k] = a[k] + b[k]
    BY MergeStats, Zenon DEF RunStats
  <1>2. /\ m.failed = a.failed + b.failed /\ m.timeout = a.timeout + b.timeout
        /\ m.errors = a.errors + b.errors /\ m.ok = a.ok + b.ok
        /\ m.connects = a.connects + b.connects /\ m.latencies = a.latencies + b.latencies
    BY <1>1, Zenon DEF Keys
  <1>3. /\ a.failed \in Nat /\ b.failed \in Nat /\ a.timeout \in Nat /\ b.timeout \in Nat
        /\ a.errors \in Nat /\ b.errors \in Nat
    BY <1>1, Zenon DEF Keys
  <1> HIDE DEF m
  <1>4. Sorted(m)
    BY <1>2, <1>3 DEF Sorted
  <1> QED  BY <1>4, Zenon DEF m

(* The bounds of merged statistics add up. *)
LEMMA AtMostMerge ==
  ASSUME NEW a \in RunStats, NEW b \in RunStats, NEW m \in Nat, NEW n \in Nat,
         AtMost(a, m), AtMost(b, n)
  PROVE  AtMost(merge(a, b), m + n)
  <1>1. \A k \in Keys : a[k] \in Nat /\ b[k] \in Nat /\ merge(a, b)[k] = a[k] + b[k]
    BY MergeStats DEF RunStats
  <1> QED  BY <1>1 DEF AtMost

-----------------------------------------------------------------------------
(* Products grow with their factors. *)
LEMMA Products ==
  ASSUME NEW a \in Nat, NEW b \in Nat, NEW k \in Nat, a <= b
  PROVE  /\ a * k <= b * k /\ k * a <= k * b /\ a * k \in Nat /\ k * a \in Nat
         /\ (a + 1) * k = a * k + k /\ k * (a + 1) = k * a + k
  <1> DEFINE d == b - a
  <1>1. d \in Nat /\ b = a + d
    OBVIOUS
  <1>2. d * k \in Nat /\ a * k \in Nat
    BY <1>1
  <1>3. (a + d) * k = a * k + d * k
    BY <1>1
  <1>4. k * a = a * k /\ k * b = b * k
    OBVIOUS
  <1>5. (a + 1) * k = a * k + k /\ k * (a + 1) = k * a + k
    OBVIOUS
  <1> HIDE DEF d
  <1>6. b * k = a * k + d * k
    BY <1>1, <1>3, Zenon
  <1> QED  BY <1>2, <1>4, <1>5, <1>6

(* Pending operations fit into what is not settled. *)
LEMMA Room ==
  ASSUME NEW w \in Nat \ {0}, NEW s \in Nat, NEW p \in Nat, NEW n \in Nat, s + p <= n
  PROVE  w * s + p <= w * n
  <1>1. w * (s + p) <= w * n
    BY Products
  <1>2. w * (s + p) = w * s + w * p
    OBVIOUS
  <1>3. 1 * p <= w * p
    BY Products
  <1>4. w * s \in Nat /\ w * p \in Nat /\ w * n \in Nat
    OBVIOUS
  <1> QED  BY <1>1, <1>2, <1>3, <1>4

(* A batch starts as many operations as it is asked for, in every mode. *)
LEMMA Sizes ==
  ASSUME loadOpts.mode \in Modes
  PROVE  /\ IsFiniteSet(Started) /\ Started \subseteq Goroutines
         /\ Cardinality(Conns) \in Nat /\ PerConn \in Nat \ {0} /\ PerConn <= Streams
         /\ Weight \in Nat \ {0} /\ BatchSize \in Nat
         /\ Weight * Cardinality(Started) = BatchSize
         /\ BatchSize <= Cardinality(Conns) * Streams
  <1>1. IsFiniteSet(Conns) /\ Cardinality(Conns) \in Nat /\ Streams \in Nat \ {0}
    BY LoadAssumption, FS_CardinalityType, Zenon
  <1>2. IsFiniteSet(1 .. Streams) /\ Cardinality(1 .. Streams) = Streams
    <2>1. 1 \in Int /\ Streams \in Int
      BY <1>1
    <2>2. /\ IsFiniteSet(1 .. Streams)
          /\ Cardinality(1 .. Streams) = IF 1 > Streams THEN 0 ELSE Streams - 1 + 1
      BY <2>1, FS_Interval, Zenon
    <2> QED  BY <1>1, <2>2
  <1>3. IsFiniteSet({1}) /\ Cardinality({1}) = 1
    BY FS_Singleton, Zenon
  <1>4. PerConn \in Nat \ {0} /\ PerConn <= Streams /\ Weight \in Nat \ {0}
    BY <1>1 DEF PerConn, Weight
  <1>5. /\ IsFiniteSet(Conns \X (1 .. Streams)) /\ IsFiniteSet(Conns \X {1})
        /\ Cardinality(Conns \X (1 .. Streams)) = Cardinality(Conns) * Streams
        /\ Cardinality(Conns \X {1}) = Cardinality(Conns) * 1
    <2>1. /\ IsFiniteSet(Conns \X (1 .. Streams))
          /\ Cardinality(Conns \X (1 .. Streams)) = Cardinality(Conns) * Streams
      BY <1>1, <1>2, FS_Product, Zenon
    <2>2. /\ IsFiniteSet(Conns \X {1}) /\ Cardinality(Conns \X {1}) = Cardinality(Conns) * 1
      BY <1>1, <1>3, FS_Product, Zenon
    <2> QED  BY <2>1, <2>2, Zenon
  <1>6. Started \subseteq Goroutines
    <2>1. 1 \in 1 .. Streams
      BY <1>1
    <2> QED  BY <2>1, Zenon DEF Started, Goroutines
  <1>7. BatchSize \in Nat /\ BatchSize <= Cardinality(Conns) * Streams
    BY <1>1, <1>4, Products, Zenon DEF BatchSize
  <1>8. IsFiniteSet(Started) /\ Weight * Cardinality(Started) = BatchSize
    <2>1. CASE loadOpts.mode = "concurrent"
      <3>1. Started = Conns \X (1 .. Streams) /\ Weight = 1 /\ PerConn = Streams
        BY <2>1, Zenon DEF Started, Goroutines, Weight, PerConn
      <3> QED  BY <1>1, <1>5, <3>1 DEF BatchSize
    <2>2. CASE loadOpts.mode = "handshake"
      <3>1. Started = Conns \X {1} /\ Weight = 1 /\ PerConn = 1
        BY <2>2, Zenon DEF Started, Weight, PerConn
      <3> QED  BY <1>1, <1>5, <3>1 DEF BatchSize
    <2>3. CASE loadOpts.mode \in {"sequential", "churn"}
      <3>1. Started = Conns \X {1} /\ Weight = Streams /\ PerConn = Streams
        BY <2>3, Zenon DEF Started, Weight, PerConn
      <3> QED  BY <1>1, <1>5, <3>1 DEF BatchSize
    <2> QED  BY <2>1, <2>2, <2>3, Zenon DEF Modes
  <1> QED  BY <1>1, <1>4, <1>6, <1>7, <1>8, Zenon

(* What is settled and pending never exceeds the batch. *)
LEMMA SettledSizes ==
  ASSUME loadOpts.mode \in Modes
  PROVE  /\ IsFiniteSet(Settled) /\ IsFiniteSet(Pending)
         /\ Cardinality(Settled) \in Nat /\ Cardinality(Pending) \in Nat
         /\ Weight * Cardinality(Settled) + Cardinality(Pending) \in Nat
         /\ Weight * Cardinality(Settled) + Cardinality(Pending) <= BatchSize
  <1>1. IsFiniteSet(Started) /\ Weight \in Nat \ {0} /\ Weight * Cardinality(Started) = BatchSize
    BY Sizes, Zenon
  <1>2. Settled \subseteq Started /\ Pending \subseteq Started /\ Settled \cap Pending = {}
    BY Zenon DEF Settled, Pending, Results
  <1>3. IsFiniteSet(Settled) /\ IsFiniteSet(Pending)
    BY <1>1, <1>2, FS_Subset, Zenon
  <1>4. /\ Cardinality(Settled) \in Nat /\ Cardinality(Pending) \in Nat
        /\ Cardinality(Started) \in Nat
    BY <1>1, <1>3, FS_CardinalityType, Zenon
  <1>5. Cardinality(Settled \cap Pending) = 0
    BY <1>2, FS_EmptySet, Zenon
  <1>6. Cardinality(Settled \cup Pending) = Cardinality(Settled) + Cardinality(Pending)
    <2>1. Cardinality(Settled \cup Pending)
            = Cardinality(Settled) + Cardinality(Pending) - Cardinality(Settled \cap Pending)
      BY <1>3, FS_Union, Zenon
    <2> QED  BY <1>4, <1>5, <2>1
  <1>7. Cardinality(Settled \cup Pending) <= Cardinality(Started)
    BY <1>1, <1>2, FS_Subset, Zenon
  <1>8. Weight * Cardinality(Settled) + Cardinality(Pending) <= Weight * Cardinality(Started)
    BY <1>1, <1>4, <1>6, <1>7, Room, Zenon
  <1>9. Weight * Cardinality(Settled) \in Nat
    BY <1>1, <1>4
  <1> QED  BY <1>1, <1>3, <1>4, <1>8, <1>9

(* One goroutine moves: how the settled and the pending change. *)
LEMMA Move ==
  ASSUME LoadTypes, NEW i \in Started, NEW x, loadOpts' = loadOpts, g' = [g EXCEPT ![i] = x]
  PROVE  /\ Started' = Started /\ Weight' = Weight
         /\ x \in {"close", "done"} => Settled' = Settled \cup {i}
         /\ x \notin {"close", "done"} => Settled' = Settled \ {i}
         /\ x \in Results => Pending' = Pending \cup {i}
         /\ x \notin Results => Pending' = Pending \ {i}
  <1>1. Started' = Started /\ Weight' = Weight
    BY Zenon DEF Started, Weight
  <1>2. /\ i \in Goroutines /\ Started \subseteq Goroutines
        /\ g \in [Goroutines -> Results \cup {"dial", "run", "merge", "close", "done"}]
    BY Sizes, Zenon DEF LoadTypes
  <1>3. g'[i] = x /\ \A j \in Started : j # i => g'[j] = g[j]
    BY <1>2, Zenon
  <1>4. x \in {"close", "done"} => Settled' = Settled \cup {i}
    BY <1>1, <1>3, Zenon DEF Settled
  <1>5. x \notin {"close", "done"} => Settled' = Settled \ {i}
    BY <1>1, <1>3, Zenon DEF Settled
  <1>6. x \in Results => Pending' = Pending \cup {i}
    BY <1>1, <1>3, Zenon DEF Pending
  <1>7. x \notin Results => Pending' = Pending \ {i}
    BY <1>1, <1>3, Zenon DEF Pending
  <1> QED  BY <1>1, <1>4, <1>5, <1>6, <1>7, Zenon

-----------------------------------------------------------------------------
(* A step that counts nothing. *)
LEMMA SumsSteady ==
  ASSUME LoadTypes, BatchSums, NEW i \in Started, NEW x, UNCHANGED << loadOpts, batch >>,
         g' = [g EXCEPT ![i] = x],
         \/ g[i] \in {"dial", "run", "merge"} /\ x \in {"dial", "run", "merge"}
         \/ g[i] \in {"close", "done"} /\ x \in {"close", "done"}
  PROVE  BatchSums'
  <1>0. /\ g[i] \notin Results /\ x \notin Results
        /\ x \in {"close", "done"} <=> g[i] \in {"close", "done"}
    BY Zenon DEF Results
  <1>1. /\ Weight' = Weight /\ Started' = Started /\ Pending' = Pending \ {i}
        /\ x \in {"close", "done"} => Settled' = Settled \cup {i}
        /\ x \notin {"close", "done"} => Settled' = Settled \ {i}
    BY <1>0, Move, Zenon
  <1>2. Settled' = Settled /\ Pending' = Pending
    BY <1>0, <1>1, Zenon DEF Settled, Pending
  <1> QED  BY <1>1, <1>2, Zenon DEF BatchSums, Sorted, AtMost

(* A goroutine adds everything it stands for, and is settled. *)
LEMMA SumsSettle ==
  ASSUME LoadTypes, BatchSums, NEW i \in Started, NEW x \in {"close", "done"}, loadOpts' = loadOpts,
         g' = [g EXCEPT ![i] = x], g[i] \notin {"close", "done"} \cup Results,
         NEW b \in RunStats, batch' \in RunStats, \A k \in Keys : batch'[k] = batch[k] + b[k],
         b.total = Weight, b.ok + b.failed = Weight, Sorted(b), AtMost(b, Weight)
  PROVE  BatchSums'
  <1>1. loadOpts.mode \in Modes /\ batch \in RunStats
    BY Zenon DEF LoadTypes
  <1>2. /\ Weight' = Weight /\ Settled' = Settled \cup {i} /\ Pending' = Pending \ {i}
    BY Move, Zenon DEF Results
  <1>3. i \notin Settled /\ Pending' = Pending
    BY <1>2, Zenon DEF Settled, Pending
  <1>4. /\ IsFiniteSet(Settled) /\ Cardinality(Settled) \in Nat /\ Cardinality(Pending) \in Nat
        /\ Weight \in Nat
    BY <1>1, SettledSizes, Sizes, Zenon
  <1>5. Cardinality(Settled') = Cardinality(Settled) + 1
    BY <1>2, <1>3, <1>4, FS_AddElement, Zenon
  <1> DEFINE w == Weight  s == Cardinality(Settled)  p == Cardinality(Pending)
  <1>6. w * (s + 1) = w * s + w /\ w * s \in Nat
    BY <1>4, Products
  <1>7. /\ Weight' * Cardinality(Settled') = w * s + w
        /\ Cardinality(Pending') = p
    BY <1>2, <1>3, <1>5, <1>6, Zenon
  <1>8. /\ batch.total = w * s + p /\ batch.ok + batch.failed = w * s
        /\ Sorted(batch) /\ AtMost(batch, w * s + p)
    BY Zenon DEF BatchSums
  <1>9. \A k \in Keys : batch[k] \in Nat /\ b[k] \in Nat
    BY <1>1, Zenon DEF RunStats
  <1> DEFINE q == w * s
  <1>10. q \in Nat /\ w \in Nat /\ p \in Nat
    BY <1>4, <1>6, Zenon
  <1> HIDE DEF w, s, p, q
  <1>11. batch'.total = q + w + p
    BY <1>8, <1>9, <1>10 DEF Keys, q, w
  <1>12. batch'.ok + batch'.failed = q + w
    <2>1. batch'.ok = batch.ok + b.ok /\ batch'.failed = batch.failed + b.failed
      BY Zenon DEF Keys
    <2>2. batch.ok \in Nat /\ b.ok \in Nat /\ batch.failed \in Nat /\ b.failed \in Nat
      BY <1>9, Zenon DEF Keys
    <2> QED  BY <1>8, <1>10, <2>1, <2>2 DEF q, w
  <1>13. AtMost(batch, q + p) /\ AtMost(b, w)
    BY <1>8, Zenon DEF q, w
  <1>14. \A k \in Keys : batch'[k] <= q + w + p
    BY <1>9, <1>10, <1>13 DEF AtMost
  <1>15. Sorted(batch)'
    <2>1. \A k \in Keys : merge(batch, b)[k] = batch'[k]
      BY <1>1, MergeStats
    <2>2. Sorted(merge(batch, b))
      BY <1>1, <1>8, SortedMerge, Zenon
    <2> QED  BY <2>1, <2>2, Zenon DEF Sorted, Keys
  <1>16. Weight' * Cardinality(Settled') = q + w /\ Cardinality(Pending') = p
    BY <1>7, Zenon DEF q
  <1> QED  BY <1>11, <1>12, <1>14, <1>15, <1>16, Zenon DEF BatchSums, AtMost

(* A goroutine counts its operation: it is pending. *)
LEMMA CountTotalSums ==
  ASSUME LoadTypes, BatchSums, NEW i \in Started, NEW x \in Results, loadOpts' = loadOpts,
         g' = [g EXCEPT ![i] = x], g[i] \notin {"close", "done"} \cup Results,
         batch' = countRequest(batch)
  PROVE  batch' \in RunStats /\ BatchSums'
  <1>1. loadOpts.mode \in Modes /\ batch \in RunStats
    BY Zenon DEF LoadTypes
  <1>2. Weight' = Weight /\ Settled' = Settled \ {i} /\ Pending' = Pending \cup {i}
    BY Move, Zenon DEF Results
  <1>3. Settled' = Settled /\ i \notin Pending
    BY <1>2, Zenon DEF Settled, Pending
  <1>4. /\ IsFiniteSet(Pending) /\ Cardinality(Settled) \in Nat /\ Cardinality(Pending) \in Nat
        /\ Weight \in Nat
    BY <1>1, SettledSizes, Sizes, Zenon
  <1>5. Cardinality(Pending') = Cardinality(Pending) + 1
    BY <1>2, <1>3, <1>4, FS_AddElement, Zenon
  <1> DEFINE q == Weight * Cardinality(Settled)  p == Cardinality(Pending)
  <1>6. q \in Nat /\ p \in Nat
    BY <1>4
  <1>7. /\ batch.total = q + p /\ batch.ok + batch.failed = q
        /\ Sorted(batch) /\ AtMost(batch, q + p)
    BY Zenon DEF BatchSums
  <1>8. Weight' * Cardinality(Settled') = q /\ Cardinality(Pending') = p + 1
    BY <1>2, <1>3, <1>5, Zenon
  <1> HIDE DEF q, p
  <1>9. /\ batch' \in RunStats /\ batch'.total = batch.total + 1
        /\ \A k \in Keys \ {"total"} : batch'[k] = batch[k]
    BY <1>1, OneMore, Zenon
  <1>10. Sorted(batch)'
    BY <1>7, <1>9, Zenon DEF Sorted, Keys
  <1>11. \A k \in Keys : batch[k] \in Nat /\ batch[k] <= q + p
    BY <1>1, <1>7, Zenon DEF RunStats, AtMost
  <1>12. \A k \in Keys : batch'[k] <= q + (p + 1)
    <2> SUFFICES ASSUME NEW k \in Keys PROVE batch'[k] <= q + (p + 1)
      BY Zenon
    <2>1. CASE k = "total"
      BY <1>6, <1>7, <1>9, <2>1
    <2>2. CASE k # "total"
      BY <1>6, <1>9, <1>11, <2>2
    <2> QED  BY <2>1, <2>2, Zenon
  <1>13. batch'.total = q + (p + 1) /\ batch'.ok + batch'.failed = q
    <2>1. batch'.ok = batch.ok /\ batch'.failed = batch.failed
      BY <1>9, Zenon DEF Keys
    <2> QED  BY <1>6, <1>7, <1>9, <2>1
  <1> QED  BY <1>8, <1>9, <1>10, <1>12, <1>13, Zenon DEF BatchSums, AtMost

(* A pending goroutine counts its outcome: it is settled. *)
LEMMA CountOutcomeSums ==
  ASSUME LoadTypes, BatchSums, NEW i \in Started, loadOpts' = loadOpts,
         loadOpts.mode = "concurrent", g[i] \in Results, g' = [g EXCEPT ![i] = "done"],
         batch' = merge(batch, Outcome(g[i]))
  PROVE  batch' \in RunStats /\ BatchSums'
  <1> DEFINE o == Outcome(g[i])
  <1>1. loadOpts.mode \in Modes /\ batch \in RunStats
    BY Zenon DEF LoadTypes
  <1>2. Weight' = 1 /\ Weight = 1
    BY Zenon DEF Weight
  <1>3. Settled' = Settled \cup {i} /\ Pending' = Pending \ {i}
    BY Move, Zenon DEF Results
  <1>4. i \in Pending /\ i \notin Settled
    BY Zenon DEF Settled, Pending, Results
  <1>5. /\ IsFiniteSet(Settled) /\ IsFiniteSet(Pending)
        /\ Cardinality(Settled) \in Nat /\ Cardinality(Pending) \in Nat
    BY <1>1, SettledSizes, Zenon
  <1>6. Cardinality(Settled') = Cardinality(Settled) + 1
    BY <1>3, <1>4, <1>5, FS_AddElement, Zenon
  <1>7. Cardinality(Pending') = Cardinality(Pending) - 1
    BY <1>3, <1>4, <1>5, FS_RemoveElement, Zenon
  <1> DEFINE s == Cardinality(Settled)  p == Cardinality(Pending)
  <1>8. /\ batch.total = s + p /\ batch.ok + batch.failed = s
        /\ Sorted(batch) /\ AtMost(batch, s + p)
    BY <1>2, <1>5 DEF BatchSums
  <1>9. s \in Nat /\ p \in Nat
    BY <1>5, Zenon
  <1>10. Weight' * Cardinality(Settled') = s + 1 /\ Cardinality(Pending') = p - 1
    BY <1>2, <1>5, <1>6, <1>7
  <1> HIDE DEF s, p
  <1>11. /\ o \in RunStats /\ o.total = 0 /\ o.ok + o.failed = 1 /\ o.ok \in Nat /\ o.failed \in Nat
         /\ o.timeout <= o.failed /\ o.errors = o.failed /\ o.latencies = o.ok /\ o.connects = 0
    BY OutcomeStats
  <1> HIDE DEF o
  <1>12. batch' \in RunStats /\ \A k \in Keys : batch'[k] = batch[k] + o[k]
    BY <1>1, <1>11, MergeStats, Zenon DEF o
  <1>13. p > 0
    <2>1. Cardinality(Pending') \in Nat
      BY <1>3, <1>5, FS_RemoveElement, FS_CardinalityType, Zenon
    <2> QED  BY <1>9, <1>10, <2>1
  <1>14. \A k \in Keys : batch[k] \in Nat /\ batch[k] <= s + p /\ o[k] \in Nat
    BY <1>1, <1>8, <1>11, Zenon DEF RunStats, AtMost
  <1>15. Sorted(batch)'
    <2>1. Sorted(o)
      BY <1>11, <1>14 DEF Sorted, Keys
    <2>2. Sorted(merge(batch, o))
      BY <1>1, <1>8, <1>11, <2>1, SortedMerge, Zenon
    <2> QED  BY <2>2, Zenon DEF Sorted, o
  <1>16. batch'.total = s + p /\ batch'.ok + batch'.failed = s + 1
    <2>1. /\ batch'.total = batch.total + 0 /\ batch'.ok = batch.ok + o.ok
          /\ batch'.failed = batch.failed + o.failed
      BY <1>11, <1>12, Zenon DEF Keys
    <2>2. batch.total \in Nat /\ batch.ok \in Nat /\ batch.failed \in Nat
      BY <1>14, Zenon DEF Keys
    <2> QED  BY <1>8, <1>9, <1>11, <2>1, <2>2
  <1>17. \A k \in Keys : batch'[k] <= s + p
    <2>1. \A k \in Keys : batch'[k] \in Nat
      BY <1>12, Zenon DEF RunStats
    <2>2. batch'.ok <= s + p /\ batch'.failed <= s + p
      BY <1>9, <1>13, <1>16, <2>1 DEF Keys
    <2>3. batch'.timeout <= s + p /\ batch'.errors <= s + p
      BY <1>9, <1>15, <2>1, <2>2 DEF Sorted, Keys
    <2>4. batch'.latencies <= s + p
      BY <1>15, <2>2, Zenon DEF Sorted
    <2>5. batch'.connects <= s + p
      BY <1>9, <1>11, <1>12, <1>14 DEF Keys
    <2> QED  BY <1>9, <1>16, <2>2, <2>3, <2>4, <2>5 DEF Keys
  <1>18. (s + 1) + (p - 1) = s + p
    BY <1>9
  <1> QED  BY <1>10, <1>12, <1>15, <1>16, <1>17, <1>18 DEF BatchSums, AtMost

-----------------------------------------------------------------------------
(* The places of a goroutine, mode by mode. *)
LEMMA ModeStates ==
  /\ StatesOf("concurrent") = Results \cup {"run", "done"}
  /\ StatesOf("handshake") = {"dial", "close", "done"}
  /\ StatesOf("sequential") = {"run", "merge", "done"}
  /\ StatesOf("churn") = {"dial", "run", "merge", "close", "done"}
  BY Zenon DEF StatesOf

(* A goroutine that keeps its own state. *)
LEMMA KeepsOwn ==
  ASSUME LoadTypes, NEW i \in Goroutines
  PROVE  left = [left EXCEPT ![i] = left[i]] /\ local = [local EXCEPT ![i] = local[i]]
  BY Zenon DEF LoadTypes

(* A goroutine that is not done belongs to the batch that is running. *)
LEMMA RunningGoroutine ==
  ASSUME LoadInv, NEW i \in Goroutines, g[i] # "done"
  PROVE  /\ main = "join" /\ i \in Started /\ BatchCounts
         /\ g[i] \in StatesOf(loadOpts.mode) /\ loadOpts.mode \in Modes
         /\ local[i] \in RunStats /\ left[i] \in 0..Streams /\ AtMost(local[i], Streams)
         /\ loadOpts.mode \in {"sequential", "churn"} => OwnStats(i)
  <1>1. main = "join" /\ i \in Started /\ g[i] \in StatesOf(loadOpts.mode)
    BY Zenon DEF LoadInv, Running
  <1>2. BatchCounts /\ AtMost(local[i], Streams)
    BY <1>1, Zenon DEF LoadInv, Running
  <1>3. loadOpts.mode \in Modes /\ local[i] \in RunStats /\ left[i] \in 0..Streams
    BY Zenon DEF LoadInv, LoadTypes
  <1> QED  BY <1>1, <1>2, <1>3, Zenon DEF BatchCounts

(* What a step of one goroutine has to show: its own account and the sums. *)
LEMMA GoroutineInv ==
  ASSUME LoadInv, main = "join",
         UNCHANGED << loadOpts, phase, main, batches, expired, stats, err, document, loadExit >>,
         openConns' \subseteq Conns,
         NEW i \in Started, NEW x \in StatesOf(loadOpts.mode), g' = [g EXCEPT ![i] = x],
         NEW n \in 0..Streams, left' = [left EXCEPT ![i] = n],
         NEW l \in RunStats, AtMost(l, Streams), local' = [local EXCEPT ![i] = l],
         loadOpts.mode \in {"sequential", "churn"} => OwnStats(i)',
         batch' \in RunStats, BatchSums'
  PROVE  LoadInv'
  <1>1. /\ LoadTypes /\ Running /\ PhaseCounts /\ Reported /\ BatchCounts
        /\ loadOpts.mode \in Modes
    BY Zenon DEF LoadInv, LoadTypes
  <1>2. /\ i \in Goroutines /\ Started \subseteq Goroutines /\ Started' = Started
    BY <1>1, Sizes, Zenon DEF Started
  <1>3. StatesOf(loadOpts.mode) \subseteq Results \cup {"dial", "run", "merge", "close", "done"}
    BY <1>1, ModeStates, Zenon DEF Modes
  <1>4. /\ g' \in [Goroutines -> Results \cup {"dial", "run", "merge", "close", "done"}]
        /\ left' \in [Goroutines -> 0..Streams] /\ local' \in [Goroutines -> RunStats]
    BY <1>1, <1>2, <1>3, Zenon DEF LoadTypes
  <1>5. /\ g'[i] = x /\ local'[i] = l
        /\ \A j \in Goroutines : j # i => g'[j] = g[j] /\ local'[j] = local[j] /\ left'[j] = left[j]
    BY <1>1, <1>2, Zenon DEF LoadTypes
  <1>6. LoadTypes'
    BY <1>1, <1>4, Zenon DEF LoadTypes
  <1>7. Running'
    <2>1. \A j \in Goroutines : g'[j] \in StatesOf(loadOpts.mode)
      BY <1>1, <1>5, Zenon DEF Running
    <2>2. \A j \in Goroutines : AtMost(local'[j], Streams)
      BY <1>1, <1>5, Zenon DEF Running
    <2>3. \A j \in Goroutines : j \notin Started => g'[j] = "done"
      BY <1>1, <1>5, Zenon DEF Running
    <2>4. batches > 0
      BY <1>1, Zenon DEF Running
    <2> QED  BY <1>2, <2>1, <2>2, <2>3, <2>4, Zenon DEF Running, AtMost
  <1>8. PhaseCounts'
    BY <1>1, Zenon DEF PhaseCounts, Merged, BatchSize, PerConn, AddsUp, AtMost, DialsFailed
  <1>9. Reported'
    BY <1>1, Zenon DEF Reported, ExitZeroMeansMeasured
  <1>10. BatchCounts'
    <2> SUFFICES ASSUME loadOpts.mode \in {"sequential", "churn"}, NEW j \in Started, j # i
                 PROVE  OwnStats(j)'
      BY <1>2, Zenon DEF BatchCounts
    <2>1. OwnStats(j)
      BY <1>1, Zenon DEF BatchCounts
    <2>2. g'[j] = g[j] /\ local'[j] = local[j] /\ left'[j] = left[j]
      BY <1>2, <1>5, Zenon
    <2> QED  BY <2>1, <2>2, Zenon DEF OwnStats, Sorted
  <1> QED  BY <1>6, <1>7, <1>8, <1>9, <1>10, Zenon DEF LoadInv

(* The connection is closed. *)
LEMMA CloseConnInv == ASSUME LoadInv, NEW i \in Goroutines, CloseConn(i) PROVE LoadInv'
  <1>1. /\ g[i] = "close" /\ g' = [g EXCEPT ![i] = "done"] /\ openConns' = openConns \ {i[1]}
        /\ UNCHANGED << loadOpts, phase, main, batches, expired, stats, err, document, loadExit >>
        /\ left' = left /\ local' = local /\ batch' = batch
    BY Zenon DEF CloseConn
  <1>2. /\ main = "join" /\ i \in Started /\ BatchCounts
        /\ g[i] \in StatesOf(loadOpts.mode) /\ loadOpts.mode \in Modes
        /\ local[i] \in RunStats /\ left[i] \in 0..Streams /\ AtMost(local[i], Streams)
        /\ loadOpts.mode \in {"sequential", "churn"} => OwnStats(i)
    BY <1>1, RunningGoroutine, Zenon
  <1>3. LoadTypes
    BY Zenon DEF LoadInv
  <1>4. left' = [left EXCEPT ![i] = left[i]] /\ local' = [local EXCEPT ![i] = local[i]]
    BY <1>1, <1>3, KeepsOwn, Zenon
  <1>5. "done" \in StatesOf(loadOpts.mode)
    BY <1>2, ModeStates, Zenon DEF Modes
  <1>6. BatchSums'
    BY <1>1, <1>2, <1>3, SumsSteady, Zenon DEF BatchCounts
  <1>7. loadOpts.mode \in {"sequential", "churn"} => OwnStats(i)'
    <2>1. g'[i] = "done"
      BY <1>1, <1>3, Zenon DEF LoadTypes
    <2> QED  BY <1>1, <1>2, <2>1, Zenon DEF OwnStats, Sorted
  <1>8. openConns' \subseteq Conns /\ batch' \in RunStats
    BY <1>1, <1>3, Zenon DEF LoadTypes
  <1> QED  BY <1>1, <1>2, <1>4, <1>5, <1>6, <1>7, <1>8, GoroutineInv, Zenon

(* The last stream of a connection has been run. *)
LEMMA EndSequentialInv == ASSUME LoadInv, NEW i \in Goroutines, EndSequential(i) PROVE LoadInv'
  <1>0. g' = [g EXCEPT ![i] = "merge"]
    BY Zenon DEF EndSequential
  <1>1. /\ g[i] = "run" /\ g' = [g EXCEPT ![i] = "merge"] /\ left[i] = 0
        /\ UNCHANGED << loadOpts, phase, main, batches, expired, stats, err, document, loadExit >>
        /\ left' = left /\ local' = local /\ batch' = batch /\ openConns' = openConns
        /\ loadOpts.mode \in {"sequential", "churn"}
    BY <1>0, Zenon DEF EndSequential
  <1>2. /\ main = "join" /\ i \in Started /\ BatchCounts
        /\ local[i] \in RunStats /\ left[i] \in 0..Streams /\ AtMost(local[i], Streams)
        /\ OwnStats(i)
    BY <1>1, RunningGoroutine, Zenon
  <1>3. LoadTypes
    BY Zenon DEF LoadInv
  <1>4. left' = [left EXCEPT ![i] = left[i]] /\ local' = [local EXCEPT ![i] = local[i]]
    BY <1>1, <1>3, KeepsOwn, Zenon
  <1>5. "merge" \in StatesOf(loadOpts.mode)
    BY <1>1, ModeStates, Zenon
  <1>6. BatchSums'
    BY <1>1, <1>2, <1>3, SumsSteady, Zenon DEF BatchCounts
  <1>7. OwnStats(i)'
    <2>1. g'[i] = "merge"
      BY <1>0, <1>3, Zenon DEF LoadTypes
    <2>2. local[i].total = Streams
      <3>1. local[i].total \in Nat
        BY <1>2, Zenon DEF RunStats, Keys
      <3> QED  BY <1>1, <1>2, <3>1 DEF OwnStats
    <2> QED  BY <1>1, <1>2, <2>1, <2>2, Zenon DEF OwnStats, Sorted
  <1>8. openConns' \subseteq Conns /\ batch' \in RunStats
    BY <1>1, <1>3, Zenon DEF LoadTypes
  <1> QED  BY <1>1, <1>2, <1>4, <1>5, <1>6, <1>7, <1>8, GoroutineInv, Zenon

(* A stream of a connection is run. *)
LEMMA RunSequentialInv ==
  ASSUME LoadInv, NEW i \in Goroutines, NEW r \in Results, RunSequential(i, r) PROVE LoadInv'
  <1> DEFINE t == countRequest(local[i])  o == Outcome(r)  l == merge(t, o)
  <1>1. /\ g[i] = "run" /\ g' = g /\ left[i] > 0 /\ left' = [left EXCEPT ![i] = left[i] - 1]
        /\ UNCHANGED << loadOpts, phase, main, batches, expired, stats, err, document, loadExit >>
        /\ local' = [local EXCEPT ![i] = l] /\ batch' = batch /\ openConns' = openConns
        /\ loadOpts.mode \in {"sequential", "churn"}
    <2>1. /\ g[i] = "run" /\ g' = g /\ left[i] > 0
          /\ UNCHANGED << loadOpts, phase, main, batches, expired, stats, err, document, loadExit >>
          /\ batch' = batch /\ openConns' = openConns
          /\ loadOpts.mode \in {"sequential", "churn"}
      BY Zenon DEF RunSequential
    <2>2. left' = [left EXCEPT ![i] = left[i] - 1]
      BY Zenon DEF RunSequential
    <2>3. local' = [local EXCEPT ![i] = l]
      BY Zenon DEF RunSequential
    <2> QED  BY <2>1, <2>2, <2>3, Zenon
  <1>2. /\ main = "join" /\ i \in Started /\ BatchCounts
        /\ local[i] \in RunStats /\ left[i] \in 0..Streams /\ AtMost(local[i], Streams)
        /\ OwnStats(i) /\ g[i] \in StatesOf(loadOpts.mode)
    BY <1>1, RunningGoroutine, Zenon
  <1>3. LoadTypes
    BY Zenon DEF LoadInv
  <1>4. g' = [g EXCEPT ![i] = g[i]]
    BY <1>1, <1>3, Zenon DEF LoadTypes
  <1>5. left[i] - 1 \in 0..Streams /\ Streams \in Nat
    BY <1>1, <1>2, LoadAssumption
  <1>6. BatchSums'
    BY <1>1, <1>2, <1>3, <1>4, SumsSteady, Zenon DEF BatchCounts
  <1>7. /\ t \in RunStats /\ t.total = local[i].total + 1
        /\ \A k \in Keys \ {"total"} : t[k] = local[i][k]
    BY <1>2, OneMore, Zenon
  <1>8. /\ o \in RunStats /\ o.total = 0 /\ o.ok + o.failed = 1 /\ o.ok \in Nat /\ o.failed \in Nat
        /\ o.timeout <= o.failed /\ o.errors = o.failed /\ o.latencies = o.ok /\ o.connects = 0
    BY OutcomeStats
  <1> HIDE DEF t, o
  <1>9. l \in RunStats /\ \A k \in Keys : l[k] = t[k] + o[k]
    BY <1>7, <1>8, MergeStats, Zenon
  <1>10. loadOpts.mode # "handshake"
    BY <1>1, Zenon
  <1>11. Sorted(l)
    <2>1. Sorted(o)
      BY <1>8, <1>10 DEF Sorted
    <2>2. Sorted(t)
      BY <1>2, <1>7, Zenon DEF OwnStats, Sorted, Keys
    <2> QED  BY <1>7, <1>8, <2>1, <2>2, SortedMerge, Zenon
  <1> HIDE DEF l
  <1>12. \A k \in Keys : local[i][k] \in Nat /\ l[k] \in Nat /\ o[k] \in Nat
    BY <1>2, <1>8, <1>9, Zenon DEF RunStats
  <1>13. /\ l.total = local[i].total + 1 /\ l.ok = local[i].ok + o.ok
         /\ l.failed = local[i].failed + o.failed
    <2>1. /\ l.total = t.total + o.total /\ l.ok = t.ok + o.ok /\ l.failed = t.failed + o.failed
          /\ t.ok = local[i].ok /\ t.failed = local[i].failed /\ local[i].total \in Nat
      BY <1>7, <1>9, <1>12, Zenon DEF Keys
    <2> QED  BY <1>7, <1>8, <2>1
  <1>14. l.total + (left[i] - 1) = Streams /\ l.total = l.ok + l.failed
    <2>1. local[i].total + left[i] = Streams /\ local[i].total = local[i].ok + local[i].failed
      BY <1>1, <1>2, Zenon DEF OwnStats
    <2> QED  BY <1>2, <1>8, <1>12, <1>13, <2>1 DEF Keys
  <1>15. AtMost(l, Streams)
    <2>1. l.total <= Streams /\ l.ok <= Streams /\ l.failed <= Streams
      BY <1>5, <1>12, <1>14 DEF Keys
    <2>2. l.timeout <= Streams /\ l.errors <= Streams /\ l.latencies <= Streams
      BY <1>5, <1>10, <1>11, <1>12, <2>1 DEF Sorted, Keys
    <2>3. l.connects <= Streams
      <3>1. /\ l.connects = t.connects + o.connects /\ t.connects = local[i].connects
            /\ local[i].connects \in Nat /\ local[i].connects <= Streams
        BY <1>2, <1>7, <1>9, <1>12, Zenon DEF AtMost, Keys
      <3> QED  BY <1>8, <3>1
    <2> QED  BY <2>1, <2>2, <2>3, Zenon DEF AtMost, Keys
  <1>16. OwnStats(i)'
    <2>1. g'[i] = "run" /\ local'[i] = l /\ left'[i] = left[i] - 1
      BY <1>1, <1>3, Zenon DEF LoadTypes
    <2>2. Sorted(local[i])'
      BY <1>1, <1>11, <2>1, Zenon DEF Sorted
    <2> QED  BY <1>14, <2>1, <2>2, Zenon DEF OwnStats
  <1>17. openConns' \subseteq Conns /\ batch' \in RunStats
    BY <1>1, <1>3, Zenon DEF LoadTypes
  <1> QED  BY <1>1, <1>2, <1>4, <1>5, <1>6, <1>9, <1>15, <1>16, <1>17, GoroutineInv, Zenon

(* A connection is dialled, or its streams all fail. *)
LEMMA ChurnDialInv == ASSUME LoadInv, NEW i \in Goroutines, ChurnDial(i) PROVE LoadInv'
  <1>1. /\ g[i] = "dial" /\ loadOpts.mode = "churn"
        /\ UNCHANGED << loadOpts, phase, main, batches, expired, stats, err, document, loadExit >>
        /\ left' = left /\ batch' = batch
    BY Zenon DEF ChurnDial
  <1>2. /\ main = "join" /\ i \in Started /\ BatchCounts
        /\ left[i] \in 0..Streams /\ OwnStats(i)
    BY <1>1, RunningGoroutine, Zenon
  <1>3. LoadTypes
    BY Zenon DEF LoadInv
  <1>4. left' = [left EXCEPT ![i] = left[i]] /\ batch' \in RunStats
    BY <1>1, <1>3, KeepsOwn, Zenon DEF LoadTypes
  <1>5. "run" \in StatesOf(loadOpts.mode) /\ "merge" \in StatesOf(loadOpts.mode)
    BY <1>1, ModeStates, Zenon
  <1>6. local[i] = Zero /\ left[i] = Streams /\ Streams \in Nat \ {0}
    BY <1>1, <1>2, LoadAssumption, Zenon DEF OwnStats
  <1> DEFINE Opened == /\ g' = [g EXCEPT ![i] = "run"] /\ openConns' = openConns \cup {i[1]}
                       /\ local' = [local EXCEPT ![i].connects = 1]
             Refused == /\ \E r \in Results \ {"ok"} :
                             local' = [local EXCEPT ![i] =
                                [Zero EXCEPT !.total = Streams, !.failed = Streams, !.errors = 1,
                                             !.timeout = IF r = "timeout" THEN Streams ELSE 0]]
                        /\ g' = [g EXCEPT ![i] = "merge"] /\ UNCHANGED openConns
  <1>a. Opened \/ Refused
    BY Zenon DEF ChurnDial
  <1>7. CASE Opened
    <2> DEFINE l == [Zero EXCEPT !.connects = 1]
    <2>1. local' = [local EXCEPT ![i] = l]
      BY <1>6, <1>7, Zenon
    <2>2. l \in RunStats /\ l.connects = 1 /\ \A k \in Keys \ {"connects"} : l[k] = 0
      BY ZeroStats, 1 \in Nat, Zenon DEF RunStats, Keys
    <2> HIDE DEF l
    <2>3. AtMost(l, Streams)
      BY <1>6, <2>2 DEF AtMost
    <2>4. OwnStats(i)'
      <3>1. g'[i] = "run" /\ local'[i] = l /\ left'[i] = Streams
        BY <1>3, <1>4, <1>6, <1>7, <2>1 DEF LoadTypes
      <3>2. /\ l.total = 0 /\ l.ok = 0 /\ l.failed = 0 /\ l.timeout = 0 /\ l.errors = 0
            /\ l.latencies = 0
        BY <2>2, Zenon DEF Keys
      <3> QED  BY <1>1, <1>6, <3>1, <3>2 DEF OwnStats, Sorted
    <2>5. BatchSums'
      BY <1>1, <1>2, <1>3, <1>7, SumsSteady, Zenon DEF BatchCounts
    <2>6. openConns' \subseteq Conns
      BY <1>3, <1>7, Zenon DEF LoadTypes, Goroutines
    <2> QED
      BY <1>1, <1>2, <1>4, <1>5, <1>7, <2>1, <2>2, <2>3, <2>4, <2>5, <2>6, GoroutineInv, Zenon
  <1>8. CASE Refused
    <2>1. PICK r \in Results \ {"ok"} :
            local' = [local EXCEPT ![i] =
                        [Zero EXCEPT !.total = Streams, !.failed = Streams, !.errors = 1,
                                     !.timeout = IF r = "timeout" THEN Streams ELSE 0]]
      BY <1>8, Zenon
    <2> DEFINE t == IF r = "timeout" THEN Streams ELSE 0
               l == [Zero EXCEPT !.total = Streams, !.failed = Streams, !.errors = 1, !.timeout = t]
    <2>2. t \in Nat /\ t <= Streams
      BY <1>6
    <2>3. local' = [local EXCEPT ![i] = l]
      BY <2>1, Zenon
    <2> HIDE DEF t
    <2>4. /\ l \in RunStats /\ l.total = Streams /\ l.failed = Streams /\ l.errors = 1
          /\ l.timeout = t /\ l.ok = 0 /\ l.latencies = 0 /\ l.connects = 0
      <3>1. Streams \in Nat /\ 1 \in Nat
        BY <1>6, Zenon
      <3> QED  BY <2>2, <3>1, ZeroStats, Zenon DEF RunStats, Keys
    <2> HIDE DEF l
    <2>5. AtMost(l, Streams)
      BY <1>6, <2>2, <2>4 DEF AtMost, Keys
    <2>6. OwnStats(i)'
      <3>1. g'[i] = "merge" /\ local'[i] = l
        BY <1>3, <1>8, <2>3, Zenon DEF LoadTypes
      <3> QED  BY <1>1, <1>6, <2>2, <2>4, <3>1 DEF OwnStats, Sorted
    <2>7. BatchSums'
      BY <1>1, <1>2, <1>3, <1>8, SumsSteady, Zenon DEF BatchCounts
    <2>8. openConns' \subseteq Conns /\ g' = [g EXCEPT ![i] = "merge"]
      BY <1>3, <1>8, Zenon DEF LoadTypes
    <2> QED
      BY <1>1, <1>2, <1>4, <1>5, <2>3, <2>4, <2>5, <2>6, <2>7, <2>8, GoroutineInv, Zenon
  <1> HIDE DEF Opened, Refused
  <1> QED  BY <1>a, <1>7, <1>8, Zenon

(* A cold handshake succeeds or fails. *)
LEMMA HandshakeDialInv == ASSUME LoadInv, NEW i \in Goroutines, HandshakeDial(i) PROVE LoadInv'
  <1>1. /\ g[i] = "dial" /\ loadOpts.mode = "handshake"
        /\ UNCHANGED << loadOpts, phase, main, batches, expired, stats, err, document, loadExit >>
        /\ left' = left /\ local' = local
    BY Zenon DEF HandshakeDial
  <1>2. /\ main = "join" /\ i \in Started /\ BatchSums
        /\ local[i] \in RunStats /\ left[i] \in 0..Streams /\ AtMost(local[i], Streams)
    BY <1>1, RunningGoroutine, Zenon DEF BatchCounts
  <1>3. LoadTypes /\ batch \in RunStats
    BY Zenon DEF LoadInv, LoadTypes
  <1>4. left' = [left EXCEPT ![i] = left[i]] /\ local' = [local EXCEPT ![i] = local[i]]
    BY <1>1, <1>3, KeepsOwn, Zenon
  <1>5. "close" \in StatesOf(loadOpts.mode) /\ "done" \in StatesOf(loadOpts.mode) /\ Weight = 1
    BY <1>1, ModeStates, Zenon DEF Weight
  <1>6. PICK r \in Results :
          /\ batch' = merge(countRequest(batch),
                            [Outcome(r) EXCEPT !.latencies = 0,
                                               !.connects = IF r = "ok" THEN 1 ELSE 0])
          /\ g' = [g EXCEPT ![i] = IF r = "ok" THEN "close" ELSE "done"]
          /\ openConns' = IF r = "ok" THEN openConns \cup {i[1]} ELSE openConns
    BY Zenon DEF HandshakeDial
  <1> DEFINE o == [Outcome(r) EXCEPT !.latencies = 0, !.connects = IF r = "ok" THEN 1 ELSE 0]
             b == countRequest(o)
             x == IF r = "ok" THEN "close" ELSE "done"
  <1>7. /\ o \in RunStats /\ o.total = 0 /\ o.connects = o.ok
        /\ r = "ok" => o.ok = 1 /\ o.failed = 0
        /\ r # "ok" => o.ok = 0 /\ o.failed = 1
        /\ o.timeout <= o.failed /\ o.errors = o.failed /\ o.latencies = 0
    BY HandshakeStats, Zenon
  <1>8. batch' = merge(countRequest(batch), o)
    BY <1>6, Zenon
  <1> HIDE DEF o
  <1>9. /\ b \in RunStats /\ b.total = o.total + 1 /\ \A k \in Keys \ {"total"} : b[k] = o[k]
        /\ countRequest(batch) \in RunStats /\ countRequest(batch).total = batch.total + 1
        /\ \A k \in Keys \ {"total"} : countRequest(batch)[k] = batch[k]
    BY <1>3, <1>7, OneMore, Zenon
  <1> HIDE DEF b
  <1>10. batch' \in RunStats /\ \A k \in Keys : batch'[k] = countRequest(batch)[k] + o[k]
    BY <1>7, <1>8, <1>9, MergeStats, Zenon
  <1>11. \A k \in Keys : batch'[k] = batch[k] + b[k]
    <2>1. \A k \in Keys : batch[k] \in Nat /\ o[k] \in Nat
      BY <1>3, <1>7, Zenon DEF RunStats
    <2>2. batch'.total = batch.total + b.total
      BY <1>7, <1>9, <1>10, <2>1 DEF Keys
    <2>3. \A k \in Keys \ {"total"} : batch'[k] = batch[k] + b[k]
      BY <1>9, <1>10, Zenon
    <2> QED  BY <2>2, <2>3, Zenon
  <1>12. /\ b.total = 1 /\ b.ok = o.ok /\ b.failed = o.failed /\ b.timeout = o.timeout
         /\ b.errors = o.errors /\ b.latencies = 0 /\ b.connects = o.connects
    BY <1>7, <1>9 DEF Keys
  <1>13. Sorted(b) /\ b.ok + b.failed = 1 /\ AtMost(b, 1)
    <2>1. b.timeout \in Nat
      BY <1>9, Zenon DEF RunStats, Keys
    <2>2. Sorted(b) /\ b.ok + b.failed = 1
      BY <1>1, <1>7, <1>12 DEF Sorted
    <2>3. AtMost(b, 1)
      BY <1>7, <1>12, <2>1 DEF AtMost, Keys
    <2> QED  BY <2>2, <2>3, Zenon
  <1>14. x \in {"close", "done"} /\ x \in StatesOf(loadOpts.mode) /\ g' = [g EXCEPT ![i] = x]
    BY <1>5, <1>6, Zenon
  <1> HIDE DEF x
  <1>15. BatchSums'
    BY <1>1, <1>2, <1>3, <1>5, <1>9, <1>10, <1>11, <1>12, <1>13, <1>14,
       SumsSettle, Zenon DEF Results
  <1>16. openConns' \subseteq Conns
    BY <1>3, <1>6, Zenon DEF LoadTypes, Goroutines
  <1>17. loadOpts.mode \notin {"sequential", "churn"}
    BY <1>1, Zenon
  <1> QED
    BY <1>1, <1>2, <1>4, <1>10, <1>14, <1>15, <1>16, <1>17, GoroutineInv, Zenon

(* A concurrent stream is counted. *)
LEMMA CountTotalInv ==
  ASSUME LoadInv, NEW i \in Goroutines, NEW r \in Results, CountTotal(i, r)  PROVE LoadInv'
  <1>1. /\ g[i] = "run" /\ loadOpts.mode = "concurrent" /\ openConns' = openConns
        /\ UNCHANGED << loadOpts, phase, main, batches, expired, stats, err, document, loadExit >>
        /\ left' = left /\ local' = local
        /\ batch' = countRequest(batch) /\ g' = [g EXCEPT ![i] = r]
    BY Zenon DEF CountTotal
  <1>2. /\ main = "join" /\ i \in Started /\ BatchSums
        /\ local[i] \in RunStats /\ left[i] \in 0..Streams /\ AtMost(local[i], Streams)
    BY <1>1, RunningGoroutine, Zenon DEF BatchCounts
  <1>3. LoadTypes /\ openConns' \subseteq Conns
    BY <1>1, Zenon DEF LoadInv, LoadTypes
  <1>4. left' = [left EXCEPT ![i] = left[i]] /\ local' = [local EXCEPT ![i] = local[i]]
    BY <1>1, <1>3, KeepsOwn, Zenon
  <1>5. r \in StatesOf(loadOpts.mode) /\ loadOpts.mode \notin {"sequential", "churn"}
    BY <1>1, ModeStates, Zenon
  <1>6. batch' \in RunStats /\ BatchSums'
    BY <1>1, <1>2, <1>3, CountTotalSums, Zenon DEF Results
  <1> QED  BY <1>1, <1>2, <1>3, <1>4, <1>5, <1>6, GoroutineInv, Zenon

(* So is its outcome. *)
LEMMA CountOutcomeInv == ASSUME LoadInv, NEW i \in Goroutines, CountOutcome(i) PROVE LoadInv'
  <1>0. /\ g[i] \in Results
        /\ batch' = merge(batch, Outcome(g[i])) /\ g' = [g EXCEPT ![i] = "done"]
    BY Zenon DEF CountOutcome
  <1>1. /\ UNCHANGED << loadOpts, phase, main, batches, expired, stats, err, document, loadExit >>
        /\ openConns' = openConns /\ left' = left /\ local' = local
    BY Zenon DEF CountOutcome
  <1>2. /\ main = "join" /\ i \in Started /\ BatchSums
        /\ g[i] \in StatesOf(loadOpts.mode) /\ loadOpts.mode \in Modes
        /\ local[i] \in RunStats /\ left[i] \in 0..Streams /\ AtMost(local[i], Streams)
    BY <1>0, RunningGoroutine, Zenon DEF BatchCounts, Results
  <1>3. LoadTypes /\ openConns' \subseteq Conns
    BY <1>1, Zenon DEF LoadInv, LoadTypes
  <1>4. left' = [left EXCEPT ![i] = left[i]] /\ local' = [local EXCEPT ![i] = local[i]]
    BY <1>1, <1>3, KeepsOwn, Zenon
  <1>5. loadOpts.mode = "concurrent" /\ "done" \in StatesOf(loadOpts.mode)
    BY <1>0, <1>2, ModeStates, Zenon DEF Modes, Results
  <1>6. batch' \in RunStats /\ BatchSums'
    BY <1>0, <1>1, <1>2, <1>3, <1>5, CountOutcomeSums, Zenon
  <1>7. loadOpts.mode \notin {"sequential", "churn"}
    BY <1>5, Zenon
  <1> QED  BY <1>0, <1>1, <1>2, <1>3, <1>4, <1>5, <1>6, <1>7, GoroutineInv, Zenon

(* A goroutine's statistics are merged into the batch's. *)
LEMMA MergeLocalInv == ASSUME LoadInv, NEW i \in Goroutines, MergeLocal(i) PROVE LoadInv'
  <1> DEFINE x == IF loadOpts.mode = "churn" /\ i[1] \in openConns THEN "close" ELSE "done"
  <1>a. g[i] = "merge"
    BY Zenon DEF MergeLocal
  <1>b. batch' = merge(batch, local[i]) /\ g' = [g EXCEPT ![i] = x]
    BY Zenon DEF MergeLocal
  <1>1. /\ UNCHANGED << loadOpts, phase, main, batches, expired, stats, err, document, loadExit >>
        /\ openConns' = openConns /\ left' = left /\ local' = local
    BY Zenon DEF MergeLocal
  <1>2. /\ main = "join" /\ i \in Started /\ BatchSums
        /\ g[i] \in StatesOf(loadOpts.mode) /\ loadOpts.mode \in Modes
        /\ local[i] \in RunStats /\ left[i] \in 0..Streams /\ AtMost(local[i], Streams)
        /\ loadOpts.mode \in {"sequential", "churn"} => OwnStats(i)
    BY <1>a, RunningGoroutine, Zenon DEF BatchCounts
  <1>3. LoadTypes /\ openConns' \subseteq Conns /\ batch \in RunStats
    BY <1>1, Zenon DEF LoadInv, LoadTypes
  <1>4. left' = [left EXCEPT ![i] = left[i]] /\ local' = [local EXCEPT ![i] = local[i]]
    BY <1>1, <1>3, KeepsOwn, Zenon
  <1>5. loadOpts.mode \in {"sequential", "churn"} /\ Weight = Streams
    BY <1>a, <1>2, ModeStates, Zenon DEF Modes, Results, Weight
  <1>6. x \in {"close", "done"} /\ x \in StatesOf(loadOpts.mode)
    BY <1>5, ModeStates, Zenon
  <1> HIDE DEF x
  <1>7. /\ local[i].total = Streams /\ local[i].ok + local[i].failed = Streams /\ Sorted(local[i])
    BY <1>a, <1>2, <1>5, Zenon DEF OwnStats
  <1>8. batch' \in RunStats /\ \A k \in Keys : batch'[k] = batch[k] + local[i][k]
    BY <1>b, <1>2, <1>3, MergeStats, Zenon
  <1>9. BatchSums'
    <2>1. g[i] \notin {"close", "done"} \cup Results
      BY <1>a, Zenon DEF Results
    <2> QED
      BY <1>b, <1>1, <1>2, <1>3, <1>5, <1>6, <1>7, <1>8, <2>1, SumsSettle, Zenon
  <1>10. OwnStats(i)'
    <2>1. g'[i] = x /\ local'[i] = local[i]
      BY <1>b, <1>1, <1>3, Zenon DEF LoadTypes
    <2> QED  BY <1>1, <1>2, <1>5, <1>6, <2>1, Zenon DEF OwnStats, Sorted
  <1> QED  BY <1>b, <1>1, <1>2, <1>3, <1>4, <1>6, <1>8, <1>9, <1>10, GoroutineInv, Zenon

(* Every step of a goroutine keeps the invariant. *)
LEMMA GoroutineStepInv == ASSUME LoadInv, NEW i \in Goroutines, GoroutineStep(i)  PROVE LoadInv'
  BY ChurnDialInv, HandshakeDialInv, CloseConnInv, CountOutcomeInv, EndSequentialInv,
     MergeLocalInv, CountTotalInv, RunSequentialInv, Zenon DEF GoroutineStep

-----------------------------------------------------------------------------
(* Once all goroutines are done the batch is whole. *)
LEMMA BatchComplete ==
  ASSUME LoadInv, main \in {"join", "merge"}, \A i \in Goroutines : g[i] = "done"
  PROVE  AddsUp(batch) /\ batch.total = BatchSize /\ AtMost(batch, BatchSize)
  <1>1. loadOpts.mode \in Modes /\ batch \in RunStats /\ BatchSums
    BY Zenon DEF LoadInv, LoadTypes, BatchCounts
  <1>2. Started \subseteq Goroutines /\ Weight \in Nat /\ Weight * Cardinality(Started) = BatchSize
    BY <1>1, Sizes, Zenon
  <1>3. Settled = Started /\ Pending = {}
    BY <1>2, Zenon DEF Settled, Pending, Results
  <1>4. Cardinality(Pending) = 0 /\ BatchSize \in Nat
    BY <1>1, <1>3, FS_EmptySet, Sizes, Zenon
  <1>5. Weight * Cardinality(Settled) = BatchSize
    BY <1>2, <1>3, Zenon
  <1>6. batch.total = BatchSize + 0 /\ batch.ok + batch.failed = BatchSize /\ Sorted(batch)
    BY <1>1, <1>4, <1>5, Zenon DEF BatchSums
  <1>7. AtMost(batch, BatchSize + 0)
    BY <1>1, <1>4, <1>5, Zenon DEF BatchSums
  <1> QED  BY <1>4, <1>6, <1>7 DEF AddsUp, Sorted

(* A step of main with no goroutine running. *)
LEMMA QuietRunning ==
  ASSUME LoadInv, UNCHANGED << loadOpts, g, left, local, batch >>,
         main \notin {"join", "merge"}, main' \notin {"join", "merge"}
  PROVE  Running' /\ (main' \in {"join", "merge"} => BatchCounts')
  <1>1. Running /\ Started' = Started
    BY Zenon DEF LoadInv, Started
  <1> QED  BY <1>1, Zenon DEF Running, AtMost

(* A step of main that neither merges nor returns. *)
LEMMA QuietPhase ==
  ASSUME PhaseCounts, UNCHANGED << loadOpts, phase, stats, batches >>, Merged' = Merged,
         main' \in {"start", "dial"} => batches = 0,
         main' \in {"returned", "exited"} <=> main \in {"returned", "exited"}
  PROVE  PhaseCounts'
  <1>1. BatchSize' = BatchSize
    BY Zenon DEF BatchSize, PerConn
  <1> QED  BY <1>1, Zenon DEF PhaseCounts, AddsUp, AtMost, DialsFailed

(* A phase ends after its batches. *)
LEMMA PhaseReturns ==
  ASSUME PhaseCounts, UNCHANGED << loadOpts, phase, stats, batches >>, Merged' = Merged,
         batches > 0, main' \notin {"start", "dial"}
  PROVE  PhaseCounts'
  <1>1. BatchSize' = BatchSize
    BY Zenon DEF BatchSize, PerConn
  <1> QED  BY <1>1 DEF PhaseCounts, AddsUp, AtMost, DialsFailed

(* The process starts in the invariant. *)
LEMMA LoadInitInv == ASSUME LoadInit PROVE LoadInv
  <1>1. /\ loadOpts \in [mode : Modes, warmup : BOOLEAN, failOnErrors : BOOLEAN]
        /\ main = "start" /\ batches = 0 /\ stats = Zero /\ batch = Zero
        /\ document = "none" /\ loadExit = "none" /\ phase \in {"warmup", "measured"}
        /\ g = [i \in Goroutines |-> "done"] /\ local = [i \in Goroutines |-> Zero]
    BY Zenon DEF LoadInit
  <1>2. loadOpts.mode \in Modes /\ Streams \in Nat /\ Cardinality(Conns) * Streams \in Nat
    BY <1>1, LoadAssumption, FS_CardinalityType
  <1>3. LoadTypes
    <2>1. 0 \in 0..Streams /\ 0 \in 0..MaxBatches
      BY LoadAssumption
    <2> QED  BY <1>1, <2>1, ZeroStats, Zenon DEF LoadInit, LoadTypes
  <1>4. Running
    <2>1. "done" \in StatesOf(loadOpts.mode)
      BY <1>2, ModeStates, Zenon DEF Modes
    <2> QED  BY <1>1, <1>2, <2>1, ZeroCounts, Zenon DEF Running
  <1>5. PhaseCounts
    <2>1. Merged = 0 /\ BatchSize \in Nat
      BY <1>1, <1>2, Sizes, Zenon DEF Merged
    <2>2. Merged * BatchSize = 0
      BY <2>1
    <2> QED  BY <1>1, <2>2, ZeroCounts, Zenon DEF PhaseCounts
  <1>6. Reported
    BY <1>1, Zenon DEF Reported, ExitZeroMeansMeasured
  <1> QED  BY <1>1, <1>3, <1>4, <1>5, <1>6, Zenon DEF LoadInv

(* A phase begins. *)
LEMMA BeginInv == ASSUME LoadInv, Begin PROVE LoadInv'
  <1>1. /\ main = "start" /\ main' \in {"dial", "batch"}
        /\ UNCHANGED << loadOpts, phase, batches, expired, openConns, g, left, local, batch, stats,
                        err, document, loadExit >>
    BY Zenon DEF Begin
  <1>2. LoadTypes /\ PhaseCounts /\ Reported /\ batches = 0
    BY <1>1, Zenon DEF LoadInv, PhaseCounts
  <1>3. Running' /\ (main' \in {"join", "merge"} => BatchCounts')
    BY <1>1, QuietRunning, Zenon
  <1>4. LoadTypes'
    BY <1>1, <1>2 DEF LoadTypes
  <1>5. PhaseCounts'
    BY <1>1, <1>2, QuietPhase, Zenon DEF Merged
  <1>6. Reported'
    BY <1>1, <1>2, Zenon DEF Reported, ExitZeroMeansMeasured
  <1> QED  BY <1>3, <1>4, <1>5, <1>6, Zenon DEF LoadInv

(* A connection of a stream load is dialled. *)
LEMMA DialConnInv == ASSUME LoadInv, DialConn PROVE LoadInv'
  <1>1. /\ main = "dial" /\ main' \in {"dial", "batch"} /\ openConns' \subseteq openConns \cup Conns
        /\ UNCHANGED << loadOpts, phase, batches, expired, g, left, local, batch, stats, err,
                        document, loadExit >>
    BY Zenon DEF DialConn
  <1>2. LoadTypes /\ PhaseCounts /\ Reported /\ batches = 0
    BY <1>1, Zenon DEF LoadInv, PhaseCounts
  <1>3. Running' /\ (main' \in {"join", "merge"} => BatchCounts')
    BY <1>1, QuietRunning, Zenon
  <1>4. LoadTypes'
    BY <1>1, <1>2 DEF LoadTypes
  <1>5. PhaseCounts'
    BY <1>1, <1>2, QuietPhase, Zenon DEF Merged
  <1>6. Reported'
    BY <1>1, <1>2 DEF Reported, ExitZeroMeansMeasured
  <1> QED  BY <1>3, <1>4, <1>5, <1>6, Zenon DEF LoadInv

(* Such a dial fails, and with it the phase. *)
LEMMA DialFailedInv == ASSUME LoadInv, DialFailed PROVE LoadInv'
  <1>1. /\ main = "dial" /\ main' = "returned" /\ err' = TRUE /\ stats' = DialsFailed
        /\ UNCHANGED << loadOpts, phase, batches, expired, openConns, g, left, local, batch,
                        document, loadExit >>
    BY Zenon DEF DialFailed, DialsFailed
  <1>2. LoadTypes /\ PhaseCounts /\ Reported /\ batches = 0
    BY <1>1, Zenon DEF LoadInv, PhaseCounts
  <1>3. Running' /\ (main' \in {"join", "merge"} => BatchCounts')
    BY <1>1, QuietRunning, Zenon
  <1>4. LoadTypes'
    BY <1>1, <1>2, DialsFailedStats, Zenon DEF LoadTypes
  <1>5. PhaseCounts'
    <2>1. DialsFailed' = DialsFailed
      BY Zenon DEF DialsFailed, Zero
    <2> QED  BY <1>1, <1>2, <2>1 DEF PhaseCounts
  <1>6. Reported'
    BY <1>1, <1>2, Zenon DEF Reported, ExitZeroMeansMeasured
  <1> QED  BY <1>3, <1>4, <1>5, <1>6, Zenon DEF LoadInv

(* A batch starts with nothing counted. *)
LEMMA StartBatchInv == ASSUME LoadInv, StartBatch PROVE LoadInv'
  <1> DEFINE first == IF loadOpts.mode \in {"handshake", "churn"} THEN "dial" ELSE "run"
  <1>1. /\ main = "batch" /\ batches < MaxBatches /\ batches' = batches + 1 /\ main' = "join"
        /\ batch' = Zero /\ local' = [i \in Goroutines |-> Zero]
        /\ g' = [i \in Goroutines |-> IF i \notin Started THEN "done" ELSE first]
        /\ left' = [i \in Goroutines |-> IF i \in Started THEN PerConn ELSE 0]
        /\ UNCHANGED << loadOpts, phase, expired, openConns, stats, err, document, loadExit >>
    BY Zenon DEF StartBatch
  <1>2. LoadTypes /\ PhaseCounts /\ Reported /\ loadOpts.mode \in Modes
    BY Zenon DEF LoadInv, LoadTypes
  <1>3. /\ Started' = Started /\ Started \subseteq Goroutines /\ Weight' = Weight
        /\ PerConn \in Nat /\ PerConn <= Streams /\ Weight \in Nat /\ BatchSize' = BatchSize
    BY <1>1, <1>2, Sizes, Zenon DEF Started, Weight, BatchSize, PerConn
  <1>4. /\ first \in {"dial", "run"} /\ first \in StatesOf(loadOpts.mode)
        /\ "done" \in StatesOf(loadOpts.mode)
    BY <1>2, ModeStates, Zenon DEF Modes
  <1>5. loadOpts.mode \in {"sequential", "churn"} => PerConn = Streams
    BY Zenon DEF PerConn
  <1> HIDE DEF first
  <1>6. Streams \in Nat /\ MaxBatches \in Nat
    BY LoadAssumption, Zenon
  <1>7. LoadTypes'
    <2>1. batches' \in 0..MaxBatches /\ batches' > 0
      BY <1>1, <1>2, <1>6 DEF LoadTypes
    <2>2. PerConn \in 0..Streams /\ 0 \in 0..Streams
      BY <1>3, <1>6
    <2>3. /\ left' \in [Goroutines -> 0..Streams] /\ local' \in [Goroutines -> RunStats]
          /\ g' \in [Goroutines -> Results \cup {"dial", "run", "merge", "close", "done"}]
      BY <1>1, <1>4, <2>2, ZeroStats, Zenon
    <2> QED  BY <1>1, <1>2, <2>1, <2>3, ZeroStats DEF LoadTypes
  <1>8. Running'
    <2>1. \A i \in Goroutines :
            g'[i] \in StatesOf(loadOpts.mode) /\ (i \notin Started => g'[i] = "done")
      BY <1>1, <1>4, Zenon
    <2>2. \A i \in Goroutines : AtMost(local'[i], Streams)
      BY <1>1, <1>6, ZeroCounts, Zenon
    <2>3. batches' > 0
      BY <1>1, <1>2 DEF LoadTypes
    <2> QED  BY <1>1, <1>3, <2>1, <2>2, <2>3, Zenon DEF Running, AtMost
  <1>9. PhaseCounts'
    <2>1. batches \in Nat /\ batches' > 0 /\ Merged' = Merged
      BY <1>1, <1>2 DEF LoadTypes, Merged
    <2> QED  BY <1>1, <1>2, <1>3, <2>1, Zenon DEF PhaseCounts, AddsUp, AtMost
  <1>10. Reported'
    BY <1>1, <1>2, Zenon DEF Reported, ExitZeroMeansMeasured
  <1>11. BatchSums'
    <2>1. \A i \in Started : g'[i] \in {"dial", "run"}
      BY <1>1, <1>3, <1>4, Zenon
    <2>2. Settled' = {} /\ Pending' = {}
      BY <1>3, <2>1, Zenon DEF Settled, Pending, Results
    <2>3. Cardinality({}) = 0
      BY FS_EmptySet, Zenon
    <2>4. Weight' * Cardinality(Settled') = 0 /\ Cardinality(Pending') = 0
      BY <1>3, <2>2, <2>3
    <2>5. Sorted(batch)'
      BY <1>1, ZeroCounts, Zenon DEF Sorted
    <2>6. AtMost(batch, 0)'
      BY <1>1, ZeroStats DEF AtMost
    <2> QED  BY <1>1, <2>4, <2>5, <2>6, ZeroCounts DEF BatchSums
  <1>12. ASSUME loadOpts.mode \in {"sequential", "churn"}, NEW i \in Started  PROVE OwnStats(i)'
    <2>1. g'[i] \in {"dial", "run"} /\ local'[i] = Zero /\ left'[i] = Streams
      BY <1>1, <1>3, <1>4, <1>5, <1>12, Zenon
    <2> QED  BY <1>1, <1>6, <2>1, ZeroCounts DEF OwnStats, Sorted
  <1>13. BatchCounts'
    BY <1>1, <1>3, <1>11, <1>12, Zenon DEF BatchCounts
  <1> QED  BY <1>7, <1>8, <1>9, <1>10, <1>13, Zenon DEF LoadInv

(* The deadline passes, wg.Wait returns, or nothing happens. *)
LEMMA ExpireJoinInv ==
  ASSUME LoadInv,
         \/ main' = main
         \/ main = "join" /\ main' = "merge" /\ \A i \in Goroutines : g[i] = "done",
         expired' \in BOOLEAN,
         UNCHANGED << loadOpts, phase, batches, openConns, g, left, local, batch, stats,
                      err, document, loadExit >>
  PROVE  LoadInv'
  <1>1. LoadTypes /\ Running /\ PhaseCounts /\ Reported
    BY Zenon DEF LoadInv
  <1>2. Started' = Started /\ Weight' = Weight
    BY Zenon DEF Started, Weight
  <1>3. LoadTypes'
    BY <1>1 DEF LoadTypes
  <1>4. Running'
    BY <1>1, <1>2, Zenon DEF Running, AtMost
  <1>5. PhaseCounts'
    <2>1. Merged' = Merged /\ (main' \in {"start", "dial"} => batches = 0)
      BY <1>1, Zenon DEF Merged, PhaseCounts
    <2>2. main' \in {"returned", "exited"} <=> main \in {"returned", "exited"}
      BY Zenon
    <2> QED  BY <1>1, <2>1, <2>2, QuietPhase, Zenon
  <1>6. Reported'
    BY <1>1, Zenon DEF Reported, ExitZeroMeansMeasured
  <1>7. ASSUME main' \in {"join", "merge"}  PROVE BatchCounts'
    <2>1. BatchCounts
      BY <1>7, Zenon DEF LoadInv
    <2>2. Settled' = Settled /\ Pending' = Pending
      BY <1>2, Zenon DEF Settled, Pending
    <2>3. BatchSums'
      BY <1>2, <2>1, <2>2, Zenon DEF BatchCounts, BatchSums, Sorted, AtMost
    <2>4. loadOpts.mode \in {"sequential", "churn"} => \A i \in Started : OwnStats(i)'
      BY <2>1, Zenon DEF BatchCounts, OwnStats, Sorted
    <2> QED  BY <1>2, <2>3, <2>4, Zenon DEF BatchCounts
  <1> QED  BY <1>3, <1>4, <1>5, <1>6, <1>7, Zenon DEF LoadInv

(* The deadline ends a phase. *)
LEMMA PhaseOverInv == ASSUME LoadInv, PhaseOver PROVE LoadInv'
  <1>1. /\ main = "batch" /\ main' = "returned" /\ batches > 0
        /\ UNCHANGED << loadOpts, phase, batches, expired, openConns, g, left, local, batch, stats,
                        err, document, loadExit >>
    BY Zenon DEF PhaseOver
  <1>2. LoadTypes /\ PhaseCounts /\ Reported
    BY Zenon DEF LoadInv
  <1>3. Running' /\ (main' \in {"join", "merge"} => BatchCounts')
    BY <1>1, QuietRunning, Zenon
  <1>4. LoadTypes'
    BY <1>1, <1>2, Zenon DEF LoadTypes
  <1>5. PhaseCounts'
    BY <1>1, <1>2, PhaseReturns, Zenon DEF Merged
  <1>6. Reported'
    BY <1>1, <1>2, Zenon DEF Reported, ExitZeroMeansMeasured
  <1> QED  BY <1>3, <1>4, <1>5, <1>6, Zenon DEF LoadInv

(* A whole batch is merged into the phase's statistics. *)
LEMMA MergeBatchInv == ASSUME LoadInv, MergeBatch PROVE LoadInv'
  <1>0. main' \in {"batch", "returned"} /\ err' \in {TRUE, err}
    BY Zenon DEF MergeBatch
  <1>1. /\ main = "merge" /\ main' \in {"batch", "returned"}
        /\ stats' = IF phase = "warmup" THEN stats ELSE merge(stats, batch)
        /\ UNCHANGED << loadOpts, phase, batches, expired, openConns, g, left, local, batch,
                        document, loadExit >>
    BY <1>0, Zenon DEF MergeBatch
  <1>2. LoadTypes /\ Running /\ PhaseCounts /\ Reported /\ loadOpts.mode \in Modes
    BY Zenon DEF LoadInv, LoadTypes
  <1>3. \A i \in Goroutines : g[i] = "done"
    BY <1>1, <1>2, Zenon DEF Running
  <1>4. AddsUp(batch) /\ batch.total = BatchSize /\ AtMost(batch, BatchSize)
    BY <1>1, <1>3, BatchComplete, Zenon
  <1>5. /\ batch \in RunStats /\ stats \in RunStats /\ batches \in Nat /\ batches > 0
    BY <1>1, <1>2 DEF LoadTypes, Running
  <1>6. /\ BatchSize \in Nat /\ BatchSize <= Cardinality(Conns) * Streams
        /\ Cardinality(Conns) * Streams \in Nat /\ BatchSize' = BatchSize /\ Started' = Started
    BY <1>1, <1>2, Sizes, LoadAssumption DEF BatchSize, PerConn, Started
  <1>7. merge(stats, batch) \in RunStats /\ stats' \in RunStats
    BY <1>1, <1>5, MergeStats, Zenon
  <1>8. LoadTypes'
    <2>1. err \in BOOLEAN
      BY <1>2, Zenon DEF LoadTypes
    <2>3. err' \in BOOLEAN
      BY <1>0, <2>1, Zenon
    <2>2. main' \in {"start", "dial", "batch", "join", "merge", "returned", "exited"}
      BY <1>0, Zenon
    <2> QED  BY <1>1, <1>2, <1>7, <2>2, <2>3, Zenon DEF LoadTypes
  <1>9. Running'
    <2>1. \A k \in Keys : batch[k] \in Nat
      BY <1>5, Zenon DEF RunStats
    <2>2. AtMost(batch, Cardinality(Conns) * Streams)
      BY <1>4, <1>6, <2>1 DEF AtMost
    <2> QED  BY <1>1, <1>2, <1>3, <1>6, <2>2, Zenon DEF Running, AtMost
  <1>10. PhaseCounts'
    <2> DEFINE m == batches - 1
    <2>1. /\ m \in Nat /\ Merged = m /\ Merged' = m + 1 /\ Merged' > 0
      BY <1>1, <1>5 DEF Merged
    <2> HIDE DEF m
    <2>2. m * BatchSize \in Nat /\ (m + 1) * BatchSize = m * BatchSize + BatchSize
      BY <1>6, <2>1, Products
    <2>3. CASE phase = "warmup"
      BY <1>1, <1>2, <1>5, <2>3 DEF PhaseCounts
    <2>4. CASE phase # "warmup"
      <3>1. /\ AddsUp(stats) /\ stats.total = m * BatchSize /\ AtMost(stats, m * BatchSize)
            /\ stats' = merge(stats, batch)
        BY <1>1, <1>2, <2>1, <2>4, Zenon DEF PhaseCounts
      <3>2. AtMost(merge(stats, batch), m * BatchSize + BatchSize)
        <4> DEFINE p == m * BatchSize
        <4>1. p \in Nat /\ AtMost(stats, p)
          BY <2>2, <3>1, Zenon
        <4> HIDE DEF p
        <4>2. /\ stats \in RunStats /\ batch \in RunStats
              /\ BatchSize \in Nat /\ AtMost(batch, BatchSize)
          BY <1>4, <1>5, <1>6, Zenon
        <4>3. AtMost(merge(stats, batch), p + BatchSize)
          BY <4>1, <4>2, AtMostMerge, Zenon
        <4> QED  BY <4>3, Zenon DEF p
      <3>3. Sorted(merge(stats, batch))
        BY <1>4, <1>5, <3>1, SortedMerge, Zenon DEF AddsUp, Sorted
      <3>4. \A k \in Keys : /\ merge(stats, batch)[k] = stats[k] + batch[k]
                            /\ stats[k] \in Nat /\ batch[k] \in Nat
        BY <1>5, MergeStats, Zenon DEF RunStats
      <3>5. /\ stats'.total = stats.total + batch.total /\ stats'.ok = stats.ok + batch.ok
            /\ stats'.failed = stats.failed + batch.failed
            /\ stats.ok \in Nat /\ stats.failed \in Nat /\ batch.ok \in Nat /\ batch.failed \in Nat
        BY <3>1, <3>4, Zenon DEF Keys
      <3>6. stats.total = stats.ok + stats.failed /\ batch.total = batch.ok + batch.failed
        BY <1>4, <3>1, Zenon DEF AddsUp
      <3>7. stats'.total = stats'.ok + stats'.failed
        BY <3>5, <3>6
      <3>8. AddsUp(stats)'
        BY <1>1, <3>1, <3>3, <3>7, Zenon DEF AddsUp, Sorted
      <3>9. stats'.total = Merged' * BatchSize
        BY <1>4, <2>1, <2>2, <3>1, <3>5, Zenon
      <3>10. AtMost(stats, Merged * BatchSize)'
        BY <1>6, <2>1, <2>2, <3>1, <3>2, Zenon DEF AtMost
      <3> QED  BY <1>1, <1>5, <1>6, <2>4, <3>8, <3>9, <3>10 DEF PhaseCounts
    <2> QED  BY <2>3, <2>4, Zenon
  <1>11. Reported'
    BY <1>1, <1>2, Zenon DEF Reported, ExitZeroMeansMeasured
  <1> QED  BY <1>1, <1>8, <1>9, <1>10, <1>11, Zenon DEF LoadInv

(* The warm-up fails, or its statistics are thrown away. *)
LEMMA WarmupReturnedInv == ASSUME LoadInv, WarmupReturned PROVE LoadInv'
  <1>1. /\ main = "returned" /\ phase = "warmup" /\ openConns' \subseteq openConns
        /\ UNCHANGED << loadOpts, g, left, local, batch >>
    BY Zenon DEF WarmupReturned, Closed
  <1>2. LoadTypes /\ PhaseCounts /\ Reported /\ loadOpts.mode \in Modes
    BY Zenon DEF LoadInv, LoadTypes
  <1>3. main' \in {"exited", "start"}
    BY Zenon DEF WarmupReturned
  <1>4. Running' /\ (main' \in {"join", "merge"} => BatchCounts')
    BY <1>1, <1>3, QuietRunning
  <1>5. CASE err
    <2>1. /\ document' \in {"none", "warmup"} /\ loadExit' = "1" /\ main' = "exited"
          /\ UNCHANGED << phase, batches, expired, stats, err >>
      BY <1>5, Zenon DEF WarmupReturned
    <2>2. LoadTypes'
      BY <1>1, <1>2, <2>1, Zenon DEF LoadTypes
    <2>3. PhaseCounts'
      BY <1>1, <1>2, <2>1, QuietPhase, Zenon DEF Merged
    <2>4. Reported'
      BY <2>1 DEF Reported, ExitZeroMeansMeasured
    <2> QED  BY <1>4, <2>2, <2>3, <2>4, Zenon DEF LoadInv
  <1>6. CASE ~err
    <2>1. /\ phase' = "measured" /\ main' = "start" /\ batches' = 0
          /\ expired' = FALSE /\ stats' = Zero
          /\ UNCHANGED << err, document, loadExit >>
      BY <1>6, Zenon DEF WarmupReturned
    <2>2. 0 \in 0..MaxBatches
      BY LoadAssumption
    <2>3. LoadTypes'
      <3>1. openConns' \subseteq Conns
        BY <1>1, <1>2, Zenon DEF LoadTypes
      <3> QED  BY <1>1, <1>2, <2>1, <2>2, <3>1, ZeroStats, Zenon DEF LoadTypes
    <2>4. PhaseCounts'
      <3>1. Merged' = 0 /\ BatchSize' = BatchSize /\ BatchSize \in Nat
        BY <1>1, <1>2, <2>1, Sizes, Zenon DEF Merged, BatchSize, PerConn
      <3>2. Merged' * BatchSize' = 0
        BY <3>1
      <3>3. AddsUp(stats)' /\ AtMost(stats, 0)' /\ stats'.total = 0
        BY <1>1, <2>1, ZeroCounts, Zenon DEF AddsUp, AtMost
      <3> QED  BY <2>1, <3>2, <3>3, Zenon DEF PhaseCounts
    <2>5. Reported'
      BY <1>1, <1>2, <2>1 DEF Reported, ExitZeroMeansMeasured
    <2> QED  BY <1>4, <2>3, <2>4, <2>5, Zenon DEF LoadInv
  <1> QED  BY <1>5, <1>6, Zenon

(* main prints the document and chooses the exit code. *)
LEMMA MeasuredReturnedInv == ASSUME LoadInv, MeasuredReturned PROVE LoadInv'
  <1>1. /\ main = "returned" /\ phase = "measured" /\ main' = "exited"
        /\ openConns' \subseteq openConns
        /\ document' \in {"none", "measured"} /\ loadExit' \in {"0", "1"}
        /\ UNCHANGED << loadOpts, phase, batches, expired, g, left, local, batch, stats, err >>
    BY Zenon DEF MeasuredReturned, Closed
  <1>2. LoadTypes /\ PhaseCounts /\ Reported /\ loadOpts.mode \in Modes /\ stats \in RunStats
    BY Zenon DEF LoadInv, LoadTypes
  <1>3. Running' /\ (main' \in {"join", "merge"} => BatchCounts')
    BY <1>1, QuietRunning, Zenon
  <1>4. LoadTypes'
    BY <1>1, <1>2, Zenon DEF LoadTypes
  <1>5. PhaseCounts'
    BY <1>1, <1>2, QuietPhase, Zenon DEF Merged
  <1>6. ExitZeroMeansMeasured'
    <2> SUFFICES ASSUME loadExit' = "0"
                 PROVE  /\ document' = "measured" /\ stats.ok > 0
                        /\ loadOpts.failOnErrors =>
                             ~err /\ stats.failed = 0 /\ stats.ok = stats.total
      BY <1>1, Zenon DEF ExitZeroMeansMeasured
    <2>1. /\ document' = "measured" /\ stats.ok # 0
          /\ loadOpts.failOnErrors => ~err /\ ~(stats.failed > 0)
      BY Zenon DEF MeasuredReturned
    <2>2. stats.ok \in Nat /\ stats.failed \in Nat
      BY <1>2, Zenon DEF RunStats, Keys
    <2>3. batches > 0
      <3>1. stats # DialsFailed
        BY <2>1, DialsFailedStats DEF Keys
      <3>2. batches # 0
        BY <1>1, <1>2, <3>1, Zenon DEF PhaseCounts
      <3> QED  BY <1>2, <3>2 DEF LoadTypes
    <2>4. stats.total = stats.ok + stats.failed
      BY <1>1, <1>2, <2>3, Zenon DEF PhaseCounts, AddsUp
    <2> QED  BY <2>1, <2>2, <2>4
  <1>7. Reported'
    BY <1>1, <1>6, Zenon DEF Reported
  <1> QED  BY <1>3, <1>4, <1>5, <1>7, Zenon DEF LoadInv

-----------------------------------------------------------------------------
(* The invariant holds of every load. *)
THEOREM LoadInvariant == LoadSpec => []LoadInv
  <1>1. LoadInit => LoadInv
    BY LoadInitInv, Zenon
  <1>2. LoadInv /\ [LoadNext]_loadVars => LoadInv'
    <2> SUFFICES ASSUME LoadInv, [LoadNext]_loadVars  PROVE LoadInv'
      BY Zenon
    <2>1. CASE MainStep
      <3>1. CASE Join
        <4>1. /\ main = "join" /\ main' = "merge" /\ \A i \in Goroutines : g[i] = "done"
              /\ UNCHANGED << loadOpts, phase, batches, openConns, g, left, local, batch, stats,
                              err, document, loadExit >>
              /\ expired' = expired
          BY <3>1, Zenon DEF Join
        <4>2. expired' \in BOOLEAN
          BY <4>1, Zenon DEF LoadInv, LoadTypes
        <4> QED  BY <4>1, <4>2, ExpireJoinInv, Zenon
      <3> QED
        BY <2>1, <3>1, BeginInv, DialConnInv, DialFailedInv, StartBatchInv, MergeBatchInv,
           PhaseOverInv, WarmupReturnedInv, MeasuredReturnedInv, Zenon DEF MainStep
    <2>2. CASE Expire
      BY <2>2, ExpireJoinInv, Zenon DEF Expire
    <2>3. CASE \E i \in Goroutines : GoroutineStep(i)
      BY <2>3, GoroutineStepInv, Zenon
    <2>4. CASE UNCHANGED loadVars
      <3>1. expired' \in BOOLEAN
        BY <2>4, Zenon DEF LoadInv, LoadTypes, loadVars
      <3> QED  BY <2>4, <3>1, ExpireJoinInv, Zenon DEF loadVars
    <2> QED  BY <2>1, <2>2, <2>3, <2>4, Zenon DEF LoadNext
  <1> QED  BY <1>1, <1>2, PTL DEF LoadSpec

(* After wg.Wait nothing is missing from the statistics of a batch and      *)
(* nothing is counted twice, whatever the order of the atomic additions     *)
(* (runConcurrentStreamBatch, runSequentialStreams, runHandshakeColdBatch,  *)
(* runConnectionChurnBatch).                                                *)
THEOREM BatchesAddUp == LoadSpec => []BatchAddsUp
  <1>1. LoadInv => BatchAddsUp
    <2> SUFFICES ASSUME LoadInv, main = "merge"
                 PROVE  AddsUp(batch) /\ batch.total = Cardinality(Conns) * PerConn
      BY Zenon DEF BatchAddsUp
    <2>1. \A i \in Goroutines : g[i] = "done"
      BY Zenon DEF LoadInv, Running
    <2> QED  BY <2>1, BatchComplete, Zenon DEF BatchSize
  <1> QED  BY <1>1, LoadInvariant, PTL

(* Bounded counters have the type of statistics. *)
LEMMA CountsBound ==
  ASSUME NEW s \in RunStats, NEW n \in Nat, AtMost(s, n),
         n <= MaxBatches * (Cardinality(Conns) * Streams)
  PROVE  s \in StatsType
  <1> DEFINE K == Cardinality(Conns)
  <1>1. K \in Nat /\ Streams \in Nat /\ MaxBatches \in Nat
    BY LoadAssumption, FS_CardinalityType, Zenon
  <1> HIDE DEF K
  <1>2. /\ MaxBatches * (K * Streams) = (MaxBatches * K) * Streams
        /\ (MaxBatches * K) * Streams \in Nat
    BY <1>1
  <1> DEFINE top == (MaxBatches * K) * Streams
  <1>3. Counts = 0..top /\ n <= top /\ top \in Nat
    BY <1>2, Zenon DEF Counts, K
  <1> HIDE DEF top
  <1>4. \A k \in Keys : s[k] \in Counts
    BY <1>3 DEF AtMost, RunStats
  <1> QED  BY <1>4, Zenon DEF StatsType, RunStats, Keys

(* The document holds the measured batches, whole, and nothing of the       *)
(* warm-up; exit code 0 means successes, and under -fail-on-errors no       *)
(* failure at all (runLoad, main).                                          *)
THEOREM LoadResultMeasured == LoadSpec => []LoadResultIsMeasured
  <1>1. LoadInv => LoadResultIsMeasured
    <2> SUFFICES ASSUME LoadInv PROVE LoadResultIsMeasured
      BY Zenon
    <2> DEFINE K == Cardinality(Conns)
               room == MaxBatches * (K * Streams)
    <2>1. /\ LoadTypes /\ Running /\ PhaseCounts /\ Reported /\ loadOpts.mode \in Modes
          /\ batch \in RunStats /\ stats \in RunStats /\ batches \in 0..MaxBatches
      BY Zenon DEF LoadInv, LoadTypes
    <2>2. /\ K \in Nat \ {0} /\ Streams \in Nat \ {0} /\ MaxBatches \in Nat \ {0}
      <3>1. K # 0
        BY LoadAssumption, FS_EmptySet, Zenon
      <3> QED  BY <3>1, LoadAssumption, FS_CardinalityType, Zenon
    <2>3. /\ BatchSize \in Nat /\ BatchSize <= K * Streams /\ BatchSize = K * PerConn
          /\ PerConn \in Nat
      BY <2>1, Sizes, Zenon DEF BatchSize
    <2>4. K * Streams \in Nat /\ Streams <= K * Streams
      <3> HIDE DEF K
      <3>1. 1 * Streams <= K * Streams
        BY <2>2, Products
      <3> QED  BY <2>2, <3>1
    <2>5. room \in Nat /\ K * Streams <= room
      <3> DEFINE p == K * Streams
      <3>1. p \in Nat
        BY <2>4, Zenon
      <3> HIDE DEF p
      <3>2. 1 * p <= MaxBatches * p /\ MaxBatches * p \in Nat
        BY <2>2, <3>1, Products
      <3>3. p <= MaxBatches * p
        BY <3>1, <3>2
      <3> QED  BY <3>2, <3>3, Zenon DEF p
    <2>6. \A n \in Nat : n <= MaxBatches => n * BatchSize \in Nat /\ n * BatchSize <= room
      <3> SUFFICES ASSUME NEW n \in Nat, n <= MaxBatches
                   PROVE  n * BatchSize \in Nat /\ n * BatchSize <= room
        BY Zenon
      <3> DEFINE p == K * Streams
      <3>1. p \in Nat /\ BatchSize <= p
        BY <2>3, <2>4, Zenon
      <3> HIDE DEF p
      <3>2. n * BatchSize <= n * p /\ n * BatchSize \in Nat /\ n * p \in Nat
        BY <2>3, <3>1, Products
      <3>3. n * p <= MaxBatches * p /\ MaxBatches * p \in Nat
        BY <2>2, <3>1, Products
      <3>4. n * BatchSize <= MaxBatches * p
        BY <3>2, <3>3
      <3> QED  BY <3>2, <3>4, Zenon DEF p
    <2>7. batch \in StatsType
      <3>1. CASE main \in {"join", "merge"}
        <4>1. BatchSums
          BY <3>1, Zenon DEF LoadInv, BatchCounts
        <4> DEFINE n == Weight * Cardinality(Settled) + Cardinality(Pending)
        <4>2. n \in Nat /\ n <= BatchSize /\ AtMost(batch, n)
          BY <2>1, <4>1, SettledSizes, Zenon DEF BatchSums
        <4> HIDE DEF n
        <4>3. n <= room
          BY <2>3, <2>4, <2>5, <4>2
        <4> QED  BY <2>1, <4>2, <4>3, CountsBound, Zenon
      <3>2. CASE main \notin {"join", "merge"}
        <4>1. AtMost(batch, K * Streams)
          BY <2>1, <3>2, Zenon DEF Running
        <4> QED  BY <2>1, <2>4, <2>5, <4>1, CountsBound, Zenon
      <3> QED  BY <3>1, <3>2, Zenon
    <2>8. stats \in StatsType
      <3>1. Zero \in StatsType
        BY <2>5, ZeroStats, ZeroCounts, CountsBound
      <3>2. DialsFailed \in StatsType
        <4>1. AtMost(DialsFailed, K * Streams)
          BY <2>2, <2>4, DialsFailedStats DEF AtMost, Keys
        <4> QED  BY <2>4, <2>5, <4>1, DialsFailedStats, CountsBound, Zenon
      <3>3. Merged \in Nat /\ Merged <= MaxBatches
        BY <2>1, <2>2 DEF Merged, Running
      <3>4. ASSUME AtMost(stats, Merged * BatchSize)  PROVE stats \in StatsType
        BY <2>1, <2>6, <3>3, <3>4, CountsBound, Zenon
      <3> QED  BY <2>1, <3>1, <3>2, <3>4 DEF PhaseCounts, LoadTypes
    <2>9. \A i \in Goroutines : local[i] \in StatsType
      <3> SUFFICES ASSUME NEW i \in Goroutines PROVE local[i] \in StatsType
        BY Zenon
      <3>1. local[i] \in RunStats /\ AtMost(local[i], Streams)
        BY <2>1, Zenon DEF LoadTypes, Running
      <3>2. Streams \in Nat /\ Streams <= room
        BY <2>2, <2>4, <2>5
      <3> QED  BY <3>1, <3>2, CountsBound, Zenon
    <2>10. LoadTypeOK
      BY <2>1, <2>7, <2>8, <2>9, Zenon DEF LoadTypes, LoadTypeOK
    <2>11. DocumentIsMeasured
      <3> SUFFICES ASSUME document = "measured"
                   PROVE  IF batches = 0 THEN stats = DialsFailed
                          ELSE AddsUp(stats) /\ stats.total = batches * K * PerConn
        BY Zenon DEF DocumentIsMeasured, DialsFailed
      <3>1. main = "exited" /\ phase = "measured" /\ Merged = batches
        BY <2>1, Zenon DEF Reported, Merged
      <3>2. batches * (K * PerConn) = batches * K * PerConn
        <4> HIDE DEF K
        <4> QED  BY <2>1, <2>2, <2>3
      <3>3. batches * BatchSize = batches * K * PerConn
        BY <2>3, <3>2, Zenon
      <3>4. ASSUME batches # 0  PROVE AddsUp(stats) /\ stats.total = batches * BatchSize
        <4>1. batches > 0
          BY <2>1, <3>4
        <4> QED  BY <2>1, <3>1, <4>1, Zenon DEF PhaseCounts
      <3>5. batches = 0 => stats = DialsFailed
        BY <2>1, <3>1, Zenon DEF PhaseCounts
      <3> QED  BY <3>3, <3>4, <3>5, Zenon
    <2>12. ExitZeroMeansMeasured
      BY <2>1, Zenon DEF Reported
    <2> QED  BY <2>10, <2>11, <2>12, Zenon DEF LoadResultIsMeasured
  <1> QED  BY <1>1, LoadInvariant, PTL
==============================================================================
