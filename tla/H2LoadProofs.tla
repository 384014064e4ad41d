---------------------------- MODULE H2LoadProofs ----------------------------
(***************************************************************************)
(* Proofs for the HTTP/2 load engine: the connection scheduler, the recorder*)
(* of a phase and the phase itself, each part on the ones before it.       *)
(***************************************************************************)
EXTENDS H2LoadPhase, FiniteSetTheorems, TLAPS

-----------------------------------------------------------------------------
(***************************************************************************)
(* Theorems about ConnectionScheduler, for any number of connections,      *)
(* streams, workers and calls: alone, and as a load phase uses it.         *)
(***************************************************************************)

\* Candidate always names a connection.
LEMMA CandidateType ==
  ASSUME next \in Conn, offset \in Nat
  PROVE  Candidate \in Conn /\ (Candidate + 1) % Connections \in Conn
BY SchedulerAssumption DEF Conn, Candidate

\* The scheduler's variables keep their types and mu admits one scan.
THEOREM SchedulerTypeCorrect == SchedulerSpec => []SchedulerTypeOK
<1>1. SchedulerInit => SchedulerTypeOK
  <2> SUFFICES ASSUME SchedulerInit PROVE SchedulerTypeOK
    BY Zenon
  <2>1. 0 \in Conn /\ 0 \in 0 .. StreamsPerConnection /\ 0 \in 0 .. MaxCalls
    BY SchedulerAssumption DEF Conn
  <2>2. offset \in 0 .. Connections
    BY SchedulerAssumption DEF SchedulerInit
  <2> QED BY <2>1, <2>2, Zenon DEF SchedulerInit, SchedulerTypeOK, CallState
<1>2. SchedulerTypeOK /\ [SchedulerNext]_schedulerVars => SchedulerTypeOK'
  <2> SUFFICES ASSUME SchedulerTypeOK, [SchedulerNext]_schedulerVars
               PROVE  SchedulerTypeOK'
    BY Zenon
  <2> USE SchedulerAssumption DEF SchedulerTypeOK, CallState
  <2>1. CASE UNCHANGED schedulerVars
    BY <2>1, Zenon DEF schedulerVars
  <2>2. ASSUME NEW w \in Workers, Acquire(w) PROVE SchedulerTypeOK'
    BY <2>2 DEF Acquire
  <2>3. ASSUME NEW w \in Workers, Lock(w) PROVE SchedulerTypeOK'
    BY <2>3 DEF Lock, MuFree
  <2>4. ASSUME NEW w \in Workers, TakeSlot(w) PROVE SchedulerTypeOK'
    <3>1. Candidate \in Conn /\ (Candidate + 1) % Connections \in Conn
      BY CandidateType
    <3> QED BY <2>4, <3>1 DEF TakeSlot
  <2>5. ASSUME NEW w \in Workers, SkipSlot(w) PROVE SchedulerTypeOK'
    BY <2>5 DEF SkipSlot
  <2>6. ASSUME NEW w \in Workers, ScanFailed(w) PROVE SchedulerTypeOK'
    BY <2>6, Zenon DEF ScanFailed
  <2>7. ASSUME NEW w \in Workers, Woken(w) PROVE SchedulerTypeOK'
    BY <2>7, Zenon DEF Woken
  <2>8. ASSUME NEW w \in Workers, AcquireCancelled(w) PROVE SchedulerTypeOK'
    BY <2>8, Zenon DEF AcquireCancelled
  <2>9. ASSUME NEW w \in Workers, Release(w) PROVE SchedulerTypeOK'
    BY <2>9 DEF Release
  <2>10. ASSUME NEW w \in Workers, Notify(w) PROVE SchedulerTypeOK'
    BY <2>10, Zenon DEF Notify
  <2>11. CASE Cancel
    BY <2>11, Zenon DEF Cancel
  <2> QED
    BY <2>1, <2>2, <2>3, <2>4, <2>5, <2>6, <2>7, <2>8, <2>9, <2>10, <2>11, Zenon
       DEF SchedulerNext, Internal
<1> QED BY <1>1, <1>2, PTL DEF SchedulerSpec

\* A connection has finitely many holders.
LEMMA HoldersFinite == \A c : IsFiniteSet(Holders(c))
<1> SUFFICES ASSUME NEW c PROVE IsFiniteSet(Holders(c))
  BY Zenon
<1>1. Holders(c) \subseteq Workers
  BY Zenon DEF Holders
<1> QED BY <1>1, SchedulerAssumption, FS_Subset, Zenon

\* One step of the scheduler keeps the tokens equal to the holders.
LEMMA SlotsStep ==
  ASSUME SchedulerTypeOK, SlotsMatchHolders, [SchedulerNext]_schedulerVars
  PROVE  SlotsMatchHolders'
<1> SUFFICES ASSUME NEW c \in Conn PROVE slots'[c] = Cardinality(Holders(c)')
  BY Zenon DEF SlotsMatchHolders, Conn
<1>0. slots[c] = Cardinality(Holders(c)) /\ IsFiniteSet(Holders(c))
  BY HoldersFinite, Zenon DEF SlotsMatchHolders
<1>a. ASSUME slots' = slots, index' = index,
             \A v \in Workers : call'[v] = "held" <=> call[v] = "held"
      PROVE  slots'[c] = Cardinality(Holders(c)')
  <2>1. Holders(c)' = Holders(c)
    BY <1>a, Zenon DEF Holders
  <2> QED BY <2>1, <1>0, <1>a, Zenon
<1>1. CASE UNCHANGED schedulerVars
  BY <1>1, <1>a, Zenon DEF schedulerVars
<1>2. ASSUME NEW w \in Workers,
             Acquire(w) \/ Lock(w) \/ SkipSlot(w) \/ ScanFailed(w) \/ Woken(w)
               \/ AcquireCancelled(w) \/ Notify(w)
      PROVE  slots'[c] = Cardinality(Holders(c)')
  <2>1. slots' = slots /\ index' = index
    BY <1>2, Zenon DEF Acquire, Lock, SkipSlot, ScanFailed, Woken, AcquireCancelled, Notify
  <2>2. \A v \in Workers : call'[v] = "held" <=> call[v] = "held"
    BY <1>2, Zenon DEF Acquire, Lock, SkipSlot, ScanFailed, Woken, AcquireCancelled,
                Notify, SchedulerTypeOK
  <2> QED BY <2>1, <2>2, <1>a, Zenon
<1>3. CASE Cancel
  BY <1>3, <1>a, Zenon DEF Cancel
<1>4. ASSUME NEW w \in Workers, TakeSlot(w)
      PROVE  slots'[c] = Cardinality(Holders(c)')
  <2>1. Candidate \in Conn
    BY CandidateType, SchedulerAssumption DEF SchedulerTypeOK
  <2>2. CASE c = Candidate
    <3>1. Holders(c)' = Holders(c) \cup {w} /\ w \notin Holders(c)
      BY <1>4, <2>2, Zenon DEF TakeSlot, Holders, SchedulerTypeOK
    <3>2. slots'[c] = slots[c] + 1
      BY <1>4, <2>2, Zenon DEF TakeSlot, SchedulerTypeOK
    <3> QED BY Zenon, <3>1, <3>2, <1>0, FS_AddElement
  <2>3. CASE c # Candidate
    <3>1. Holders(c)' = Holders(c)
      BY <1>4, <2>1, <2>3, Zenon DEF TakeSlot, Holders, SchedulerTypeOK
    <3>2. slots'[c] = slots[c]
      BY <1>4, <2>3, Zenon DEF TakeSlot, SchedulerTypeOK
    <3> QED BY <3>1, <3>2, <1>0, Zenon
  <2> QED BY <2>2, <2>3, Zenon
<1>5. ASSUME NEW w \in Workers, Release(w)
      PROVE  slots'[c] = Cardinality(Holders(c)')
  <2>1. CASE c = index[w]
    <3>1. Holders(c)' = Holders(c) \ {w} /\ w \in Holders(c)
      BY <1>5, <2>1, Zenon DEF Release, Holders, SchedulerTypeOK
    <3>2. slots'[c] = slots[c] - 1
      BY <1>5, <2>1, Zenon DEF Release, SchedulerTypeOK
    <3> QED BY Zenon, <3>1, <3>2, <1>0, FS_RemoveElement
  <2>2. CASE c # index[w]
    <3>1. Holders(c)' = Holders(c)
      BY <1>5, <2>2, Zenon DEF Release, Holders, SchedulerTypeOK
    <3>2. slots'[c] = slots[c]
      BY <1>5, <2>2, Zenon DEF Release, SchedulerTypeOK
    <3> QED BY <3>1, <3>2, <1>0, Zenon
  <2> QED BY <2>1, <2>2, Zenon
<1> QED BY <1>1, <1>2, <1>3, <1>4, <1>5, Zenon DEF SchedulerNext, Internal

\* Every token in a slot channel belongs to one worker that holds that
\* connection, whatever the number of connections, streams, workers and calls.
THEOREM SlotAccounting == SchedulerSpec => []SlotsMatchHolders
<1>1. SchedulerInit => SlotsMatchHolders
  <2> SUFFICES ASSUME SchedulerInit, NEW c \in Conn
               PROVE  slots[c] = Cardinality(Holders(c))
    BY Zenon DEF SlotsMatchHolders
  <2>1. Holders(c) = {}
    BY Zenon DEF SchedulerInit, Holders
  <2> QED BY <2>1, FS_EmptySet, Zenon DEF SchedulerInit
<1>2. SchedulerTypeOK /\ SlotsMatchHolders /\ [SchedulerNext]_schedulerVars
        => SlotsMatchHolders'
  BY SlotsStep, Zenon
<1> QED BY <1>1, <1>2, SchedulerTypeCorrect, PTL DEF SchedulerSpec

(***************************************************************************)
(* WaiterHasWaker is not inductive: a scan that fails goes to sleep, and   *)
(* what guarantees it a waker is that the first full channel it passed had *)
(* a holder, who since then can only have moved towards its own wake-up.   *)
(***************************************************************************)
Waking(v) == call[v] \in {"lock", "held", "releasing"}

\* A scan that has passed a full channel has a waker besides itself.
ScanHasWaker ==
  (\E w \in Workers : call[w] = "scan") /\ offset > 0 =>
    notify = 1 \/ \E v \in Workers : Waking(v)

\* A full connection has a holder.
LEMMA FullHasHolder ==
  ASSUME SchedulerTypeOK, SlotsMatchHolders, NEW c \in Conn,
         slots[c] = StreamsPerConnection
  PROVE  \E v \in Workers : call[v] = "held"
<1>1. Cardinality(Holders(c)) # 0
  BY SchedulerAssumption, Zenon DEF SlotsMatchHolders
<1>2. Holders(c) # {}
  BY <1>1, FS_EmptySet, Zenon
<1> QED BY <1>2, Zenon DEF Holders

\* One step of the scheduler leaves no sleeper without a waker.
LEMMA WakerStep ==
  ASSUME SchedulerTypeOK, SlotsMatchHolders, ScanHasWaker, WaiterHasWaker,
         [SchedulerNext]_schedulerVars
  PROVE  ScanHasWaker' /\ WaiterHasWaker'
<1> USE DEF ScanHasWaker, WaiterHasWaker, Waking, SchedulerTypeOK
<1>1. CASE UNCHANGED schedulerVars
  BY <1>1, Zenon DEF schedulerVars
<1>2. ASSUME NEW w \in Workers, Acquire(w) PROVE ScanHasWaker' /\ WaiterHasWaker'
  BY <1>2, Zenon DEF Acquire
<1>3. ASSUME NEW w \in Workers, Lock(w) PROVE ScanHasWaker' /\ WaiterHasWaker'
  BY <1>3 DEF Lock
<1>4. ASSUME NEW w \in Workers, TakeSlot(w) PROVE ScanHasWaker' /\ WaiterHasWaker'
  BY <1>4, Zenon DEF TakeSlot
<1>5. ASSUME NEW w \in Workers, SkipSlot(w) PROVE ScanHasWaker' /\ WaiterHasWaker'
  <2>1. Candidate \in Conn
    BY CandidateType, SchedulerAssumption
  <2>2. \E v \in Workers : call[v] = "held"
    BY <1>5, <2>1, FullHasHolder, Zenon DEF SkipSlot
  <2> QED BY <1>5, <2>2, Zenon DEF SkipSlot
<1>6. ASSUME NEW w \in Workers, ScanFailed(w) PROVE ScanHasWaker' /\ WaiterHasWaker'
  <2>1. offset > 0
    BY <1>6, SchedulerAssumption DEF ScanFailed
  <2> QED BY <1>6, <2>1, Zenon DEF ScanFailed
<1>7. ASSUME NEW w \in Workers, Woken(w) PROVE ScanHasWaker' /\ WaiterHasWaker'
  BY <1>7, Zenon DEF Woken
<1>8. ASSUME NEW w \in Workers, AcquireCancelled(w)
      PROVE  ScanHasWaker' /\ WaiterHasWaker'
  BY <1>8, Zenon DEF AcquireCancelled
<1>9. ASSUME NEW w \in Workers, Release(w) PROVE ScanHasWaker' /\ WaiterHasWaker'
  BY <1>9, Zenon DEF Release
<1>10. ASSUME NEW w \in Workers, Notify(w) PROVE ScanHasWaker' /\ WaiterHasWaker'
  BY <1>10, Zenon DEF Notify
<1>11. CASE Cancel
  BY <1>11, Zenon DEF Cancel
<1> QED
  BY <1>1, <1>2, <1>3, <1>4, <1>5, <1>6, <1>7, <1>8, <1>9, <1>10, <1>11, Zenon
     DEF SchedulerNext, Internal

\* No wake-up is ever lost for good: a worker asleep in acquire always has a
\* token pending or another worker on its way to sending one.
THEOREM NoLostWakeup == SchedulerSpec => []WaiterHasWaker
<1>1. SchedulerInit => ScanHasWaker /\ WaiterHasWaker
  BY Zenon DEF SchedulerInit, ScanHasWaker, WaiterHasWaker
<1>2. SchedulerTypeOK /\ SlotsMatchHolders /\ ScanHasWaker /\ WaiterHasWaker
        /\ [SchedulerNext]_schedulerVars
      => ScanHasWaker' /\ WaiterHasWaker'
  BY WakerStep, Zenon
<1> QED BY <1>1, <1>2, SchedulerTypeCorrect, SlotAccounting, PTL DEF SchedulerSpec

-----------------------------------------------------------------------------
(***************************************************************************)
(* With as many workers as slots, acquire never waits: the counting        *)
(* argument, for any number of connections, streams and calls.             *)
(***************************************************************************)

\* Connection c is full.
Full(c) == slots[c] = StreamsPerConnection

\* Whoever scans still has a channel with room in front of it.
ScanHasRoom ==
  \A w \in Workers : call[w] = "scan" =>
    \E o \in offset .. Connections - 1 : ~Full((next + o) % Connections)

-----------------------------------------------------------------------------
(* Counting: assigning workers to connections                              *)

\* The set of slots has Connections * StreamsPerConnection elements.
LEMMA SlotCount ==
  /\ IsFiniteSet(Conn \X (1 .. StreamsPerConnection))
  /\ Cardinality(Conn \X (1 .. StreamsPerConnection))
       = Connections * StreamsPerConnection
<1>1. IsFiniteSet(Conn) /\ Cardinality(Conn) = Connections
  BY SchedulerAssumption, FS_Interval DEF Conn
<1>2. /\ IsFiniteSet(1 .. StreamsPerConnection)
      /\ Cardinality(1 .. StreamsPerConnection) = StreamsPerConnection
  BY SchedulerAssumption, FS_Interval
<1> QED BY Zenon, <1>1, <1>2, FS_Product

\* An enumeration of a finite set by 1 .. n, as an injection each way.
LEMMA Enumeration ==
  ASSUME NEW S, IsFiniteSet(S)
  PROVE  /\ \E f \in [1 .. Cardinality(S) -> S] :
              \A i, j \in 1 .. Cardinality(S) : f[i] = f[j] => i = j
         /\ \E g \in [S -> 1 .. Cardinality(S)] :
              \A x, y \in S : g[x] = g[y] => x = y
<1>1. PICK f \in Bijection(1 .. Cardinality(S), S) : TRUE
  BY FS_CardinalityType, Zenon DEF ExistsBijection
<1>2. /\ f \in [1 .. Cardinality(S) -> S]
      /\ \A i, j \in 1 .. Cardinality(S) : f[i] = f[j] => i = j
      /\ \A x \in S : \E i \in 1 .. Cardinality(S) : f[i] = x
  BY <1>1, Zenon DEF Bijection, Injection, Surjection, IsInjective
<1> DEFINE g == [x \in S |-> CHOOSE i \in 1 .. Cardinality(S) : f[i] = x]
<1>3. \A x \in S : g[x] \in 1 .. Cardinality(S) /\ f[g[x]] = x
  BY <1>2, Zenon
<1>4. g \in [S -> 1 .. Cardinality(S)]
  BY <1>3, Zenon
<1>5. \A x, y \in S : g[x] = g[y] => x = y
  BY <1>3, Zenon
<1> HIDE DEF g
<1> QED BY Zenon, <1>2, <1>4, <1>5

\* If every connection has its full share, all slots are accounted for.
LEMMA AllFullCount ==
  ASSUME NEW A, IsFiniteSet(A), NEW h \in [A -> Conn],
         \A c \in Conn : Cardinality({a \in A : h[a] = c}) = StreamsPerConnection
  PROVE  Connections * StreamsPerConnection <= Cardinality(A)
<1> DEFINE N == 1 .. StreamsPerConnection
           Share(c) == {a \in A : h[a] = c}
           Slot == Conn \X N
           OneToOne(f) == \A i, j \in N : f[i] = f[j] => i = j
           Names(c) == CHOOSE f \in [N -> Share(c)] : OneToOne(f)
           p == [x \in Slot |-> Names(x[1])[x[2]]]
<1>1. ASSUME NEW c \in Conn
      PROVE  Names(c) \in [N -> Share(c)] /\ OneToOne(Names(c))
  <2>1. IsFiniteSet(Share(c)) /\ Cardinality(Share(c)) = StreamsPerConnection
    BY FS_Subset, Zenon
  <2>2. \E f \in [N -> Share(c)] : OneToOne(f)
    <3> HIDE DEF Share
    <3>1. \E f \in [1 .. Cardinality(Share(c)) -> Share(c)] :
            \A i, j \in 1 .. Cardinality(Share(c)) : f[i] = f[j] => i = j
      BY Zenon, <2>1, Enumeration
    <3> QED BY Zenon, <2>1, <3>1
  <2> HIDE DEF OneToOne, Share, N
  <2> QED BY <2>2, Zenon
<1>2. ASSUME NEW x \in Slot
      PROVE  /\ x[1] \in Conn /\ x[2] \in N /\ x = <<x[1], x[2]>>
             /\ p[x] = Names(x[1])[x[2]]
             /\ p[x] \in A /\ h[p[x]] = x[1]
  <2>1. x[1] \in Conn /\ x[2] \in N /\ x = <<x[1], x[2]>>
    OBVIOUS
  <2>2. p[x] = Names(x[1])[x[2]]
    <3> HIDE DEF Names
    <3> QED BY Zenon
  <2>3. Names(x[1]) \in [N -> Share(x[1])]
    BY Zenon, <1>1, <2>1
  <2>4. p[x] \in Share(x[1])
    <3> HIDE DEF Names, p, Share, N
    <3> QED BY <2>1, <2>2, <2>3, Zenon
  <2> HIDE DEF p, Names
  <2> QED BY <2>1, <2>2, <2>4, Zenon
<1>3. ASSUME NEW x \in Slot, NEW y \in Slot, p[x] = p[y] PROVE x = y
  <2> HIDE DEF p, Names, OneToOne, N, Slot
  <2>1. x[1] = y[1] /\ x[1] \in Conn
    BY <1>2, <1>3
  <2>2. Names(x[1])[x[2]] = Names(x[1])[y[2]]
    BY <1>2, <1>3, <2>1, Zenon
  <2>3. OneToOne(Names(x[1]))
    BY <1>1, <2>1, Zenon
  <2>4. x[2] = y[2]
    BY <1>2, <2>2, <2>3, Zenon DEF OneToOne
  <2> QED BY <1>2, <2>1, <2>4, Zenon
<1>4. p \in [Slot -> A]
  BY Zenon, <1>2
<1>5. ~(Cardinality(A) < Cardinality(Slot))
  <2>1. IsFiniteSet(Slot)
    BY SlotCount, Zenon
  <2> HIDE DEF p, Slot
  <2> QED BY <1>3, <1>4, <2>1, FS_PigeonHole
<1> QED BY <1>5, SlotCount, FS_CardinalityType, SchedulerAssumption

\* If no connection has more than its share and one has less, a slot is free.
LEMMA NotFullCount ==
  ASSUME NEW A, IsFiniteSet(A), NEW h \in [A -> Conn],
         \A c \in Conn : Cardinality({a \in A : h[a] = c}) <= StreamsPerConnection,
         NEW d \in Conn, Cardinality({a \in A : h[a] = d}) < StreamsPerConnection
  PROVE  Cardinality(A) < Connections * StreamsPerConnection
<1> DEFINE N == 1 .. StreamsPerConnection
           Share(c) == {a \in A : h[a] = c}
           Size(c) == Cardinality(Share(c))
           Slot == (Conn \X N) \ {<<d, StreamsPerConnection>>}
           OneToOne(c, f) == \A x, y \in Share(c) : f[x] = f[y] => x = y
           Number(c) == CHOOSE f \in [Share(c) -> 1 .. Size(c)] : OneToOne(c, f)
           p == [a \in A |-> <<h[a], Number(h[a])[a]>>]
<1>1. ASSUME NEW c \in Conn
      PROVE  Number(c) \in [Share(c) -> 1 .. Size(c)] /\ OneToOne(c, Number(c))
  <2>1. IsFiniteSet(Share(c))
    BY FS_Subset, Zenon
  <2>2. \E f \in [Share(c) -> 1 .. Size(c)] : OneToOne(c, f)
    <3> HIDE DEF Share
    <3> QED BY <2>1, Enumeration, Zenon
  <2> HIDE DEF OneToOne, Share, Size
  <2> QED BY <2>2, Zenon
<1>2. ASSUME NEW c \in Conn
      PROVE  Size(c) \in Nat /\ Size(c) <= StreamsPerConnection
  <2>1. IsFiniteSet(Share(c))
    BY FS_Subset, Zenon
  <2> QED BY <2>1, FS_CardinalityType, Zenon
<1>3. Size(d) < StreamsPerConnection
  BY Zenon
<1>4. ASSUME NEW a \in A PROVE p[a] \in Slot
  <2>1. h[a] \in Conn /\ a \in Share(h[a])
    BY Zenon
  <2>2. Number(h[a])[a] \in 1 .. Size(h[a])
    <3> HIDE DEF Share, Size, OneToOne, Number
    <3> QED BY <1>1, <2>1, Zenon
  <2> HIDE DEF Share, Size, Number
  <2>3. Number(h[a])[a] \in N
    BY <1>2, <2>1, <2>2, SchedulerAssumption
  <2>4. ~(h[a] = d /\ Number(h[a])[a] = StreamsPerConnection)
    BY <1>2, <1>3, <2>1, <2>2, SchedulerAssumption
  <2> QED BY <2>1, <2>3, <2>4, Zenon
<1>5. ASSUME NEW a \in A, NEW b \in A, p[a] = p[b] PROVE a = b
  <2>1. h[a] \in Conn /\ a \in Share(h[a]) /\ b \in Share(h[b])
    BY Zenon
  <2>2. h[a] = h[b] /\ Number(h[a])[a] = Number(h[b])[b]
    <3> HIDE DEF Number
    <3> QED BY <1>5, Zenon
  <2>3. OneToOne(h[a], Number(h[a]))
    BY Zenon, <1>1, <2>1
  <2> HIDE DEF Share, Number
  <2> QED BY <2>1, <2>2, <2>3, Zenon
<1>6. p \in [A -> Slot]
  <2> HIDE DEF Slot, Number
  <2> QED BY <1>4, Zenon
<1>7. /\ IsFiniteSet(Slot)
      /\ Cardinality(Slot) = Connections * StreamsPerConnection - 1
  <2>1. <<d, StreamsPerConnection>> \in Conn \X N
    BY SchedulerAssumption
  <2> DEFINE S == Conn \X N  e == <<d, StreamsPerConnection>>
  <2>2. /\ IsFiniteSet(S) /\ Cardinality(S) = Connections * StreamsPerConnection
        /\ e \in S /\ Slot = S \ {e}
    BY <2>1, SlotCount, Zenon
  <2> HIDE DEF S, e, Slot
  <2> QED BY <2>2, FS_RemoveElement, Zenon
<1>8. ~(Cardinality(Slot) < Cardinality(A))
  <2> HIDE DEF p, Slot
  <2> QED BY <1>5, <1>6, <1>7, FS_PigeonHole
<1> QED BY <1>7, <1>8, FS_CardinalityType, SchedulerAssumption

-----------------------------------------------------------------------------
(* The phase uses the scheduler as the scheduler is specified              *)

\* Every step of a phase is a step of the scheduler, or leaves it alone.
LEMMA PhaseStepIsSchedulerStep ==
  [PhaseNext]_vars => [SchedulerNext]_schedulerVars
<1> SUFFICES ASSUME [PhaseNext]_vars PROVE [SchedulerNext]_schedulerVars
  BY Zenon
<1>1. CASE UNCHANGED vars
  BY <1>1, Zenon DEF vars
<1>2. CASE MainStep
  BY <1>2, Zenon DEF MainStep, DialOk, DialFailed, Start, OpenBarrier, Join, Return
<1>3. CASE Expire \/ Sample \/ SamplerStop
  BY <1>3, Zenon DEF Expire, Sample, SamplerStop
<1>4. CASE ContextDone
  BY <1>4, Zenon DEF ContextDone, SchedulerNext
<1>5. CASE \E c \in Conn, limit \in PeerLimits : SettingsFrame(c, limit)
  BY <1>5, Zenon DEF SettingsFrame
<1>6. ASSUME NEW w \in Workers, WorkerStep(w)
      PROVE  [SchedulerNext]_schedulerVars
  BY Zenon, <1>6 DEF WorkerStep, Continue, LeaveLoop, SchedulerStep, AcquireReturned,
              Arrive, Unpark, Finish, ReleaseSlot, SchedulerNext
<1> QED BY <1>1, <1>2, <1>3, <1>4, <1>5, <1>6, Zenon DEF PhaseNext

\* A phase is one of the scheduler's behaviours: what is proved of the
\* scheduler for any callers holds of the scheduler inside runLoadPhase.
THEOREM PhaseUsesScheduler == PhaseSpec => SchedulerSpec
<1>1. PhaseInit => SchedulerInit
  BY Zenon DEF PhaseInit
<1> QED BY <1>1, PhaseStepIsSchedulerStep, PTL DEF PhaseSpec, SchedulerSpec

-----------------------------------------------------------------------------
(* With as many slots as workers, no acquire ever waits                    *)

\* A scan reaches every connection, wherever it starts.
LEMMA ScanReachesAll ==
  ASSUME NEW n \in Conn, NEW c \in Conn
  PROVE  \E o \in 0 .. Connections - 1 : (n + o) % Connections = c
<1>1. c % Connections = c /\ (c + Connections) % Connections = c
  BY SchedulerAssumption DEF Conn
<1>2. CASE c >= n
  <2>1. c - n \in 0 .. Connections - 1 /\ n + (c - n) = c
    BY <1>2, SchedulerAssumption DEF Conn
  <2> QED BY <1>1, <2>1, Zenon
<1>3. CASE c < n
  <2>1. /\ c - n + Connections \in 0 .. Connections - 1
        /\ n + (c - n + Connections) = c + Connections
    BY <1>3, SchedulerAssumption DEF Conn
  <2> QED BY <1>1, <2>1, Zenon
<1> QED BY <1>2, <1>3, SchedulerAssumption DEF Conn

\* While some worker holds nothing, some connection has room.
LEMMA RoomForOne ==
  ASSUME SchedulerTypeOK, SlotsMatchHolders, NEW w \in Workers, call[w] # "held"
  PROVE  \E c \in Conn : ~Full(c)
<1> SUFFICES ASSUME \A c \in Conn : Full(c) PROVE FALSE
  BY Zenon
<1> DEFINE A == {v \in Workers : call[v] = "held"}
           h == [v \in A |-> index[v]]
<1>1. IsFiniteSet(Workers \ {w}) /\ Cardinality(Workers \ {w}) = Cardinality(Workers) - 1
  BY SchedulerAssumption, FS_RemoveElement, Zenon
<1>2. IsFiniteSet(A) /\ Cardinality(A) <= Cardinality(Workers) - 1
  <2>1. A \subseteq Workers \ {w}
    BY Zenon
  <2> QED BY <1>1, <2>1, FS_Subset
<1>3. h \in [A -> Conn]
  BY Zenon DEF SchedulerTypeOK
<1>4. \A c \in Conn : Cardinality({a \in A : h[a] = c}) = StreamsPerConnection
  <2> SUFFICES ASSUME NEW c \in Conn
               PROVE  Cardinality({a \in A : h[a] = c}) = StreamsPerConnection
    BY Zenon
  <2>1. {a \in A : h[a] = c} = Holders(c)
    BY Zenon DEF Holders
  <2> QED BY Zenon, <2>1 DEF SlotsMatchHolders, Full
<1>5. Connections * StreamsPerConnection <= Cardinality(A)
  <2> HIDE DEF A, h
  <2> QED BY <1>2, <1>3, <1>4, AllFullCount, Zenon
<1> QED BY <1>1, <1>2, <1>5, FS_CardinalityType, PhaseAssumption, SchedulerAssumption

\* One step of a phase keeps a channel with room in front of whoever scans.
LEMMA ScanHasRoomStep ==
  ASSUME SchedulerTypeOK, SlotsMatchHolders, ScanHasRoom,
         [SchedulerNext]_schedulerVars
  PROVE  ScanHasRoom'
<1> SUFFICES ASSUME NEW v \in Workers, call'[v] = "scan"
             PROVE  \E o \in offset' .. Connections - 1 :
                      slots'[(next' + o) % Connections] # StreamsPerConnection
  BY Zenon DEF ScanHasRoom, Full
<1> DEFINE Room == \E o \in offset' .. Connections - 1 :
                     slots'[(next' + o) % Connections] # StreamsPerConnection
<1>a. ASSUME UNCHANGED <<offset, next, slots>>, call[v] = "scan" PROVE Room
  BY <1>a, Zenon DEF ScanHasRoom, Full
<1>1. CASE UNCHANGED schedulerVars
  BY <1>1, <1>a, Zenon DEF schedulerVars
<1>2. ASSUME NEW w \in Workers,
             Acquire(w) \/ ScanFailed(w) \/ Woken(w) \/ AcquireCancelled(w) \/ Notify(w)
      PROVE  Room
  <2>1. UNCHANGED <<offset, next, slots>>
    BY <1>2, Zenon DEF Acquire, ScanFailed, Woken, AcquireCancelled, Notify
  <2>2. call[v] = "scan"
    BY <1>2, Zenon DEF Acquire, ScanFailed, Woken, AcquireCancelled, Notify, SchedulerTypeOK
  <2> QED BY <1>a, <2>1, <2>2, Zenon
<1>3. CASE Cancel
  BY <1>3, <1>a, Zenon DEF Cancel
<1>4. ASSUME NEW w \in Workers, Lock(w) PROVE Room
  <2>1. call[w] # "held"
    BY <1>4, Zenon DEF Lock
  <2>2. PICK c \in Conn : ~Full(c)
    BY <2>1, RoomForOne, Zenon
  <2>3. PICK o \in 0 .. Connections - 1 : (next + o) % Connections = c
    BY ScanReachesAll, Zenon DEF SchedulerTypeOK
  <2> QED BY <1>4, <2>2, <2>3, Zenon DEF Lock, Full
<1>5. ASSUME NEW w \in Workers, TakeSlot(w) PROVE Room
  <2>1. FALSE
    BY <1>5, Zenon DEF TakeSlot, SchedulerTypeOK
  <2> QED BY <2>1, Zenon
<1>6. ASSUME NEW w \in Workers, SkipSlot(w) PROVE Room
  <2>1. PICK o \in offset .. Connections - 1 : ~Full((next + o) % Connections)
    BY <1>6, Zenon DEF SkipSlot, ScanHasRoom
  <2>2. o # offset
    BY <1>6, <2>1, Zenon DEF SkipSlot, Full, Candidate
  <2>3. o \in offset' .. Connections - 1
    BY <1>6, <2>1, <2>2, SchedulerAssumption DEF SkipSlot, SchedulerTypeOK
  <2> QED BY <1>6, <2>1, <2>3, Zenon DEF SkipSlot, Full
<1>7. ASSUME NEW w \in Workers, Release(w) PROVE Room
  <2>1. call[v] = "scan"
    BY <1>7, Zenon DEF Release, SchedulerTypeOK
  <2>2. PICK o \in offset .. Connections - 1 : ~Full((next + o) % Connections)
    BY <2>1, Zenon DEF ScanHasRoom
  <2>3. (next + o) % Connections \in Conn
    BY SchedulerAssumption DEF SchedulerTypeOK, Conn
  <2>4. slots'[(next + o) % Connections] # StreamsPerConnection
    <3> DEFINE c == (next + o) % Connections
    <3>1. c \in Conn /\ ~Full(c)
      BY <2>2, <2>3, Zenon
    <3>2. slots'[c] = slots[c] \/ slots'[c] = slots[c] - 1
      <4> HIDE DEF c
      <4> QED BY <1>7, <3>1, Zenon DEF Release, SchedulerTypeOK
    <3> HIDE DEF c
    <3>3. slots'[c] # StreamsPerConnection
      BY <3>1, <3>2, SchedulerAssumption DEF Full, SchedulerTypeOK
    <3> QED BY <3>3, Zenon DEF c
  <2> QED BY <1>7, <2>2, <2>4, Zenon DEF Release
<1> QED BY <1>1, <1>2, <1>3, <1>4, <1>5, <1>6, <1>7, Zenon DEF SchedulerNext, Internal

\* No acquire ever sleeps or fails, in any phase whose workers are as many as
\* its slots: the shape every committed profile has.
THEOREM NeverWaits == PhaseSpec => []AcquireNeverWaits
<1>1. PhaseInit => ScanHasRoom /\ AcquireNeverWaits
  BY Zenon DEF PhaseInit, SchedulerInit, ScanHasRoom, AcquireNeverWaits
<1>2. SchedulerTypeOK /\ SlotsMatchHolders /\ ScanHasRoom /\ AcquireNeverWaits
        /\ [SchedulerNext]_schedulerVars
      => ScanHasRoom' /\ AcquireNeverWaits'
  <2> SUFFICES ASSUME SchedulerTypeOK, SlotsMatchHolders, ScanHasRoom,
                      AcquireNeverWaits, [SchedulerNext]_schedulerVars
               PROVE  AcquireNeverWaits'
    BY ScanHasRoomStep, Zenon
  <2>1. ASSUME NEW w \in Workers, ScanFailed(w) PROVE FALSE
    BY <2>1, SchedulerAssumption DEF ScanFailed, ScanHasRoom
  <2>2. ASSUME NEW w \in Workers, Internal(w) PROVE AcquireNeverWaits'
    BY <2>1, <2>2, Zenon DEF Internal, Lock, TakeSlot, SkipSlot, Woken, AcquireCancelled,
                      Notify, AcquireNeverWaits, SchedulerTypeOK
  <2>3. ASSUME NEW w \in Workers, Acquire(w) \/ Release(w) PROVE AcquireNeverWaits'
    BY <2>3, Zenon DEF Acquire, Release, AcquireNeverWaits, SchedulerTypeOK
  <2>4. CASE Cancel \/ UNCHANGED schedulerVars
    BY <2>4, Zenon DEF Cancel, schedulerVars, AcquireNeverWaits
  <2> QED BY <2>2, <2>3, <2>4, Zenon DEF SchedulerNext
<1> QED BY <1>1, <1>2, PhaseStepIsSchedulerStep, PhaseUsesScheduler,
           SchedulerTypeCorrect, SlotAccounting, PTL DEF PhaseSpec

-----------------------------------------------------------------------------
(***************************************************************************)
(* The control of a phase and its recorder: the inductive invariant, and   *)
(* the theorems about the counters that it yields.                         *)
(***************************************************************************)

(***************************************************************************)
(* The inductive invariant, in named parts.                                *)
(***************************************************************************)

\* Where a worker stands tells where it stands in acquire and release.
WorkerMatchesCall ==
  \A w \in Workers :
    /\ worker[w] = "unborn" => call[w] = "idle"
    /\ worker[w] = "loop" => call[w] \in {"idle", "releasing"}
    /\ worker[w] = "acquire" => call[w] \in {"lock", "scan", "held"}
    /\ worker[w] \in {"arrive", "parked", "operate", "finished"} => call[w] = "held"
    /\ worker[w] = "exit" => call[w] = "idle"

\* The workers that initialOperationsReady still waits for.
Missing == {w \in Workers : first[w] /\ worker[w] # "parked"}

\* initialOperationsReady counts the workers that have not arrived.
ReadyCounts == ready \in Nat /\ (main = "barrier" => ready = Cardinality(Missing))

\* Nobody passes the barrier before it opens, and all have arrived when it does.
BarrierHolds ==
  /\ main \in {"dialing", "barrier"} => ~released
  /\ main \in {"joining", "stopping"} => released
  /\ main = "dialing" => \A w \in Workers : worker[w] = "unborn"
  /\ ~released => \A w \in Workers :
       first[w] /\ worker[w] \notin {"operate", "finished"}
  /\ released => \A w \in Workers : first[w] => worker[w] = "parked"

\* A worker's firstOperation and its number of acquire calls.
FirstMatchesCalls ==
  \A w \in Workers :
    /\ first[w] /\ worker[w] \in {"unborn", "loop", "exit"} => calls[w] = 0
    /\ first[w] => calls[w] <= 1
    /\ ~first[w] \/ worker[w] \in {"acquire", "arrive", "parked"} => calls[w] >= 1
    /\ worker[w] \in {"unborn", "arrive", "parked"} => first[w]
    /\ worker[w] \in {"operate", "finished"} => ~first[w]
    /\ ~first[w] /\ worker[w] = "acquire" => calls[w] > 1

\* The maxima bound what they are maxima of, and stay within the shape.
MaximaBound ==
  /\ active <= maxActive
  /\ maxActive <= Cardinality(Workers)
  /\ \A c \in Conn : activeBy[c] <= maxActiveBy[c]

\* The return is taken after a failed dial, or with every worker gone.
ReturnInv ==
  /\ main = "returned" /\ phaseErr = "dial" =>
       ~released /\ \A w \in Workers : worker[w] = "unborn"
  /\ main = "returned" /\ phaseErr # "dial" => released
  /\ main = "stopping" \/ (main = "returned" /\ phaseErr # "dial") =>
       \A w \in Workers : worker[w] = "exit"
  /\ main # "returned" => phaseErr = "none"
  /\ main = "returned" => sampler # "running"
  /\ main = "dialing" => sampler = "unborn"

\* The types of the variables that control the phase.
ControlTypeOK ==
  /\ main \in MainState
  /\ phaseErr \in {"none", "dial", "context"}
  /\ worker \in [Workers -> WorkerState]
  /\ first \in [Workers -> BOOLEAN]
  /\ released \in BOOLEAN
  /\ sampler \in {"unborn", "running", "stopped"}

ControlInv ==
  /\ ControlTypeOK
  /\ WorkerMatchesCall
  /\ FirstMatchesCalls
  /\ BarrierHolds
  /\ ReturnInv

-----------------------------------------------------------------------------
(* The control of a phase: main goroutine, workers and barrier             *)

\* A phase starts in its control invariant.
LEMMA ControlInit == PhaseInit => ControlInv /\ ReadyCounts
<1> SUFFICES ASSUME PhaseInit PROVE ControlInv /\ ReadyCounts
  BY Zenon
<1>1. ControlTypeOK
  BY Zenon DEF PhaseInit, ControlTypeOK, MainState, WorkerState
<1>2. WorkerMatchesCall /\ FirstMatchesCalls /\ BarrierHolds /\ ReturnInv
  BY DEF PhaseInit, SchedulerInit, WorkerMatchesCall, FirstMatchesCalls,
         BarrierHolds, ReturnInv
<1>3. ReadyCounts
  BY Zenon DEF PhaseInit, ReadyCounts
<1> QED BY <1>1, <1>2, <1>3, Zenon DEF ControlInv

\* A step inside acquire or release leaves the phase and the recorder alone.
LEMMA SchedulerFrame ==
  ASSUME NEW w \in Workers, SchedulerStep(w)
  PROVE  UNCHANGED <<main, phaseErr, released, sampler, worker, first, calls,
                     recorderVars>>
<1>1. UNCHANGED <<main, phaseErr, released, sampler, worker, first, recorderVars>>
  BY Zenon DEF SchedulerStep, mainVars, samplerVars, workerVars
<1>2. calls' = calls
  BY Zenon DEF SchedulerStep, Internal, Lock, TakeSlot, SkipSlot, ScanFailed, Woken,
         AcquireCancelled, Notify
<1> QED BY <1>1, <1>2, Zenon

\* Start apart, a step that is no worker's leaves workers and recorder alone.
LEMMA OtherFrame ==
  ASSUME \/ DialOk \/ DialFailed \/ OpenBarrier \/ Join \/ Return
         \/ Expire \/ ContextDone \/ Sample \/ SamplerStop
         \/ \E c \in Conn, limit \in PeerLimits : SettingsFrame(c, limit)
         \/ UNCHANGED vars
  PROVE  UNCHANGED <<worker, first, call, calls, index, recorderVars>>
<1> USE DEF schedulerVars, workerVars
<1>1. CASE DialOk
  BY <1>1, Zenon DEF DialOk
<1>2. CASE DialFailed
  BY <1>2, Zenon DEF DialFailed
<1>3. CASE OpenBarrier
  BY <1>3, Zenon DEF OpenBarrier
<1>4. CASE Join
  BY <1>4, Zenon DEF Join
<1>5. CASE Return
  BY <1>5, Zenon DEF Return
<1>6. CASE Expire
  BY <1>6, Zenon DEF Expire
<1>7. CASE ContextDone
  BY <1>7, Zenon DEF ContextDone, Cancel
<1>8. CASE Sample
  BY <1>8, Zenon DEF Sample
<1>9. CASE SamplerStop
  BY <1>9, Zenon DEF SamplerStop
<1>10. CASE \E c \in Conn, limit \in PeerLimits : SettingsFrame(c, limit)
  BY <1>10, Zenon DEF SettingsFrame
<1>11. CASE UNCHANGED vars
  BY <1>11, Zenon DEF vars
<1> QED BY <1>1, <1>2, <1>3, <1>4, <1>5, <1>6, <1>7, <1>8, <1>9, <1>10, <1>11, Zenon

\* The steps of the main goroutine, the clock, the peer and the sampler.
LEMMA ControlMainStep ==
  ASSUME SchedulerTypeOK, ControlInv, ReadyCounts,
         \/ MainStep \/ Expire \/ ContextDone \/ Sample \/ SamplerStop
         \/ \E c \in Conn, limit \in PeerLimits : SettingsFrame(c, limit)
         \/ UNCHANGED vars
  PROVE  ControlInv'
<1> USE DEF ControlInv, ControlTypeOK, WorkerMatchesCall, FirstMatchesCalls,
            BarrierHolds, ReturnInv, MainState, WorkerState
<1>1. CASE DialOk
  BY <1>1, Zenon DEF DialOk, schedulerVars, workerVars, samplerVars
<1>2. CASE DialFailed
  BY <1>2, Zenon DEF DialFailed, schedulerVars, workerVars, samplerVars
<1>3. CASE Start
  BY <1>3, Zenon DEF Start, schedulerVars
<1>4. CASE OpenBarrier
  <2>1. \A w \in Workers : first[w] => worker[w] = "parked"
    <3>1. Missing \in SUBSET Workers /\ Cardinality(Missing) = 0
      BY <1>4, Zenon DEF OpenBarrier, ReadyCounts, Missing
    <3>2. Missing = {}
      BY <3>1, SchedulerAssumption, FS_Subset, FS_EmptySet, Zenon
    <3> QED BY <3>2, Zenon DEF Missing
  <2> QED BY <1>4, <2>1, Zenon DEF OpenBarrier, schedulerVars, workerVars, samplerVars
<1>5. CASE Join
  BY <1>5, Zenon DEF Join, schedulerVars, workerVars, samplerVars
<1>6. CASE Return
  BY <1>6, Zenon DEF Return, schedulerVars, workerVars
<1>7. CASE Expire
  BY <1>7, Zenon DEF Expire, schedulerVars, mainVars, workerVars, samplerVars
<1>8. CASE ContextDone
  BY <1>8, Zenon DEF ContextDone, Cancel, mainVars, workerVars, samplerVars
<1>9. CASE Sample
  BY <1>9, Zenon DEF Sample, schedulerVars, mainVars, workerVars
<1>10. CASE SamplerStop
  BY <1>10, Zenon DEF SamplerStop, schedulerVars, mainVars, workerVars
<1>11. CASE \E c \in Conn, limit \in PeerLimits : SettingsFrame(c, limit)
  BY <1>11 DEF SettingsFrame, schedulerVars, mainVars, workerVars
<1>12. CASE UNCHANGED vars
  BY <1>12 DEF vars, schedulerVars, mainVars, workerVars, samplerVars
<1> QED BY Zenon, <1>1, <1>2, <1>3, <1>4, <1>5, <1>6, <1>7, <1>8, <1>9, <1>10, <1>11,
           <1>12 DEF MainStep

\* The steps of a worker.
LEMMA ControlWorkerStep ==
  ASSUME SchedulerTypeOK, AcquireNeverWaits, AcquireNeverWaits', ControlInv,
         NEW w \in Workers, WorkerStep(w)
  PROVE  ControlInv'
<1> USE DEF ControlInv, ControlTypeOK, WorkerMatchesCall, FirstMatchesCalls,
            BarrierHolds, ReturnInv, MainState, WorkerState, SchedulerTypeOK
<1>1. CASE Continue(w)
  BY <1>1, SchedulerAssumption DEF Continue, Acquire, mainVars, samplerVars
<1>2. CASE LeaveLoop(w)
  BY <1>2 DEF LeaveLoop, schedulerVars, mainVars, samplerVars
<1>3. CASE SchedulerStep(w)
  <2>1. UNCHANGED <<main, phaseErr, released, worker, first, sampler, calls>>
    BY <1>3, SchedulerFrame, Zenon
  <2>2. WorkerMatchesCall'
    BY SMTT(20), <1>3, <2>1
       DEF SchedulerStep, Internal, Lock, TakeSlot, SkipSlot, ScanFailed,
                      Woken, AcquireCancelled, Notify, AcquireNeverWaits
  <2> QED BY <2>1, <2>2
<1>4. CASE AcquireReturned(w)
  <2>1. call[w] = "held"
    BY <1>4, Zenon DEF AcquireReturned, AcquireNeverWaits
  <2>2. /\ UNCHANGED <<main, phaseErr, released, first, sampler, calls, call>>
        /\ worker[w] = "acquire"
        /\ worker' = [worker EXCEPT ![w] = IF first[w] THEN "arrive" ELSE "operate"]
    BY <1>4, <2>1, Zenon DEF AcquireReturned, Begin, schedulerVars, mainVars, samplerVars
  <2>3. ControlTypeOK'
    BY <2>2, Zenon
  <2>4. WorkerMatchesCall'
    BY <2>1, <2>2
  <2>5. FirstMatchesCalls'
    BY <2>2
  <2>6. BarrierHolds'
    BY <2>2
  <2>7. ReturnInv'
    BY <2>2, Zenon
  <2> QED BY <2>3, <2>4, <2>5, <2>6, <2>7, Zenon
<1>5. CASE Arrive(w)
  BY <1>5 DEF Arrive, schedulerVars, samplerVars
<1>6. CASE Unpark(w)
  BY <1>6 DEF Unpark, schedulerVars, mainVars, samplerVars
<1>7. ASSUME NEW outcome \in Outcome, Finish(w, outcome) PROVE ControlInv'
  BY <1>7 DEF Finish, schedulerVars, mainVars, samplerVars
<1>8. CASE ReleaseSlot(w)
  BY <1>8 DEF ReleaseSlot, Release, mainVars, samplerVars
<1> QED BY Zenon, <1>1, <1>2, <1>3, <1>4, <1>5, <1>6, <1>7, <1>8 DEF WorkerStep

\* Only a worker's arrival changes what the barrier waits for.
LEMMA ReadyStep ==
  ASSUME SchedulerTypeOK, AcquireNeverWaits, ControlInv, ReadyCounts,
         [PhaseNext]_vars
  PROVE  ReadyCounts'
<1> USE DEF ReadyCounts
<1>0. IsFiniteSet(Missing)
  BY SchedulerAssumption, FS_Subset, Zenon DEF Missing
<1>a. ASSUME ready' = ready, main' = "barrier" => main = "barrier",
             main = "barrier" => Missing' = Missing
      PROVE  ReadyCounts'
  BY <1>a, Zenon
<1>1. CASE UNCHANGED vars
  BY <1>1, <1>a, Zenon DEF vars, mainVars, workerVars, Missing
<1>2. CASE DialOk \/ DialFailed \/ OpenBarrier \/ Join \/ Return
  BY <1>2, <1>a, Zenon DEF DialOk, DialFailed, OpenBarrier, Join, Return, workerVars, Missing
<1>3. CASE Start
  <2>1. Missing' = Workers
    BY <1>3, Zenon DEF Start, Missing, ControlInv, ControlTypeOK, FirstMatchesCalls,
                BarrierHolds
  <2>2. Cardinality(Workers) \in Nat
    BY SchedulerAssumption, FS_CardinalityType, Zenon
  <2> QED BY <1>3, <2>1, <2>2, Zenon DEF Start
<1>4. CASE \/ Expire \/ ContextDone \/ Sample \/ SamplerStop
           \/ \E c \in Conn, limit \in PeerLimits : SettingsFrame(c, limit)
  BY <1>4, <1>a, Zenon DEF Expire, ContextDone, Sample, SamplerStop, SettingsFrame,
                    mainVars, workerVars, Missing
<1>5. ASSUME NEW w \in Workers, WorkerStep(w) PROVE ReadyCounts'
  <2> USE DEF ControlInv, ControlTypeOK
  <2>1. CASE Continue(w)
    BY <2>1, <1>a, Zenon DEF Continue, mainVars, Missing
  <2>2. CASE LeaveLoop(w)
    BY <2>2, <1>a, Zenon DEF LeaveLoop, mainVars, Missing
  <2>3. CASE SchedulerStep(w)
    BY <2>3, <1>a, Zenon DEF SchedulerStep, mainVars, workerVars, Missing
  <2>4. CASE AcquireReturned(w)
    <3>1. call[w] = "held"
      BY <2>4, Zenon DEF AcquireReturned, AcquireNeverWaits
    <3> QED BY <2>4, <3>1, <1>a, Zenon DEF AcquireReturned, Begin, mainVars, Missing
  <2>5. CASE Arrive(w)
    <3>1. main = "barrier" /\ main' = main
      BY <2>5, Zenon DEF Arrive, FirstMatchesCalls, BarrierHolds, ReturnInv, MainState
    <3>2. w \in Missing /\ Missing' = Missing \ {w}
      BY <2>5, Zenon DEF Arrive, Missing, FirstMatchesCalls
    <3>3. Cardinality(Missing) \in Nat /\ Cardinality(Missing) # 0
      BY <1>0, <3>2, FS_CardinalityType, FS_EmptySet, Zenon
    <3>4. Cardinality(Missing') = Cardinality(Missing) - 1
      BY <1>0, <3>2, FS_RemoveElement, Zenon
    <3> QED BY <2>5, <3>1, <3>3, <3>4 DEF Arrive
  <2>6. CASE Unpark(w)
    BY <2>6, <1>a, Zenon DEF Unpark, mainVars, BarrierHolds
  <2>7. ASSUME NEW outcome \in Outcome, Finish(w, outcome) PROVE ReadyCounts'
    BY <2>7, <1>a, Zenon DEF Finish, mainVars, Missing
  <2>8. CASE ReleaseSlot(w)
    BY <2>8, <1>a, Zenon DEF ReleaseSlot, mainVars, Missing
  <2> QED BY <1>5, <2>1, <2>2, <2>3, <2>4, <2>5, <2>6, <2>7, <2>8, Zenon DEF WorkerStep
<1> QED BY <1>1, <1>2, <1>3, <1>4, <1>5, Zenon DEF PhaseNext, MainStep

\* The control invariant of a phase.
LEMMA ControlInvariant == PhaseSpec => [](ControlInv /\ ReadyCounts)
<1>1. SchedulerTypeOK /\ AcquireNeverWaits /\ AcquireNeverWaits' /\ ControlInv
        /\ ReadyCounts /\ [PhaseNext]_vars
      => ControlInv' /\ ReadyCounts'
  BY ControlMainStep, ControlWorkerStep, ReadyStep, Zenon DEF PhaseNext
<1> QED BY <1>1, ControlInit, NeverWaits, PhaseUsesScheduler, SchedulerTypeCorrect,
           PTL DEF PhaseSpec

-----------------------------------------------------------------------------
(* The recorder                                                            *)

\* The types of the recorder's variables.
RecorderTypeOK ==
  /\ active \in Nat
  /\ activeBy \in [Conn -> Nat]
  /\ maxActive \in Nat
  /\ maxActiveBy \in [Conn -> Nat]
  /\ tally \in [Outcome -> Nat]
  /\ total \in Nat

\* The operations in flight on connection c.
OnDial(c) == {w \in InFlight : index[w] = c}

\* The operations in flight are finitely many, and hold their slots.
LEMMA OnDialFinite ==
  ASSUME WorkerMatchesCall, NEW c
  PROVE  /\ IsFiniteSet(InFlight) /\ IsFiniteSet(OnDial(c))
         /\ InFlight \subseteq Workers
         /\ OnDial(c) \subseteq Holders(c)
<1>1. InFlight \subseteq Workers /\ OnDial(c) \subseteq Workers
  BY Zenon DEF InFlight, OnDial
<1>2. OnDial(c) \subseteq Holders(c)
  BY Zenon DEF OnDial, InFlight, Holders, WorkerMatchesCall
<1> QED BY <1>1, <1>2, SchedulerAssumption, FS_Subset, Zenon

\* The three ways a step can act on the recorder: leave it and the operations in
\* flight alone, begin an operation, or finish one.
Quiet ==
  /\ UNCHANGED recorderVars
  /\ InFlight' = InFlight
  /\ \A v \in InFlight : index'[v] = index[v]

Begins(w) ==
  /\ w \notin InFlight
  /\ InFlight' = InFlight \cup {w}
  /\ call[w] = "held"
  /\ index' = index
  /\ index[w] \in Conn
  /\ active' = active + 1
  /\ activeBy' = [activeBy EXCEPT ![index[w]] = @ + 1]
  /\ maxActive' = Larger(maxActive, active')
  /\ maxActiveBy' = [maxActiveBy EXCEPT
                       ![index[w]] = Larger(@, activeBy'[index[w]])]
  /\ UNCHANGED <<tally, total>>

Finishes(w) ==
  /\ w \in InFlight
  /\ InFlight' = InFlight \ {w}
  /\ index' = index
  /\ index[w] \in Conn
  /\ active' = active - 1
  /\ activeBy' = [activeBy EXCEPT ![index[w]] = @ - 1]
  /\ total' = total + 1
  /\ \E outcome \in Outcome : tally' = [tally EXCEPT ![outcome] = @ + 1]
  /\ UNCHANGED <<maxActive, maxActiveBy>>

\* Every step of a phase acts on the recorder in one of these ways.
LEMMA RecorderStepKinds ==
  ASSUME SchedulerTypeOK, AcquireNeverWaits, ControlInv, [PhaseNext]_vars
  PROVE  Quiet \/ \E w \in Workers : Begins(w) \/ Finishes(w)
<1> USE DEF InFlight
<1>a. worker \in [Workers -> WorkerState]
  BY Zenon DEF ControlInv, ControlTypeOK
<1>1. ASSUME UNCHANGED <<worker, first, call, calls, index, recorderVars>> PROVE Quiet
  BY <1>1, Zenon DEF Quiet
<1>2. CASE Start
  <2>1. InFlight = {} /\ InFlight' = {}
    BY <1>2, Zenon DEF Start, ControlInv, BarrierHolds
  <2> QED BY <1>2, <2>1, Zenon DEF Start, Quiet
<1>3. ASSUME NEW w \in Workers, WorkerStep(w)
      PROVE  Quiet \/ Begins(w) \/ Finishes(w)
  <2>1. CASE Continue(w)
    BY <1>a, <2>1, Zenon DEF Continue, Acquire, Quiet
  <2>2. CASE LeaveLoop(w)
    BY <1>a, <2>2, Zenon DEF LeaveLoop, schedulerVars, Quiet
  <2>3. CASE SchedulerStep(w)
    <3>1. UNCHANGED recorderVars /\ InFlight' = InFlight
      BY <2>3, SchedulerFrame, Zenon
    <3>2. \A v \in InFlight : index'[v] = index[v]
      BY <2>3, Zenon DEF SchedulerStep, Internal, Lock, TakeSlot, SkipSlot, ScanFailed,
                  Woken, AcquireCancelled, Notify, ControlInv, WorkerMatchesCall, SchedulerTypeOK
    <3> QED BY <3>1, <3>2, Zenon DEF Quiet
  <2>4. CASE AcquireReturned(w)
    <3>1. call[w] = "held"
      BY <2>4, Zenon DEF AcquireReturned, AcquireNeverWaits
    <3>2. Begin(w)
      BY <2>4, <3>1, Zenon DEF AcquireReturned
    <3>3. w \notin InFlight /\ InFlight' = InFlight \cup {w}
      BY <1>a, <2>4, <3>2, Zenon DEF AcquireReturned, Begin
    <3> QED BY <2>4, <3>1, <3>2, <3>3, Zenon
            DEF AcquireReturned, Begin, Begins, schedulerVars, SchedulerTypeOK
  <2>5. CASE Arrive(w)
    BY <1>a, <2>5, Zenon DEF Arrive, schedulerVars, Quiet
  <2>6. CASE Unpark(w)
    BY <1>a, <2>6, Zenon DEF Unpark, schedulerVars, Quiet
  <2>7. ASSUME NEW outcome \in Outcome, Finish(w, outcome) PROVE Finishes(w)
    <3>1. w \in InFlight /\ InFlight' = InFlight \ {w}
      BY <1>a, <2>7, Zenon DEF Finish
    <3> QED BY Zenon, <2>7, <3>1 DEF Finish, Finishes, schedulerVars, SchedulerTypeOK
  <2>8. CASE ReleaseSlot(w)
    BY <1>a, <2>8, Zenon DEF ReleaseSlot, Release, Quiet
  <2> QED BY SMTT(20), <1>3, <2>1, <2>2, <2>3, <2>4, <2>5, <2>6, <2>7, <2>8
             DEF WorkerStep
<1> QED BY <1>1, <1>2, <1>3, OtherFrame, Zenon DEF PhaseNext, MainStep

RecorderInv == RecorderTypeOK /\ RecorderMatchesWorkers /\ CapRespected /\ MaximaBound

\* A phase starts with an empty recorder.
LEMMA RecorderInit == PhaseInit => RecorderInv
<1> SUFFICES ASSUME PhaseInit PROVE RecorderInv
  BY Zenon
<1> USE DEF PhaseInit
<1>1. RecorderTypeOK
  BY Zenon DEF RecorderTypeOK
<1>2. InFlight = {} /\ \A c \in Conn : {w \in InFlight : index[w] = c} = {}
  BY Zenon DEF InFlight
<1>3. RecorderMatchesWorkers
  BY <1>2, FS_EmptySet DEF RecorderMatchesWorkers, Outcome
<1>4. CapRespected /\ MaximaBound
  BY SchedulerAssumption, FS_CardinalityType DEF CapRespected, MaximaBound
<1> QED BY <1>1, <1>3, <1>4, Zenon DEF RecorderInv

\* One step keeps the counters equal to the operations in flight.
LEMMA RecorderMatchesStep ==
  ASSUME WorkerMatchesCall, RecorderTypeOK, RecorderMatchesWorkers,
         Quiet \/ \E w \in Workers : Begins(w) \/ Finishes(w)
  PROVE  RecorderTypeOK' /\ RecorderMatchesWorkers'
<1>0. /\ active = Cardinality(InFlight)
      /\ \A c \in Conn : activeBy[c] = Cardinality(OnDial(c))
      /\ total = tally["passed"] + tally["failed"] + tally["timedOut"]
  BY Zenon DEF RecorderMatchesWorkers, OnDial
<1>a. ASSUME active' = Cardinality(InFlight'),
             \A c \in Conn : activeBy'[c] = Cardinality(OnDial(c)'),
             total' = tally'["passed"] + tally'["failed"] + tally'["timedOut"]
      PROVE  RecorderMatchesWorkers'
  BY <1>a, Zenon DEF RecorderMatchesWorkers, OnDial
<1>1. CASE Quiet
  <2>1. \A c \in Conn : OnDial(c)' = OnDial(c)
    BY <1>1, Zenon DEF Quiet, OnDial
  <2> QED BY <1>0, <1>1, <1>a, <2>1, Zenon DEF Quiet, recorderVars, RecorderTypeOK
<1>2. ASSUME NEW w \in Workers, Begins(w)
      PROVE  RecorderTypeOK' /\ RecorderMatchesWorkers'
  <2>1. RecorderTypeOK'
    BY <1>2 DEF Begins, RecorderTypeOK, Larger
  <2>2. active' = Cardinality(InFlight')
    BY Zenon, <1>0, <1>2, OnDialFinite, FS_AddElement DEF Begins
  <2>3. ASSUME NEW c \in Conn PROVE activeBy'[c] = Cardinality(OnDial(c)')
    <3>1. CASE c = index[w]
      <4>1. OnDial(c)' = OnDial(c) \cup {w} /\ w \notin OnDial(c)
        BY <1>2, <3>1, Zenon DEF Begins, OnDial
      <4>2. activeBy'[c] = activeBy[c] + 1
        BY <1>2, <3>1, Zenon DEF Begins, RecorderTypeOK
      <4> QED BY ZenonT(40), <1>0, <4>1, <4>2, OnDialFinite, FS_AddElement
    <3>2. CASE c # index[w]
      <4>1. OnDial(c)' = OnDial(c)
        BY <1>2, <3>2, Zenon DEF Begins, OnDial
      <4>2. activeBy'[c] = activeBy[c]
        BY <1>2, <3>2, Zenon DEF Begins, RecorderTypeOK
      <4> QED BY <1>0, <4>1, <4>2, Zenon
    <3> QED BY <3>1, <3>2, Zenon
  <2>4. total' = tally'["passed"] + tally'["failed"] + tally'["timedOut"]
    BY <1>0, <1>2, Zenon DEF Begins
  <2> QED BY SMTT(20), <1>a, <2>1, <2>2, <2>3, <2>4
<1>3. ASSUME NEW w \in Workers, Finishes(w)
      PROVE  RecorderTypeOK' /\ RecorderMatchesWorkers'
  <2>1. active' = Cardinality(InFlight')
    BY Zenon, <1>0, <1>3, OnDialFinite, FS_RemoveElement DEF Finishes
  <2>2. ASSUME NEW c \in Conn PROVE activeBy'[c] = Cardinality(OnDial(c)')
    <3>1. CASE c = index[w]
      <4>1. OnDial(c)' = OnDial(c) \ {w} /\ w \in OnDial(c)
        BY <1>3, <3>1, Zenon DEF Finishes, OnDial
      <4>2. activeBy'[c] = activeBy[c] - 1
        BY <1>3, <3>1, Zenon DEF Finishes, RecorderTypeOK
      <4> QED BY Zenon, <1>0, <4>1, <4>2, OnDialFinite, FS_RemoveElement
    <3>2. CASE c # index[w]
      <4>1. OnDial(c)' = OnDial(c)
        BY <1>3, <3>2, Zenon DEF Finishes, OnDial
      <4>2. activeBy'[c] = activeBy[c]
        BY <1>3, <3>2, Zenon DEF Finishes, RecorderTypeOK
      <4> QED BY <1>0, <4>1, <4>2, Zenon
    <3> QED BY <3>1, <3>2, Zenon
  <2>3. total' = tally'["passed"] + tally'["failed"] + tally'["timedOut"]
    BY <1>0, <1>3 DEF Finishes, RecorderTypeOK, Outcome
  <2>4. \A c \in Conn : IsFiniteSet(OnDial(c)') /\ Cardinality(OnDial(c)') \in Nat
    <3> SUFFICES ASSUME NEW c \in Conn
                 PROVE  IsFiniteSet(OnDial(c)') /\ Cardinality(OnDial(c)') \in Nat
      BY Zenon
    <3>1. OnDial(c)' \subseteq OnDial(c)
      BY SMTT(20), <1>3 DEF Finishes, OnDial
    <3> QED BY <3>1, OnDialFinite, FS_Subset, FS_CardinalityType, Zenon
  <2>5. active' \in Nat
    BY <1>3, <2>1, OnDialFinite, FS_RemoveElement, FS_CardinalityType DEF Finishes
  <2>6. activeBy' \in [Conn -> Nat]
    <3>1. activeBy' = [c \in Conn |-> activeBy'[c]]
      BY Zenon, <1>3 DEF Finishes, RecorderTypeOK
    <3>2. \A c \in Conn : activeBy'[c] \in Nat
      BY <2>2, <2>4, Zenon
    <3> QED BY <3>1, <3>2, Zenon
  <2>7. tally' \in [Outcome -> Nat] /\ total' \in Nat
    BY <1>3 DEF Finishes, RecorderTypeOK
  <2>8. RecorderTypeOK'
    BY <1>3, <2>5, <2>6, <2>7, Zenon DEF Finishes, RecorderTypeOK
  <2> QED BY <1>a, <2>1, <2>2, <2>3, <2>8, Zenon
<1> QED BY <1>1, <1>2, <1>3, Zenon

\* One step keeps the maxima above the counters and within the shape.
LEMMA MaximaStep ==
  ASSUME SchedulerTypeOK, SlotsMatchHolders, WorkerMatchesCall, RecorderInv,
         Quiet \/ \E w \in Workers : Begins(w) \/ Finishes(w)
  PROVE  CapRespected' /\ MaximaBound'
<1> USE DEF RecorderInv, RecorderTypeOK
<1>0. IsFiniteSet(Workers) /\ Cardinality(Workers) \in Nat
  BY SchedulerAssumption, FS_CardinalityType, Zenon
<1>1. CASE Quiet
  BY <1>1, Zenon DEF Quiet, recorderVars, CapRespected, MaximaBound
<1>2. ASSUME NEW w \in Workers, Begins(w) PROVE CapRespected' /\ MaximaBound'
  <2>1. active + 1 <= Cardinality(Workers)
    <3>1. InFlight \cup {w} \subseteq Workers
      BY OnDialFinite, Zenon
    <3>2. Cardinality(InFlight \cup {w}) = active + 1
      BY SMTT(20), <1>2, OnDialFinite, FS_AddElement
         DEF Begins, RecorderMatchesWorkers
    <3> QED BY <1>0, <3>1, <3>2, FS_Subset, Zenon
  <2>2. activeBy[index[w]] + 1 <= StreamsPerConnection
    <3> DEFINE c == index[w]
    <3>1. c \in Conn /\ w \notin OnDial(c) /\ w \in Holders(c)
      BY <1>2, Zenon DEF Begins, OnDial, Holders
    <3>2. OnDial(c) \cup {w} \subseteq Holders(c) /\ IsFiniteSet(OnDial(c))
      BY <3>1, OnDialFinite, Zenon
    <3>3. Cardinality(OnDial(c) \cup {w}) = activeBy[c] + 1
      BY Zenon, <3>1, <3>2, FS_AddElement DEF RecorderMatchesWorkers, OnDial
    <3>4. Cardinality(OnDial(c) \cup {w}) <= Cardinality(Holders(c))
      BY <3>2, HoldersFinite, FS_Subset, Zenon
    <3>5. Cardinality(Holders(c)) \in 0 .. StreamsPerConnection
      BY <3>1 DEF SlotsMatchHolders, SchedulerTypeOK
    <3> HIDE DEF c
    <3>6. activeBy[c] + 1 <= StreamsPerConnection
      BY SMTT(20), <3>1, <3>3, <3>4, <3>5, SchedulerAssumption
    <3> QED BY <3>6, Zenon DEF c
  <2>3. active' <= maxActive' /\ maxActive' <= Cardinality(Workers)
    BY <1>0, <1>2, <2>1 DEF Begins, Larger, MaximaBound
  <2>4. \A c \in Conn : /\ activeBy'[c] <= maxActiveBy'[c]
                        /\ maxActiveBy'[c] <= StreamsPerConnection
    <3> SUFFICES ASSUME NEW c \in Conn
                 PROVE  /\ activeBy'[c] <= maxActiveBy'[c]
                        /\ maxActiveBy'[c] <= StreamsPerConnection
      BY Zenon
    <3>1. /\ activeBy[c] \in Nat /\ maxActiveBy[c] \in Nat
          /\ activeBy[c] <= maxActiveBy[c] /\ maxActiveBy[c] <= StreamsPerConnection
      BY Zenon DEF MaximaBound, CapRespected
    <3>2. CASE c = index[w]
      <4>1. /\ activeBy'[c] = activeBy[c] + 1
            /\ maxActiveBy'[c] = Larger(maxActiveBy[c], activeBy[c] + 1)
        BY <1>2, <3>2, Zenon DEF Begins
      <4> QED BY <2>2, <3>1, <3>2, <4>1, SchedulerAssumption DEF Larger
    <3>3. CASE c # index[w]
      <4>1. activeBy'[c] = activeBy[c] /\ maxActiveBy'[c] = maxActiveBy[c]
        BY <1>2, <3>3, Zenon DEF Begins
      <4> QED BY <3>1, <4>1, Zenon
    <3> QED BY <3>2, <3>3, Zenon
  <2> QED BY <2>3, <2>4, Zenon DEF CapRespected, MaximaBound
<1>3. ASSUME NEW w \in Workers, Finishes(w) PROVE CapRespected' /\ MaximaBound'
  BY <1>0, <1>3 DEF Finishes, CapRespected, MaximaBound
<1> QED BY <1>1, <1>2, <1>3, Zenon

\* The maxima only grow.
LEMMA MaximaGrow ==
  ASSUME RecorderTypeOK, Quiet \/ \E w \in Workers : Begins(w) \/ Finishes(w)
  PROVE  /\ maxActive <= maxActive'
         /\ \A c \in Conn : maxActiveBy[c] <= maxActiveBy'[c]
BY DEF RecorderTypeOK, Quiet, Begins, Finishes, recorderVars, Larger

\* The recorder's invariant.
LEMMA RecorderInvariant == PhaseSpec => []RecorderInv
<1>1. SchedulerTypeOK /\ SlotsMatchHolders /\ AcquireNeverWaits /\ ControlInv
        /\ RecorderInv /\ [PhaseNext]_vars
      => RecorderInv'
  <2> SUFFICES ASSUME SchedulerTypeOK, SlotsMatchHolders, AcquireNeverWaits,
                      ControlInv, RecorderInv, [PhaseNext]_vars
               PROVE  RecorderInv'
    BY Zenon
  <2>1. Quiet \/ \E w \in Workers : Begins(w) \/ Finishes(w)
    BY RecorderStepKinds, Zenon
  <2>2. RecorderTypeOK' /\ RecorderMatchesWorkers'
    BY <2>1, RecorderMatchesStep, Zenon DEF ControlInv, RecorderInv
  <2>3. CapRespected' /\ MaximaBound'
    BY <2>1, MaximaStep, Zenon DEF ControlInv
  <2> QED BY <2>2, <2>3, Zenon DEF RecorderInv
<1> QED BY <1>1, RecorderInit, ControlInvariant, NeverWaits, PhaseUsesScheduler,
           SchedulerTypeCorrect, SlotAccounting, PTL DEF PhaseSpec

\* The recorder's counters are exactly the operations in flight, in all and on
\* each connection, and every finished operation has one outcome.
THEOREM RecorderConsistent == PhaseSpec => []RecorderMatchesWorkers
BY RecorderInvariant, PTL DEF RecorderInv

\* No connection ever carries more operations than its configured streams.
THEOREM CapHolds == PhaseSpec => []CapRespected
BY RecorderInvariant, PTL DEF RecorderInv

-----------------------------------------------------------------------------
(***************************************************************************)
(* Theorems about H2LoadPhase, for any number of connections, streams and  *)
(* calls, as long as there are as many workers as slots.                   *)
(***************************************************************************)

\* Every worker that has completed an operation is counted.
EndedCounted == Cardinality(Ended) <= total

\* When everyone is in flight, every connection carries its full share.
LEMMA AllInFlight ==
  ASSUME SchedulerTypeOK, SlotsMatchHolders, WorkerMatchesCall, RecorderInv,
         InFlight = Workers
  PROVE  /\ active = Cardinality(Workers)
         /\ \A c \in Conn : activeBy[c] = StreamsPerConnection
<1>1. active = Cardinality(Workers)
  BY Zenon DEF RecorderInv, RecorderMatchesWorkers
<1>2. index \in [Workers -> Conn]
  BY Zenon DEF SchedulerTypeOK
<1>3. \A c \in Conn : activeBy[c] = Cardinality({w \in Workers : index[w] = c})
  BY Zenon DEF RecorderInv, RecorderMatchesWorkers
<1>4. \A c \in Conn : activeBy[c] \in Nat /\ activeBy[c] <= StreamsPerConnection
  BY SchedulerAssumption DEF RecorderInv, RecorderTypeOK, CapRespected, MaximaBound
<1>5. ASSUME NEW d \in Conn, activeBy[d] < StreamsPerConnection PROVE FALSE
  <2>1. \A c \in Conn : Cardinality({w \in Workers : index[w] = c}) <= StreamsPerConnection
    BY <1>3, <1>4, Zenon
  <2>2. Cardinality({w \in Workers : index[w] = d}) < StreamsPerConnection
    BY <1>3, <1>5, Zenon
  <2>3. Cardinality(Workers) < Connections * StreamsPerConnection
    BY <1>2, <2>1, <2>2, NotFullCount, SchedulerAssumption, Zenon
  <2> QED BY <2>3, PhaseAssumption, SchedulerAssumption
<1> QED BY <1>1, <1>4, <1>5, SchedulerAssumption

\* Only the main goroutine opens the barrier, and with everyone parked at it.
LEMMA BarrierOpens ==
  ASSUME ControlInv, ReadyCounts, [PhaseNext]_vars, ~released, released'
  PROVE  OpenBarrier /\ \A w \in Workers : worker[w] = "parked"
<1>1. OpenBarrier
  <2>1. CASE MainStep
    BY Zenon, <2>1 DEF MainStep, DialOk, DialFailed, Start, Join, Return
  <2>2. CASE \/ Expire \/ ContextDone \/ Sample \/ SamplerStop \/ UNCHANGED vars
             \/ \E c \in Conn, limit \in PeerLimits : SettingsFrame(c, limit)
    BY Zenon, <2>2
       DEF Expire, ContextDone, Sample, SamplerStop, SettingsFrame, vars, mainVars
  <2>3. ASSUME NEW w \in Workers, WorkerStep(w) PROVE FALSE
    BY Zenon, <2>3
       DEF WorkerStep, Continue, LeaveLoop, SchedulerStep, AcquireReturned,
                Arrive, Unpark, Finish, ReleaseSlot, mainVars
  <2> QED BY <2>1, <2>2, <2>3, Zenon DEF PhaseNext
<1>2. Missing \in SUBSET Workers /\ Cardinality(Missing) = 0
  BY <1>1, Zenon DEF OpenBarrier, ReadyCounts, Missing
<1>3. Missing = {}
  BY <1>2, SchedulerAssumption, FS_Subset, FS_EmptySet, Zenon
<1> QED BY <1>1, <1>3, Zenon DEF Missing, ControlInv, BarrierHolds

\* Once the start barrier is open, the recorder has seen the full requested
\* shape, for every number of connections and streams.
THEOREM BarrierProven == PhaseSpec => []BarrierProvesShape
<1>1. PhaseInit => BarrierProvesShape
  BY Zenon DEF PhaseInit, BarrierProvesShape
<1>2. SchedulerTypeOK /\ SlotsMatchHolders /\ AcquireNeverWaits /\ ControlInv
        /\ ReadyCounts /\ RecorderInv /\ RecorderInv' /\ BarrierProvesShape
        /\ [PhaseNext]_vars
      => BarrierProvesShape'
  <2> SUFFICES ASSUME SchedulerTypeOK, SlotsMatchHolders, AcquireNeverWaits,
                      ControlInv, ReadyCounts, RecorderInv, RecorderInv',
                      BarrierProvesShape, [PhaseNext]_vars, released'
               PROVE  /\ maxActive' = Cardinality(Workers)
                      /\ \A c \in Conn : maxActiveBy'[c] = StreamsPerConnection
    BY Zenon DEF BarrierProvesShape
  <2>0. /\ Cardinality(Workers) \in Nat
        /\ maxActive \in Nat /\ maxActive' \in Nat
        /\ \A c \in Conn : maxActiveBy[c] \in Nat /\ maxActiveBy'[c] \in Nat
    BY SchedulerAssumption, FS_CardinalityType, Zenon DEF RecorderInv, RecorderTypeOK
  <2>1. /\ maxActive <= maxActive'
        /\ \A c \in Conn : maxActiveBy[c] <= maxActiveBy'[c]
    BY RecorderStepKinds, MaximaGrow, Zenon DEF RecorderInv
  <2>2. /\ maxActive' <= Cardinality(Workers)
        /\ \A c \in Conn : maxActiveBy'[c] <= StreamsPerConnection
    BY Zenon DEF RecorderInv, MaximaBound, CapRespected
  <2>3. CASE released
    <3>1. /\ maxActive = Cardinality(Workers)
          /\ \A c \in Conn : maxActiveBy[c] = StreamsPerConnection
      BY <2>3, Zenon DEF BarrierProvesShape
    <3> QED BY <2>0, <2>1, <2>2, <3>1, SchedulerAssumption
  <2>4. CASE ~released
    <3>1. InFlight = Workers
      BY <2>4, BarrierOpens, Zenon DEF InFlight
    <3>2. /\ active = Cardinality(Workers)
          /\ \A c \in Conn : activeBy[c] = StreamsPerConnection
      BY <3>1, AllInFlight, Zenon DEF ControlInv
    <3>3. /\ Cardinality(Workers) <= maxActive
          /\ \A c \in Conn : StreamsPerConnection <= maxActiveBy[c]
      BY <3>2, Zenon DEF RecorderInv, MaximaBound
    <3> QED BY <2>0, <2>1, <2>2, <3>3, SchedulerAssumption
  <2> QED BY <2>3, <2>4, Zenon
<1> QED BY <1>1, <1>2, RecorderInvariant, ControlInvariant, NeverWaits,
           PhaseUsesScheduler, SchedulerTypeCorrect, SlotAccounting, PTL
           DEF PhaseSpec

\* When a phase returns, nothing that it started still runs.
THEOREM ReturnIsQuiescent == PhaseSpec => []ReturnsQuiescent
<1>1. SchedulerTypeOK /\ SlotsMatchHolders /\ ControlInv /\ RecorderInv
      => ReturnsQuiescent
  <2> SUFFICES ASSUME SchedulerTypeOK, SlotsMatchHolders, ControlInv, RecorderInv,
                      main = "returned"
               PROVE  /\ \A c \in Conn : slots[c] = 0
                      /\ active = 0
                      /\ sampler # "running"
                      /\ \A w \in Workers : worker[w] \in {"unborn", "exit"}
    BY Zenon DEF ReturnsQuiescent
  <2>1. \A w \in Workers : worker[w] \in {"unborn", "exit"} /\ call[w] = "idle"
    BY Zenon DEF ControlInv, ReturnInv, WorkerMatchesCall
  <2>2. InFlight = {} /\ \A c \in Conn : Holders(c) = {}
    BY <2>1, Zenon DEF InFlight, Holders
  <2>3. active = 0 /\ \A c \in Conn : slots[c] = 0
    BY <2>2, FS_EmptySet, Zenon DEF RecorderInv, RecorderMatchesWorkers, SlotsMatchHolders
  <2> QED BY <2>1, <2>3, Zenon DEF ControlInv, ReturnInv
<1> QED BY <1>1, RecorderInvariant, ControlInvariant, PhaseUsesScheduler,
           SchedulerTypeCorrect, SlotAccounting, PTL

-----------------------------------------------------------------------------
(* The phase implements the gated phase                                    *)

\* A worker step seen from GatedPhase: it begins an operation, ends one after
\* the barrier has opened, or changes nothing.
LEMMA GatedWorkerStep ==
  ASSUME SchedulerTypeOK, AcquireNeverWaits, ControlInv,
         NEW w \in Workers, WorkerStep(w)
  PROVE  /\ UNCHANGED <<released, Status>>
         /\ \/ InFlight' = InFlight /\ Ended' = Ended /\ total' = total
            \/ /\ Status = "running" /\ w \notin InFlight
               /\ InFlight' = InFlight \cup {w} /\ Ended' = Ended
               /\ total' = total
            \/ /\ released /\ w \in InFlight
               /\ InFlight' = InFlight \ {w} /\ Ended' = Ended \cup {w}
               /\ total' = total + 1
<1> USE DEF InFlight, Ended, recorderVars
<1>a. worker \in [Workers -> WorkerState] /\ first \in [Workers -> BOOLEAN]
  BY Zenon DEF ControlInv, ControlTypeOK
<1>b. FirstMatchesCalls /\ BarrierHolds /\ ReturnInv
  BY Zenon DEF ControlInv
<1>1. CASE Continue(w)
  BY <1>a, <1>b, <1>1, SchedulerAssumption, Zenon
     DEF Continue, Acquire, mainVars, Status, SchedulerTypeOK, FirstMatchesCalls
<1>2. CASE LeaveLoop(w)
  BY ZenonT(40), <1>a, <1>b, <1>2 DEF LeaveLoop, schedulerVars, mainVars, Status
<1>3. CASE SchedulerStep(w)
  <2>1. UNCHANGED <<worker, first, calls, main, phaseErr, released, total>>
    BY <1>3, SchedulerFrame, Zenon
  <2> QED BY <2>1, Zenon DEF Status
<1>4. CASE AcquireReturned(w)
  <2>1. call[w] = "held"
    BY <1>a, <1>b, <1>4, Zenon DEF AcquireReturned, AcquireNeverWaits
  <2>2. Status = "running"
    BY <1>a, <1>b, <1>4, Zenon DEF AcquireReturned, Status, ReturnInv
  <2>3. UNCHANGED <<first, calls, main, phaseErr, released, total>> /\ Begin(w)
    BY <1>a, <1>b, <1>4, <2>1, Zenon DEF AcquireReturned, schedulerVars, mainVars
  <2>4. w \notin InFlight /\ InFlight' = InFlight \cup {w}
    BY <1>a, <1>b, <1>4, <2>3, Zenon DEF AcquireReturned, Begin
  <2>5. Ended' = Ended
    BY <1>a, <1>b, <1>4, <2>3, Zenon DEF AcquireReturned, Begin, FirstMatchesCalls
  <2> QED BY <2>2, <2>3, <2>4, <2>5, Zenon DEF Status
<1>5. CASE Arrive(w)
  BY <1>a, <1>b, <1>5, Zenon DEF Arrive, schedulerVars, Status
<1>6. CASE Unpark(w)
  BY <1>a, <1>b, <1>6, SchedulerAssumption
     DEF Unpark, schedulerVars, mainVars, Status, FirstMatchesCalls, SchedulerTypeOK
<1>7. ASSUME NEW outcome \in Outcome, Finish(w, outcome)
      PROVE  /\ UNCHANGED <<released, Status>>
             /\ released /\ w \in InFlight
             /\ InFlight' = InFlight \ {w} /\ Ended' = Ended \cup {w}
             /\ total' = total + 1
  <2>1. UNCHANGED <<first, calls, main, phaseErr, released>> /\ total' = total + 1
    BY <1>a, <1>b, <1>7, Zenon DEF Finish, schedulerVars, mainVars
  <2>2. released /\ w \in InFlight /\ InFlight' = InFlight \ {w}
    BY <1>a, <1>b, <1>7, Zenon DEF Finish, BarrierHolds
  <2>3. Ended' = Ended \cup {w}
    BY SMTT(20), <1>a, <1>b, <1>7, <2>1 DEF Finish, FirstMatchesCalls
  <2> QED BY <2>1, <2>2, <2>3, Zenon DEF Status
<1>8. CASE ReleaseSlot(w)
  BY <1>a, <1>b, <1>8, Zenon DEF ReleaseSlot, Release, mainVars, Status
<1> QED BY Zenon, <1>1, <1>2, <1>3, <1>4, <1>5, <1>6, <1>7, <1>8 DEF WorkerStep

\* The steps that are not a worker's leave the operations alone.
LEMMA GatedOtherStep ==
  ASSUME ControlInv,
         \/ MainStep \/ Expire \/ ContextDone \/ Sample \/ SamplerStop
         \/ \E c \in Conn, limit \in PeerLimits : SettingsFrame(c, limit)
         \/ UNCHANGED vars
  PROVE  InFlight' = InFlight /\ Ended' = Ended /\ total' = total
<1> USE DEF InFlight, Ended
<1>1. CASE Start
  BY <1>1, Zenon DEF Start, ControlInv, ControlTypeOK, BarrierHolds, FirstMatchesCalls,
              schedulerVars, recorderVars
<1>2. CASE UNCHANGED <<worker, first, call, calls, index, recorderVars>>
  BY <1>2, Zenon DEF recorderVars
<1> QED BY <1>1, <1>2, OtherFrame, Zenon DEF MainStep

\* runLoadPhase implements GatedPhase: no operation ends before all workers have
\* one in flight together, every worker completes one, and nothing is in flight
\* when the phase returns.
THEOREM PhaseIsGated == PhaseSpec => ImplementsGatedPhase
<1>1. PhaseInit => Gated!GatedInit
  BY Zenon DEF PhaseInit, Gated!GatedInit, InFlight, Ended, Status
<1>2. SchedulerTypeOK /\ AcquireNeverWaits /\ ControlInv /\ ReadyCounts
        /\ [PhaseNext]_vars
      => [Gated!GatedNext]_(Gated!gatedVars)
  <2> SUFFICES ASSUME SchedulerTypeOK, AcquireNeverWaits, ControlInv, ReadyCounts,
                      [PhaseNext]_vars
               PROVE  [Gated!GatedNext]_(Gated!gatedVars)
    BY Zenon
  <2> USE DEF Gated!GatedNext, Gated!gatedVars
  <2>1. ASSUME NEW w \in Workers, WorkerStep(w)
        PROVE  [Gated!GatedNext]_(Gated!gatedVars)
    BY <2>1, GatedWorkerStep, Zenon DEF Gated!BeginOperation, Gated!EndOperation
  <2>2. CASE OpenBarrier
    <3>1. InFlight' = InFlight /\ Ended' = Ended
      BY <2>2, GatedOtherStep, Zenon DEF MainStep
    <3>2. ~released /\ released' /\ Status = "running" /\ Status' = "running"
      BY <2>2, Zenon DEF OpenBarrier, Status, ControlInv, BarrierHolds
    <3>3. InFlight = Workers
      BY <3>2, BarrierOpens, Zenon DEF InFlight
    <3> QED BY Zenon, <3>1, <3>2, <3>3 DEF Gated!OpenGate
  <2>3. CASE Return
    <3>1. InFlight' = InFlight /\ Ended' = Ended
      BY <2>3, GatedOtherStep, Zenon DEF MainStep
    <3>2. released /\ released' = released
      BY <2>3, Zenon DEF Return, ControlInv, BarrierHolds
    <3>3. Status = "running" /\ Status' = "done"
      BY <2>3, Zenon DEF Return, Status
    <3>4. \A w \in Workers : worker[w] = "exit" /\ ~first[w]
      BY <2>3, <3>2, Zenon DEF Return, ControlInv, ReturnInv, BarrierHolds
    <3>5. InFlight = {} /\ Ended = Workers
      BY <3>4, Zenon DEF InFlight, Ended
    <3> QED BY <3>1, <3>2, <3>3, <3>5, Zenon DEF Gated!FinishPhase
  <2>4. CASE DialFailed
    <3>1. InFlight' = InFlight /\ Ended' = Ended
      BY <2>4, GatedOtherStep, Zenon DEF MainStep
    <3>2. ~released /\ released' = released
      BY <2>4, Zenon DEF DialFailed, ControlInv, BarrierHolds
    <3>3. Status = "running" /\ Status' = "aborted"
      BY <2>4, Zenon DEF DialFailed, Status
    <3>4. InFlight = {}
      BY <2>4, Zenon DEF DialFailed, ControlInv, BarrierHolds, InFlight
    <3> QED BY <3>1, <3>2, <3>3, <3>4, Zenon DEF Gated!AbortPhase
  <2>5. CASE DialOk \/ Start \/ Join
    <3>1. InFlight' = InFlight /\ Ended' = Ended
      BY <2>5, GatedOtherStep, Zenon DEF MainStep
    <3>2. released' = released /\ Status' = Status
      BY <2>5, Zenon DEF DialOk, Start, Join, Status
    <3> QED BY <3>1, <3>2, Zenon
  <2>6. CASE \/ Expire \/ ContextDone \/ Sample \/ SamplerStop \/ UNCHANGED vars
             \/ \E c \in Conn, limit \in PeerLimits : SettingsFrame(c, limit)
    <3>1. InFlight' = InFlight /\ Ended' = Ended
      BY <2>6, GatedOtherStep, Zenon
    <3>2. released' = released /\ Status' = Status
      BY <2>6, Zenon DEF Expire, ContextDone, Sample, SamplerStop, SettingsFrame, vars,
                  mainVars, Status
    <3> QED BY <3>1, <3>2, Zenon
  <2> QED BY <2>1, <2>2, <2>3, <2>4, <2>5, <2>6, Zenon DEF PhaseNext, MainStep
<1> QED BY <1>1, <1>2, ControlInvariant, NeverWaits, PhaseUsesScheduler,
           SchedulerTypeCorrect, PTL
           DEF PhaseSpec, ImplementsGatedPhase, Gated!GatedSpec

-----------------------------------------------------------------------------
(* Types, and the verdict on a returned phase                              *)

\* The types of the variables that the control does not depend on.
OtherTypeOK ==
  /\ open \in 0 .. Connections
  /\ expired \in BOOLEAN
  /\ peerLimit \in [Conn -> PeerLimits \cup {0}]
  /\ observedLimit \in [Conn -> PeerLimits \cup {0}]

\* The variables of a phase keep their types: in particular no counter of the
\* recorder or of the barrier ever drops below zero.
THEOREM PhaseTypeCorrect == PhaseSpec => []PhaseTypeOK
<1>1. PhaseInit => OtherTypeOK
  <2> SUFFICES ASSUME PhaseInit PROVE OtherTypeOK
    BY Zenon
  <2>1. open \in 0 .. Connections
    BY SchedulerAssumption DEF PhaseInit
  <2> QED BY <2>1, Zenon DEF PhaseInit, OtherTypeOK
<1>2. OtherTypeOK /\ [PhaseNext]_vars => OtherTypeOK'
  <2> SUFFICES ASSUME OtherTypeOK, [PhaseNext]_vars PROVE OtherTypeOK'
    BY Zenon
  <2> USE DEF OtherTypeOK
  <2>1. CASE DialOk
    BY <2>1, SchedulerAssumption DEF DialOk, samplerVars
  <2>2. CASE DialFailed \/ Start \/ OpenBarrier \/ Join
    BY <2>2, SchedulerAssumption DEF DialFailed, Start, OpenBarrier, Join, samplerVars
  <2>3. Captured \in [Conn -> PeerLimits \cup {0}]
    BY Zenon DEF Captured, Larger
  <2>4. CASE Return
    BY <2>3, <2>4, SchedulerAssumption DEF Return
  <2>5. CASE Expire \/ ContextDone \/ SamplerStop \/ UNCHANGED vars
    BY Zenon, <2>5 DEF Expire, ContextDone, SamplerStop, vars, mainVars, samplerVars
  <2>6. CASE Sample
    BY <2>3, <2>6, Zenon DEF Sample, mainVars
  <2>7. CASE \E c \in Conn, limit \in PeerLimits : SettingsFrame(c, limit)
    BY <2>7 DEF SettingsFrame, mainVars
  <2>8. ASSUME NEW w \in Workers, WorkerStep(w) PROVE OtherTypeOK'
    BY <2>8, Zenon DEF WorkerStep, Continue, LeaveLoop, SchedulerStep, AcquireReturned,
                Arrive, Unpark, Finish, ReleaseSlot, mainVars, samplerVars
  <2> QED BY <2>1, <2>2, <2>4, <2>5, <2>6, <2>7, <2>8 DEF PhaseNext, MainStep
<1>3. SchedulerTypeOK /\ ControlInv /\ ReadyCounts /\ RecorderInv /\ OtherTypeOK
      => PhaseTypeOK
  BY Zenon DEF ControlInv, ControlTypeOK, ReadyCounts, RecorderInv, RecorderTypeOK,
         OtherTypeOK, PhaseTypeOK
<1> QED BY <1>1, <1>2, <1>3, RecorderInvariant, ControlInvariant,
           PhaseUsesScheduler, SchedulerTypeCorrect, PTL DEF PhaseSpec

\* Every worker that has completed an operation is counted in TotalRequests.
LEMMA EndedInvariant == PhaseSpec => []EndedCounted
<1>0. IsFiniteSet(Ended) /\ Cardinality(Ended) \in Nat
  BY SchedulerAssumption, FS_Subset, FS_CardinalityType, Zenon DEF Ended
<1>1. PhaseInit => EndedCounted
  <2> SUFFICES ASSUME PhaseInit PROVE Cardinality(Ended) <= total
    BY Zenon DEF EndedCounted
  <2>1. Ended = {}
    BY Zenon DEF PhaseInit, Ended
  <2> QED BY <2>1, FS_EmptySet DEF PhaseInit
<1>2. SchedulerTypeOK /\ AcquireNeverWaits /\ ControlInv /\ RecorderInv
        /\ EndedCounted /\ [PhaseNext]_vars
      => EndedCounted'
  <2> SUFFICES ASSUME SchedulerTypeOK, AcquireNeverWaits, ControlInv, RecorderInv,
                      EndedCounted, [PhaseNext]_vars
               PROVE  Cardinality(Ended') <= total'
    BY Zenon DEF EndedCounted
  <2>0. total \in Nat /\ Cardinality(Ended) <= total
    BY Zenon DEF RecorderInv, RecorderTypeOK, EndedCounted
  <2>1. CASE Ended' = Ended /\ total' = total
    BY <2>0, <2>1, Zenon
  <2>2. ASSUME NEW w, Ended' = Ended \cup {w}, total' = total + 1
        PROVE  Cardinality(Ended') <= total'
    BY SMTT(20), <1>0, <2>0, <2>2, FS_AddElement
  <2> QED BY Zenon, <2>1, <2>2, GatedWorkerStep, GatedOtherStep DEF PhaseNext
<1> QED BY <1>1, <1>2, RecorderInvariant, ControlInvariant, NeverWaits,
           PhaseUsesScheduler, SchedulerTypeCorrect, PTL DEF PhaseSpec

\* A phase that returns without an error has measured every worker, and its
\* topology proof can only be refused for the limits the peers advertised.
THEOREM VerdictDependsOnPeer == PhaseSpec => []VerdictIsAboutThePeer
<1>1. ControlInv /\ RecorderInv /\ BarrierProvesShape /\ EndedCounted /\ PhaseTypeOK
      => VerdictIsAboutThePeer
  <2> SUFFICES ASSUME ControlInv, RecorderInv, BarrierProvesShape, EndedCounted,
                      PhaseTypeOK, main = "returned", phaseErr = "none"
               PROVE  /\ total >= Cardinality(Workers)
                      /\ Accepted <=>
                           /\ tally["passed"] = total
                           /\ \A c \in Conn : observedLimit[c] >= StreamsPerConnection
    BY Zenon DEF VerdictIsAboutThePeer
  <2>1. released /\ \A w \in Workers : worker[w] = "exit" /\ ~first[w]
    BY Zenon DEF ControlInv, ReturnInv, BarrierHolds
  <2>2. Ended = Workers
    BY <2>1, Zenon DEF Ended
  <2>3. total \in Nat /\ Cardinality(Workers) \in Nat /\ total >= Cardinality(Workers)
    BY <2>2, SchedulerAssumption, FS_CardinalityType, Zenon
       DEF EndedCounted, RecorderInv, RecorderTypeOK
  <2>4. Cardinality(Workers) # 0
    BY PhaseAssumption, SchedulerAssumption
  <2>5. /\ tally["passed"] \in Nat /\ tally["failed"] \in Nat /\ tally["timedOut"] \in Nat
        /\ total = tally["passed"] + tally["failed"] + tally["timedOut"]
    BY Zenon DEF RecorderInv, RecorderTypeOK, RecorderMatchesWorkers, Outcome
  <2>6. tally["passed"] = total <=>
          tally["failed"] = 0 /\ tally["timedOut"] = 0 /\ tally["passed"] # 0
    BY <2>3, <2>4, <2>5
  <2>7. maxActive = Cardinality(Workers)
        /\ \A c \in Conn : maxActiveBy[c] = StreamsPerConnection
    BY <2>1, Zenon DEF BarrierProvesShape
  <2>8. \A c \in Conn : observedLimit[c] >= StreamsPerConnection => observedLimit[c] # 0
    BY SchedulerAssumption, PhaseAssumption DEF PhaseTypeOK
  <2>9. TopologyProven <=> \A c \in Conn : observedLimit[c] >= StreamsPerConnection
    BY <2>7, <2>8, SchedulerAssumption DEF TopologyProven
  <2> QED BY <2>3, <2>6, <2>9, Zenon DEF Accepted
<1> QED BY <1>1, RecorderInvariant, ControlInvariant, BarrierProven, EndedInvariant,
           PhaseTypeCorrect, PTL
=============================================================================
