---------------------------- MODULE H2LoadPhase ----------------------------
(***************************************************************************)
(* One load phase of the HTTP/2 executor: runLoadPhase of                  *)
(* executors/go-http2-executor/source/load.go, with the connection         *)
(* scheduler, the start barrier, the recorder and the state sampler.       *)
(*                                                                         *)
(* The main goroutine dials Connections connections, starts the sampler    *)
(* and one goroutine per worker, waits until every worker has begun its    *)
(* first operation (initialOperationsReady), lets them all go (closes      *)
(* releaseInitialOperations), joins them, stops the sampler, takes a last  *)
(* sample and returns.  A worker loops until the deadline or the end of    *)
(* the context: acquire, begin, operate, finish, release.                  *)
(***************************************************************************)
EXTENDS ConnectionScheduler

CONSTANT PeerLimits   \* MAX_CONCURRENT_STREAMS values the server may advertise

\* The shape of every profile that loadConfigFromEnvironment accepts: 1/1/1,
\* 1/8/8 and 16/128/8 all have concurrency = connections * streams.
ASSUME PhaseAssumption ==
  /\ Cardinality(Workers) = Connections * StreamsPerConnection
  /\ PeerLimits \subseteq Nat

VARIABLES
  main,          \* where the goroutine of runLoadPhase stands
  phaseErr,      \* the error it returns
  open,          \* connections dialled and not yet closed
  worker,        \* worker[w]: where goroutine w stands
  first,         \* first[w]: w's local variable firstOperation
  ready,         \* counter of the WaitGroup initialOperationsReady
  released,      \* the channel releaseInitialOperations is closed
  expired,       \* the deadline has passed
  sampler,       \* the sampling goroutine
  active,        \* recorder.activeOperations
  activeBy,      \* recorder.activeOperationsByDial
  maxActive,     \* summary.MaximumActiveOperations
  maxActiveBy,   \* summary.MaximumActiveOperationsByDial
  tally,         \* summary.SuccessfulRequests, FailedRequests, TimeoutRequests
  total,         \* summary.TotalRequests
  peerLimit,     \* limit seen on each connection, 0 before the first SETTINGS
  observedLimit  \* summary.PeerAdvertisedMaxConcurrentStreamsByDial

mainVars == <<main, phaseErr, open, ready, released>>
recorderVars == <<active, activeBy, maxActive, maxActiveBy, tally, total>>
samplerVars == <<sampler, peerLimit, observedLimit>>
workerVars == <<worker, first>>
vars == <<schedulerVars, mainVars, recorderVars, samplerVars, workerVars, expired>>

MainState == {"dialing", "barrier", "joining", "stopping", "returned"}

(***************************************************************************)
(* unborn: not started; loop: at the loop condition; acquire: in acquire   *)
(* or just returned from it; arrive: counted by begin, first operation     *)
(* not yet announced; parked: receives from releaseInitialOperations;      *)
(* operate: in executeLoadOperation; finished: recorded, slot not yet      *)
(* released; exit: returned.                                               *)
(***************************************************************************)
WorkerState ==
  {"unborn", "loop", "acquire", "arrive", "parked", "operate", "finished", "exit"}

\* What recorder.finish makes of a check: TimedOut wins over not Passed.
Outcome == {"passed", "failed", "timedOut"}

Larger(a, b) == IF a > b THEN a ELSE b

PhaseInit ==
  /\ SchedulerInit
  /\ main = "dialing"
  /\ phaseErr = "none"
  /\ open = 0
  /\ worker = [w \in Workers |-> "unborn"]
  /\ first = [w \in Workers |-> TRUE]
  /\ ready = 0
  /\ released = FALSE
  /\ expired = FALSE
  /\ sampler = "unborn"
  /\ active = 0
  /\ activeBy = [c \in Conn |-> 0]
  /\ maxActive = 0
  /\ maxActiveBy = [c \in Conn |-> 0]
  /\ tally = [o \in Outcome |-> 0]
  /\ total = 0
  /\ peerLimit = [c \in Conn |-> 0]
  /\ observedLimit = [c \in Conn |-> 0]

-----------------------------------------------------------------------------
(* The goroutine of runLoadPhase                                           *)

\* dialH2C succeeds; with an expired context it cannot.
DialOk ==
  /\ main = "dialing"
  /\ open < Connections
  /\ ~ctxDone
  /\ open' = open + 1
  /\ UNCHANGED <<schedulerVars, main, phaseErr, ready, released, recorderVars,
                 samplerVars, workerVars, expired>>

\* dialH2C fails: close what was dialled and return the error.
DialFailed ==
  /\ main = "dialing"
  /\ open < Connections
  /\ open' = 0
  /\ phaseErr' = "dial"
  /\ main' = "returned"
  /\ UNCHANGED <<schedulerVars, ready, released, recorderVars, samplerVars,
                 workerVars, expired>>

\* Faulty Start: counts one worker too few in initialOperationsReady.
StartShort ==
  /\ main = "dialing"
  /\ open = Connections
  /\ ready' = Cardinality(Workers) - 1
  /\ sampler' = "running"
  /\ worker' = [w \in Workers |-> "loop"]
  /\ main' = "barrier"
  /\ UNCHANGED <<schedulerVars, phaseErr, open, released, recorderVars,
                 peerLimit, observedLimit, first, expired>>

\* Faulty Start: counts the main goroutine as well.
StartLong ==
  /\ main = "dialing"
  /\ open = Connections
  /\ ready' = Cardinality(Workers) + 1
  /\ sampler' = "running"
  /\ worker' = [w \in Workers |-> "loop"]
  /\ main' = "barrier"
  /\ UNCHANGED <<schedulerVars, phaseErr, open, released, recorderVars,
                 peerLimit, observedLimit, first, expired>>

\* All dialled: start the sampler, arm the deadline, start the workers.
Start ==
  /\ main = "dialing"
  /\ open = Connections
  /\ ready' = Cardinality(Workers)
  /\ sampler' = "running"
  /\ worker' = [w \in Workers |-> "loop"]
  /\ main' = "barrier"
  /\ UNCHANGED <<schedulerVars, phaseErr, open, released, recorderVars,
                 peerLimit, observedLimit, first, expired>>

\* initialOperationsReady.Wait returns; close(releaseInitialOperations).
OpenBarrier ==
  /\ main = "barrier"
  /\ ready = 0
  /\ released' = TRUE
  /\ main' = "joining"
  /\ UNCHANGED <<schedulerVars, phaseErr, open, ready, recorderVars,
                 samplerVars, workerVars, expired>>

\* workers.Wait returns; stopSampler.
Join ==
  /\ main = "joining"
  /\ \A w \in Workers : worker[w] = "exit"
  /\ main' = "stopping"
  /\ UNCHANGED <<schedulerVars, phaseErr, open, ready, released, recorderVars,
                 samplerVars, workerVars, expired>>

\* captureConnectionStates: a maximum over time, per connection.
Captured == [c \in Conn |-> Larger(observedLimit[c], peerLimit[c])]

\* Faulty Return: does not wait for the sampler before closing connections.
ReturnEarly ==
  /\ main = "stopping"
  /\ observedLimit' = Captured
  /\ phaseErr' = IF ctxDone THEN "context" ELSE "none"
  /\ open' = 0
  /\ main' = "returned"
  /\ UNCHANGED <<schedulerVars, ready, released, recorderVars, sampler,
                 peerLimit, workerVars, expired>>

\* sampler.Wait returns; the last sample; the deferred close; ctx.Err wins.
Return ==
  /\ main = "stopping"
  /\ sampler = "stopped"
  /\ observedLimit' = Captured
  /\ phaseErr' = IF ctxDone THEN "context" ELSE "none"
  /\ open' = 0
  /\ main' = "returned"
  /\ UNCHANGED <<schedulerVars, ready, released, recorderVars, sampler,
                 peerLimit, workerVars, expired>>

-----------------------------------------------------------------------------
(* The deadline, the context, the peer and the sampler                     *)

\* time.Now reaches the deadline armed by Start.
Expire ==
  /\ main \notin {"dialing", "returned"}
  /\ ~expired
  /\ expired' = TRUE
  /\ UNCHANGED <<schedulerVars, mainVars, recorderVars, samplerVars, workerVars>>

\* The timeout of the context passes; the caller cancels it after the return.
ContextDone ==
  /\ main # "returned"
  /\ Cancel
  /\ UNCHANGED <<mainVars, recorderVars, samplerVars, workerVars, expired>>

\* A SETTINGS frame of the server on connection c (golang.org/x/net/http2).
SettingsFrame(c, limit) ==
  /\ c < open
  /\ peerLimit[c] # limit
  /\ peerLimit' = [peerLimit EXCEPT ![c] = limit]
  /\ UNCHANGED <<schedulerVars, mainVars, recorderVars, sampler, observedLimit,
                 workerVars, expired>>

\* One turn of sampleConnectionStates.
Sample ==
  /\ sampler = "running"
  /\ observedLimit # Captured
  /\ observedLimit' = Captured
  /\ UNCHANGED <<schedulerVars, mainVars, recorderVars, sampler, peerLimit,
                 workerVars, expired>>

\* The sampler sees its context done: the parent's, or stopSampler's.
SamplerStop ==
  /\ sampler = "running"
  /\ ctxDone \/ main = "stopping"
  /\ sampler' = "stopped"
  /\ UNCHANGED <<schedulerVars, mainVars, recorderVars, peerLimit,
                 observedLimit, workerVars, expired>>

-----------------------------------------------------------------------------
(* A worker goroutine                                                      *)

\* The loop condition holds: call acquire.
Continue(w) ==
  /\ worker[w] = "loop"
  /\ ~expired
  /\ Acquire(w)
  /\ ~ctxDone
  /\ worker' = [worker EXCEPT ![w] = "acquire"]
  /\ UNCHANGED <<mainVars, recorderVars, samplerVars, first, expired>>

\* The loop condition fails: return, whether or not w has announced itself.
LeaveLoop(w) ==
  /\ worker[w] = "loop"
  /\ call[w] = "idle"
  /\ expired \/ ctxDone
  /\ worker' = [worker EXCEPT ![w] = "exit"]
  /\ UNCHANGED <<schedulerVars, mainVars, recorderVars, samplerVars, first, expired>>

\* A step of w inside acquire or release.
SchedulerStep(w) ==
  /\ Internal(w)
  /\ UNCHANGED <<mainVars, recorderVars, samplerVars, workerVars, expired>>

\* Faulty Begin: charges every operation to connection 0.
BeginWrongDial(w) ==
  /\ active' = active + 1
  /\ activeBy' = [activeBy EXCEPT ![0] = @ + 1]
  /\ maxActive' = Larger(maxActive, active')
  /\ maxActiveBy' = [maxActiveBy EXCEPT ![0] = Larger(@, activeBy'[0])]
  /\ worker' = [worker EXCEPT ![w] = IF first[w] THEN "arrive" ELSE "operate"]

\* recorder.begin, and the test of firstOperation.
Begin(w) ==
  /\ active' = active + 1
  /\ activeBy' = [activeBy EXCEPT ![index[w]] = @ + 1]
  /\ maxActive' = Larger(maxActive, active')
  /\ maxActiveBy' = [maxActiveBy EXCEPT
                       ![index[w]] = Larger(@, activeBy'[index[w]])]
  /\ worker' = [worker EXCEPT ![w] = IF first[w] THEN "arrive" ELSE "operate"]

\* acquire returned: ctx.Err ends the worker, a connection begins an operation.
AcquireReturned(w) ==
  /\ worker[w] = "acquire"
  /\ call[w] \in {"held", "failed"}
  /\ IF call[w] = "failed"
     THEN /\ worker' = [worker EXCEPT ![w] = "exit"]
          /\ UNCHANGED <<active, activeBy, maxActive, maxActiveBy>>
     ELSE Begin(w)
  /\ UNCHANGED <<schedulerVars, mainVars, tally, total, samplerVars, first, expired>>

\* initialOperationsReady.Done.
Arrive(w) ==
  /\ worker[w] = "arrive"
  /\ ready' = ready - 1
  /\ worker' = [worker EXCEPT ![w] = "parked"]
  /\ UNCHANGED <<schedulerVars, main, phaseErr, open, released, recorderVars,
                 samplerVars, first, expired>>

\* Faulty Unpark: does not wait for the channel to be closed.
UnparkAtOnce(w) ==
  /\ worker[w] = "parked"
  /\ first' = [first EXCEPT ![w] = FALSE]
  /\ worker' = [worker EXCEPT ![w] = "operate"]
  /\ UNCHANGED <<schedulerVars, mainVars, recorderVars, samplerVars, expired>>

\* The receive from releaseInitialOperations returns.
Unpark(w) ==
  /\ worker[w] = "parked"
  /\ released
  /\ first' = [first EXCEPT ![w] = FALSE]
  /\ worker' = [worker EXCEPT ![w] = "operate"]
  /\ UNCHANGED <<schedulerVars, mainVars, recorderVars, samplerVars, expired>>

\* Faulty Finish: forgets the connection's own counter.
FinishForgetsDial(w, outcome) ==
  /\ worker[w] = "operate"
  /\ active' = active - 1
  /\ total' = total + 1
  /\ tally' = [tally EXCEPT ![outcome] = @ + 1]
  /\ worker' = [worker EXCEPT ![w] = "finished"]
  /\ UNCHANGED <<schedulerVars, mainVars, activeBy, maxActive, maxActiveBy,
                 samplerVars, first, expired>>

\* executeLoadOperation returns a check, and recorder.finish records it.  The
\* request timeout bounds the call, so every outcome can follow at any time.
Finish(w, outcome) ==
  /\ worker[w] = "operate"
  /\ active' = active - 1
  /\ activeBy' = [activeBy EXCEPT ![index[w]] = @ - 1]
  /\ total' = total + 1
  /\ tally' = [tally EXCEPT ![outcome] = @ + 1]
  /\ worker' = [worker EXCEPT ![w] = "finished"]
  /\ UNCHANGED <<schedulerVars, mainVars, maxActive, maxActiveBy, samplerVars,
                 first, expired>>

\* scheduler.release; its send to notify is the SchedulerStep Notify.
ReleaseSlot(w) ==
  /\ worker[w] = "finished"
  /\ Release(w)
  /\ worker' = [worker EXCEPT ![w] = "loop"]
  /\ UNCHANGED <<mainVars, recorderVars, samplerVars, first, expired>>

WorkerStep(w) ==
  \/ Continue(w)
  \/ LeaveLoop(w)
  \/ SchedulerStep(w)
  \/ AcquireReturned(w)
  \/ Arrive(w)
  \/ Unpark(w)
  \/ \E outcome \in Outcome : Finish(w, outcome)
  \/ ReleaseSlot(w)

MainStep == DialOk \/ DialFailed \/ Start \/ OpenBarrier \/ Join \/ Return

PhaseNext ==
  \/ MainStep
  \/ Expire
  \/ ContextDone
  \/ \E c \in Conn, limit \in PeerLimits : SettingsFrame(c, limit)
  \/ Sample
  \/ SamplerStop
  \/ \E w \in Workers : WorkerStep(w)

PhaseSpec == PhaseInit /\ [][PhaseNext]_vars

(***************************************************************************)
(* Fairness: goroutines that can run do run, the dial timeout bounds a     *)
(* dial, the request timeout bounds an operation, and time passes.  The    *)
(* mutex is fair to a waiter, hence SF on Lock.  Nothing is assumed of     *)
(* the context's timeout, of the peer, or of the sampler's ticks.          *)
(***************************************************************************)
FairPhaseSpec ==
  /\ PhaseSpec
  /\ WF_vars(MainStep)
  /\ WF_vars(Expire)
  /\ WF_vars(SamplerStop)
  /\ \A w \in Workers : WF_vars(WorkerStep(w)) /\ SF_vars(Lock(w) /\ SchedulerStep(w))

-----------------------------------------------------------------------------
(* Properties                                                              *)

\* Type invariant of the phase.
PhaseTypeOK ==
  /\ SchedulerTypeOK
  /\ main \in MainState
  /\ phaseErr \in {"none", "dial", "context"}
  /\ open \in 0 .. Connections
  /\ worker \in [Workers -> WorkerState]
  /\ first \in [Workers -> BOOLEAN]
  /\ ready \in Nat
  /\ released \in BOOLEAN
  /\ expired \in BOOLEAN
  /\ sampler \in {"unborn", "running", "stopped"}
  /\ active \in Nat
  /\ activeBy \in [Conn -> Nat]
  /\ maxActive \in Nat
  /\ maxActiveBy \in [Conn -> Nat]
  /\ tally \in [Outcome -> Nat]
  /\ total \in Nat
  /\ peerLimit \in [Conn -> PeerLimits \cup {0}]
  /\ observedLimit \in [Conn -> PeerLimits \cup {0}]

\* The workers between recorder.begin and recorder.finish.
InFlight == {w \in Workers : worker[w] \in {"arrive", "parked", "operate"}}

\* The recorder's counters are the operations in flight, in all and on each
\* connection, and every finished operation has exactly one outcome, although
\* begin and finish run outside the scheduler's mutex (load.go:482, load.go:495).
RecorderMatchesWorkers ==
  /\ active = Cardinality(InFlight)
  /\ \A c \in Conn : activeBy[c] = Cardinality({w \in InFlight : index[w] = c})
  /\ total = tally["passed"] + tally["failed"] + tally["timedOut"]

\* No connection ever carries more operations than its configured streams: the
\* per-connection rejection of validateMeasuredTopology (load.go:564) never
\* fires, because a slot is taken before begin and given back after finish.
CapRespected == \A c \in Conn : maxActiveBy[c] <= StreamsPerConnection

\* Once the start barrier has opened, the recorder has seen the full requested
\* shape: all workers at once, and every connection at its configured streams.
\* The comparison test of main_test.go asserts it of one run.
BarrierProvesShape ==
  released =>
    /\ maxActive = Cardinality(Workers)
    /\ \A c \in Conn : maxActiveBy[c] = StreamsPerConnection

\* With as many slots as workers, no worker ever sleeps in acquire, although a
\* scan looks at the channels one by one while others release (load.go:164):
\* otherwise a sleeping worker would hold up the barrier.
AcquireNeverWaits == \A w \in Workers : call[w] \notin {"wait", "failed"}

\* When runLoadPhase returns, nothing it started still runs: every slot is
\* back, no operation is recorded as active, and the sampler, which reads the
\* connections, stopped before they were closed (load.go:455-458).
ReturnsQuiescent ==
  main = "returned" =>
    /\ \A c \in Conn : slots[c] = 0
    /\ active = 0
    /\ sampler # "running"
    /\ \A w \in Workers : worker[w] \in {"unborn", "exit"}

\* The phase returns, unless a worker left its loop before its first operation:
\* that worker never calls initialOperationsReady.Done (load.go:436-444), and
\* nothing else can open the barrier.
PhaseReturnsOrWorkerMissed ==
  <>(main = "returned" \/ \E w \in Workers : worker[w] = "exit" /\ first[w])

(***************************************************************************)
(* The verdict of runH2CLoad on a measured phase.                          *)
(***************************************************************************)

\* validateMeasuredTopology.  ObservedDials is Connections once Start is taken.
TopologyProven ==
  /\ maxActive = Cardinality(Workers)
  /\ \A c \in Conn :
       /\ maxActiveBy[c] <= StreamsPerConnection
       /\ observedLimit[c] # 0
       /\ observedLimit[c] >= StreamsPerConnection

\* runH2CLoad goes on to build a result.
Accepted ==
  /\ main = "returned"
  /\ phaseErr = "none"
  /\ tally["failed"] = 0
  /\ tally["timedOut"] = 0
  /\ tally["passed"] # 0
  /\ TopologyProven

\* A phase that returns without a dial error has measured every worker: the
\* requested concurrency is the concurrency that ran, and the topology proof
\* can only be refused for the limits the peers advertised (load.go:552).
VerdictIsAboutThePeer ==
  main = "returned" /\ phaseErr = "none" =>
    /\ total >= Cardinality(Workers)
    /\ Accepted <=> /\ tally["passed"] = total
                    /\ \A c \in Conn : observedLimit[c] >= StreamsPerConnection

\* The workers that have completed an operation.
Ended == {w \in Workers : ~first[w] /\ (calls[w] > 1 \/ worker[w] # "operate")}

\* How the phase stands, for its caller.
Status ==
  IF main # "returned" THEN "running"
  ELSE IF phaseErr = "dial" THEN "aborted" ELSE "done"

\* runLoadPhase implements the gated phase: no operation ends before all are in
\* flight, every worker completes one, and nothing is in flight at the return.
Gated == INSTANCE GatedPhase WITH
  inFlight <- InFlight,
  opened <- released,
  ended <- Ended,
  status <- Status

ImplementsGatedPhase == Gated!GatedSpec

\* What docs/http-executor-delivery-plan.md says of an accepted comparison: its
\* operations, all of them, are in flight at once (executing, not only counted).
AcceptedWasInFlight ==
  <>Accepted => <>(\A w \in Workers : worker[w] = "operate")

=============================================================================
