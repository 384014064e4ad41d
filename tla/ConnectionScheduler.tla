------------------------ MODULE ConnectionScheduler ------------------------
(***************************************************************************)
(* The connection scheduler of the HTTP/2 load generator                   *)
(* (executors/go-http2-executor/source/load.go, type connectionScheduler). *)
(* Every connection has a buffered channel of StreamsPerConnection tokens; *)
(* acquire scans the channels under the mutex mu, starting at next, and    *)
(* takes the first one that has room; a caller that finds none sleeps on   *)
(* the one-place channel notify.  release takes its token back WITHOUT mu  *)
(* and leaves at most one wake-up in notify.                               *)
(*                                                                         *)
(* One action per step that another goroutine can see.  A scan is one      *)
(* step per channel, because a release may fall between two of its steps;  *)
(* another acquire may not, because the scan holds mu.                     *)
(***************************************************************************)
EXTENDS Naturals, FiniteSets

CONSTANTS
  Connections,           \* number of dialled connections
  StreamsPerConnection,  \* capacity of each connection's slot channel
  Workers,               \* the goroutines that call acquire and release
  MaxCalls               \* bound: acquire calls per worker

ASSUME SchedulerAssumption ==
  /\ Connections \in Nat \ {0}
  /\ StreamsPerConnection \in Nat \ {0}
  /\ IsFiniteSet(Workers)
  /\ MaxCalls \in Nat

Conn == 0 .. Connections - 1

VARIABLES
  slots,    \* slots[c]: tokens in the channel of connection c
  next,     \* connection the next scan starts at
  offset,   \* loop variable of the scan in progress (of mu's holder)
  notify,   \* tokens in the one-place channel notify
  call,     \* call[w]: where worker w stands in acquire or release
  index,    \* index[w]: the connection w's last acquire returned
  calls,    \* calls[w]: acquire calls w has made (counts up to MaxCalls)
  ctxDone   \* the context passed to acquire has expired

schedulerVars == <<slots, next, offset, notify, call, index, calls, ctxDone>>

(***************************************************************************)
(* idle: outside; lock: waiting for mu; scan: holds mu, in the for loop;   *)
(* wait: in the select on ctx.Done and notify; held: acquire returned a    *)
(* connection; failed: acquire returned ctx.Err; releasing: release has    *)
(* taken the token and has not yet sent to notify.                         *)
(***************************************************************************)
CallState == {"idle", "lock", "scan", "wait", "held", "failed", "releasing"}

\* mu is held exactly between Lock and Unlock, that is, during a scan.
MuFree == \A v \in Workers : call[v] # "scan"

\* The channel the scan looks at next.
Candidate == (next + offset) % Connections

\* newConnectionScheduler
SchedulerInit ==
  /\ slots = [c \in Conn |-> 0]
  /\ next = 0
  /\ offset = 0
  /\ notify = 0
  /\ call = [w \in Workers |-> "idle"]
  /\ index = [w \in Workers |-> 0]
  /\ calls = [w \in Workers |-> 0]
  /\ ctxDone = FALSE

-----------------------------------------------------------------------------

\* w calls acquire.
Acquire(w) ==
  /\ call[w] = "idle"
  /\ calls[w] < MaxCalls
  /\ calls' = [calls EXCEPT ![w] = @ + 1]
  /\ call' = [call EXCEPT ![w] = "lock"]
  /\ UNCHANGED <<slots, next, offset, notify, index, ctxDone>>

\* scheduler.mu.Lock, and the start of the for loop.
Lock(w) ==
  /\ call[w] = "lock"
  /\ MuFree
  /\ call' = [call EXCEPT ![w] = "scan"]
  /\ offset' = 0
  /\ UNCHANGED <<slots, next, notify, index, calls, ctxDone>>

\* The non-blocking send succeeds: remember the connection, move next, unlock.
TakeSlot(w) ==
  /\ call[w] = "scan"
  /\ offset < Connections
  /\ slots[Candidate] < StreamsPerConnection
  /\ slots' = [slots EXCEPT ![Candidate] = @ + 1]
  /\ next' = (Candidate + 1) % Connections
  /\ index' = [index EXCEPT ![w] = Candidate]
  /\ call' = [call EXCEPT ![w] = "held"]
  /\ UNCHANGED <<offset, notify, calls, ctxDone>>

\* The non-blocking send finds the channel full: the loop goes on.
SkipSlot(w) ==
  /\ call[w] = "scan"
  /\ offset < Connections
  /\ slots[Candidate] = StreamsPerConnection
  /\ offset' = offset + 1
  /\ UNCHANGED <<slots, next, notify, call, index, calls, ctxDone>>

\* Faulty ScanFailed: the loop stops one channel short.
ScanFailedEarly(w) ==
  /\ call[w] = "scan"
  /\ offset >= Connections - 1
  /\ call' = [call EXCEPT ![w] = "wait"]
  /\ UNCHANGED <<slots, next, offset, notify, index, calls, ctxDone>>

\* Every channel was full when the scan looked at it: unlock, then select.
ScanFailed(w) ==
  /\ call[w] = "scan"
  /\ offset = Connections
  /\ call' = [call EXCEPT ![w] = "wait"]
  /\ UNCHANGED <<slots, next, offset, notify, index, calls, ctxDone>>

\* The select receives from notify: try again from the top.
Woken(w) ==
  /\ call[w] = "wait"
  /\ notify = 1
  /\ notify' = 0
  /\ call' = [call EXCEPT ![w] = "lock"]
  /\ UNCHANGED <<slots, next, offset, index, calls, ctxDone>>

\* The select receives from ctx.Done: acquire returns ctx.Err.
AcquireCancelled(w) ==
  /\ call[w] = "wait"
  /\ ctxDone
  /\ call' = [call EXCEPT ![w] = "failed"]
  /\ UNCHANGED <<slots, next, offset, notify, index, calls, ctxDone>>

\* Faulty Release: returns the token to the connection the next scan starts at.
ReleaseWrongConnection(w) ==
  /\ call[w] = "held"
  /\ slots[next] > 0
  /\ slots' = [slots EXCEPT ![next] = @ - 1]
  /\ call' = [call EXCEPT ![w] = "releasing"]
  /\ UNCHANGED <<next, offset, notify, index, calls, ctxDone>>

\* The receive in release; it would block on an empty channel.
Release(w) ==
  /\ call[w] = "held"
  /\ slots[index[w]] > 0
  /\ slots' = [slots EXCEPT ![index[w]] = @ - 1]
  /\ call' = [call EXCEPT ![w] = "releasing"]
  /\ UNCHANGED <<next, offset, notify, index, calls, ctxDone>>

\* Faulty Notify: an unbuffered notify, whose non-blocking send is lost unless
\* some worker already sleeps on it.
NotifyUnbuffered(w) ==
  /\ call[w] = "releasing"
  /\ notify' = IF \E v \in Workers : call[v] = "wait" THEN 1 ELSE notify
  /\ call' = [call EXCEPT ![w] = "idle"]
  /\ UNCHANGED <<slots, next, offset, index, calls, ctxDone>>

\* The non-blocking send to notify: a token already there absorbs this one.
Notify(w) ==
  /\ call[w] = "releasing"
  /\ notify' = 1
  /\ call' = [call EXCEPT ![w] = "idle"]
  /\ UNCHANGED <<slots, next, offset, index, calls, ctxDone>>

\* The deadline of the context passes.
Cancel ==
  /\ ~ctxDone
  /\ ctxDone' = TRUE
  /\ UNCHANGED <<slots, next, offset, notify, call, index, calls>>

\* A step inside acquire, or the end of release: needs no decision by w.
Internal(w) ==
  \/ Lock(w)
  \/ TakeSlot(w)
  \/ SkipSlot(w)
  \/ ScanFailed(w)
  \/ Woken(w)
  \/ AcquireCancelled(w)
  \/ Notify(w)

SchedulerNext ==
  \/ \E w \in Workers : Acquire(w) \/ Internal(w) \/ Release(w)
  \/ Cancel

SchedulerSpec == SchedulerInit /\ [][SchedulerNext]_schedulerVars

(***************************************************************************)
(* Goroutines that can run do run; a sync.Mutex does not starve a waiter   *)
(* and a channel serves its blocked receivers in turn, hence SF on Lock    *)
(* and Woken.  A worker releases what it holds: every operation between    *)
(* acquire and release is bounded by the request timeout.                  *)
(***************************************************************************)
SchedulerFairness ==
  \A w \in Workers :
    /\ SF_schedulerVars(Lock(w))
    /\ SF_schedulerVars(Woken(w))
    /\ WF_schedulerVars(TakeSlot(w) \/ SkipSlot(w) \/ ScanFailed(w))
    /\ WF_schedulerVars(AcquireCancelled(w))
    /\ WF_schedulerVars(Release(w))
    /\ WF_schedulerVars(Notify(w))

FairSchedulerSpec == SchedulerSpec /\ SchedulerFairness

-----------------------------------------------------------------------------
(* Properties                                                              *)

\* Type invariant; at most one worker is inside the mutex.
SchedulerTypeOK ==
  /\ slots \in [Conn -> 0 .. StreamsPerConnection]
  /\ next \in Conn
  /\ offset \in 0 .. Connections
  /\ notify \in {0, 1}
  /\ call \in [Workers -> CallState]
  /\ index \in [Workers -> Conn]
  /\ calls \in [Workers -> 0 .. MaxCalls]
  /\ ctxDone \in BOOLEAN
  /\ \A v, w \in Workers : call[v] = "scan" /\ call[w] = "scan" => v = w

\* The workers whose acquire returned connection c and who have not released it.
Holders(c) == {w \in Workers : call[w] = "held" /\ index[w] = c}

\* Every token in a slot channel belongs to exactly one acquire that returned
\* that connection and has not been released: release (load.go:183) never
\* blocks, never frees another worker's slot, and no connection carries more
\* than StreamsPerConnection operations although release runs outside mu.
SlotsMatchHolders ==
  \A c \in Conn : slots[c] = Cardinality(Holders(c))

\* No lost wake-up: although notify holds one token and drops the others
\* (load.go:185), a worker asleep in acquire is never left with nobody to wake
\* it; a token is pending, or another worker is on its way to sending one.
WaiterHasWaker ==
  (\E w \in Workers : call[w] = "wait") =>
    \/ notify = 1
    \/ \E v \in Workers : call[v] \in {"lock", "scan", "held", "releasing"}

\* Every acquire returns, with a connection or with ctx.Err (load.go:161),
\* whatever the other workers' scans, releases and dropped wake-ups do.
AcquireReturns ==
  \A w \in Workers : call[w] = "lock" ~> call[w] \in {"held", "failed"}

=============================================================================
