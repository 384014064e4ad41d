-------------------------- MODULE H2WebSocketSession --------------------------
(***************************************************************************)
(* The multi-message diagnostic of go-http2-websocket-executor: one HTTP/2 *)
(* connection, one reader goroutine that dispatches frames to a bounded    *)
(* channel per stream, one WebSocket per stream, and phases in which a     *)
(* worker per stream sends groups of messages (openH2Session, readLoop,    *)
(* dispatch, openWebSocket, runMessageGroup, close,                        *)
(* runConcurrentMessagePhase, runMultiMessageDiagnostic, main).            *)
(*                                                                         *)
(* A WebSocket frame is two units long, so that DATA frames can cut it and *)
(* run over its end: its kind, then "tail".                                *)
(***************************************************************************)
EXTENDS Integers, Sequences, FiniteSets

CONSTANTS Flags,         \* values of -validation-only
          StreamCount,   \* streams of the connection, and profile.Concurrency
          MessageCount,  \* spec.MessageCount
          Capacity,      \* capacity of a stream's channel
          Window,        \* initial flow-control window, stream and connection
          MaxGroups,     \* bound: groups of one worker in one timed phase
          MaxFaults      \* bound: what an arbitrary peer does wrong

ASSUME SessionAssumption ==
  /\ Flags \subseteq BOOLEAN
  /\ {StreamCount, MessageCount, Capacity, Window, MaxGroups} \subseteq Nat \ {0}
  /\ MaxFaults \in Nat

Streams == 1..StreamCount

(* A peer that answers in time, or one that may do anything. *)
Peers == {"echo", "arbitrary"}

Kinds == {"text", "close", "other", "masked", "rsv"}
Units == Kinds \cup {"tail"}
Controls == {"headers", "refused", "reset"}

VARIABLES peer, faults,   \* the peer, and the faults it has made
          validationOnly, \* the flag
          wire,           \* per stream: what the peer sent and nobody read
          credit,         \* flow-control credit the peer has, 0 for the connection
          broken,         \* the connection no longer carries anything
          reader,         \* "absent", "reading", "dispatching" or "done"
          held,           \* the event the reader is dispatching
          queue,          \* per stream: the channel
          pending,        \* per stream: bytes received and not parsed yet
          main,           \* where the main goroutine is
          opened,         \* WebSockets opened so far
          phase,          \* "preflight", "warmup" or "measured"
          expired,        \* the phase's deadline has passed
          pc,             \* per stream: where its goroutine is
          index, ops,     \* messages of the group, groups of the phase
          failure,        \* per stream: the error its goroutine ended with
          active, peak,   \* the phase's atomics
          current, seen,  \* per stream: what it read of them
          results,        \* workers whose result the phase has received
          summary,        \* the phase's summary
          err,            \* the error runMultiMessageDiagnostic returns
          validation, exit,
          most,           \* history: the largest value of active
          answered,       \* history: streams on which the peer has sent its HEADERS
          surplus,        \* history: texts the peer sent between its HEADERS and a
                          \* close, less the messages it got
          peerClosed,     \* history: streams on which it has sent a close since them
          failed          \* history: some operation failed

peerVars == << peer, faults, validationOnly >>
linkVars == << wire, credit, broken, answered, surplus, peerClosed >>
readVars == << reader, held, queue >>
peakVars == << active, peak, current, seen, most >>
mainVars == << main, opened, phase, results, summary, err, validation, exit >>
workVars == << pending, pc, index, ops, failure, failed >>

sessionVars == << peerVars, linkVars, readVars, peakVars, mainVars, workVars, expired >>

NoEvent == [stream |-> 0, event |-> << >>]

emptySummary == [completed |-> 0, failed |-> 0, timedOut |-> 0]

Frame(kind) == << kind, "tail" >>

SessionInit ==
  /\ peer \in Peers /\ faults = 0 /\ validationOnly \in Flags
  /\ wire = [s \in Streams |-> << >>] /\ credit = [s \in 0..StreamCount |-> Window]
  /\ broken = FALSE
  /\ answered = {} /\ surplus = [s \in Streams |-> 0] /\ peerClosed = {}
  /\ reader = "absent" /\ held = NoEvent /\ queue = [s \in Streams |-> << >>]
  /\ active = 0 /\ peak = 0 /\ most = 0
  /\ current = [s \in Streams |-> 0] /\ seen = [s \in Streams |-> 0]
  /\ main = "dialing" /\ opened = 0 /\ phase = "preflight" /\ expired = FALSE
  /\ results = {} /\ summary = emptySummary /\ err = "none"
  /\ validation = "none" /\ exit = "none"
  /\ pending = [s \in Streams |-> << >>] /\ pc = [s \in Streams |-> "absent"]
  /\ index = [s \in Streams |-> 0] /\ ops = [s \in Streams |-> 0]
  /\ failure = [s \in Streams |-> "none"] /\ failed = FALSE

-----------------------------------------------------------------------------
(* The peer. *)

MayFail == peer = "arbitrary" /\ faults < MaxFaults /\ exit = "none"

(* What the peer puts on stream s for something the client wrote: the right *)
(* answer, or, at the price of a fault, a wrong one or none.                *)
Answer(s, right, wrong) ==
  \/ /\ wire' = [wire EXCEPT ![s] = @ \o right]
     /\ answered' = IF right = << "headers" >> THEN answered \cup {s} ELSE answered
     /\ surplus' = [surplus EXCEPT ![s] = IF right = Frame("text") /\ s \in peerClosed
                                            THEN @ - 1 ELSE @]
     /\ peerClosed' = IF right = Frame("close") THEN peerClosed \cup {s} ELSE peerClosed
     /\ UNCHANGED faults
  \/ /\ MayFail /\ faults' = faults + 1
     /\ \E w \in wrong : wire' = [wire EXCEPT ![s] = @ \o w]
     /\ surplus' = [surplus EXCEPT ![s] = IF right = Frame("text") THEN @ - 1 ELSE @]
     /\ UNCHANGED << answered, peerClosed >>

WrongFrames == {<< >>, << "reset" >>} \cup {Frame(k) : k \in {"other", "masked", "rsv"}}

(* A frame nobody asked for, on a stream that is open, that waits for its   *)
(* HEADERS or that the client has not opened yet.                           *)
Unsolicited(s, kind) ==
  /\ MayFail /\ main # "dialing" /\ faults' = faults + 1
  /\ wire' = [wire EXCEPT ![s] = @ \o Frame(kind)]
  /\ surplus' = [surplus EXCEPT ![s] =
                    IF kind = "text" /\ s \in answered \ peerClosed THEN @ + 1 ELSE @]
  /\ peerClosed' = IF kind = "close" THEN peerClosed \cup ({s} \cap answered) ELSE peerClosed
  /\ UNCHANGED << peer, validationOnly, credit, broken, answered, readVars, peakVars, mainVars,
                  workVars, expired >>

(* The next stream to be opened, and the streams in session.streams. *)
Next1 == opened + 1
registered(s) == s <= opened \/ (s = Next1 /\ main \in {"headers", "returned"})

(* The HEADERS that the peer owes, behind whatever it has sent. *)
LateHeaders(s) ==
  /\ MayFail /\ registered(s) /\ s \notin answered /\ faults' = faults + 1
  /\ wire' = [wire EXCEPT ![s] = Append(@, "headers")] /\ answered' = answered \cup {s}
  /\ UNCHANGED << peer, validationOnly, credit, broken, surplus, peerClosed, readVars, peakVars,
                  mainVars, workVars, expired >>

Break ==
  /\ MayFail /\ main # "dialing" /\ ~broken /\ faults' = faults + 1 /\ broken' = TRUE
  /\ UNCHANGED << peer, validationOnly, wire, credit, answered, surplus, peerClosed, readVars,
                  peakVars, mainVars, workVars, expired >>

-----------------------------------------------------------------------------
(* The reader goroutine. *)

(* The first n units of w are data: a DATA frame may carry them. *)
DataPrefix(w, n) == n <= Len(w) /\ \A i \in 1..n : w[i] \in Units

(* A DATA frame: both windows are given back before it is dispatched. *)
ReadDataStreamWindowKept(s, n) ==
  /\ reader = "reading" /\ ~broken
  /\ DataPrefix(wire[s], n) /\ n <= credit[s] /\ n <= credit[0]
  /\ wire' = [wire EXCEPT ![s] = SubSeq(@, n + 1, Len(@))]
  /\ credit' = [credit EXCEPT ![s] = @ - n]
  /\ reader' = "dispatching"
  /\ held' = [stream |-> s, event |-> SubSeq(wire[s], 1, n)]
  /\ UNCHANGED << peerVars, broken, answered, surplus, peerClosed, queue, peakVars, mainVars,
                  workVars, expired >>

ReadData(s, n) ==
  /\ reader = "reading" /\ ~broken
  /\ DataPrefix(wire[s], n) /\ n <= credit[s] /\ n <= credit[0]
  /\ wire' = [wire EXCEPT ![s] = SubSeq(@, n + 1, Len(@))]
  /\ LET sent == [credit EXCEPT ![s] = @ - n, ![0] = @ - n]
     IN credit' = [sent EXCEPT ![s] = @ + n, ![0] = @ + n]
  /\ reader' = "dispatching"
  /\ held' = [stream |-> s, event |-> SubSeq(wire[s], 1, n)]
  /\ UNCHANGED << peerVars, broken, answered, surplus, peerClosed, queue, peakVars, mainVars,
                  workVars, expired >>

(* HEADERS, with their CONTINUATIONs, and RST_STREAM. *)
ReadControl(s) ==
  /\ reader = "reading" /\ ~broken
  /\ wire[s] # << >> /\ Head(wire[s]) \in Controls
  /\ wire' = [wire EXCEPT ![s] = Tail(@)]
  /\ reader' = "dispatching"
  /\ held' = [stream |-> s, event |-> << Head(wire[s]) >>]
  /\ UNCHANGED << peerVars, credit, broken, answered, surplus, peerClosed, queue, peakVars,
                  mainVars, workVars, expired >>

(* dispatch: an event of a stream that is not registered is dropped; the    *)
(* send blocks while the channel is full. session.done, the other case of   *)
(* the select, is closed only by this goroutine.                            *)
dispatch ==
  LET s == held.stream
  IN /\ reader = "dispatching"
     /\ IF registered(s) THEN /\ Len(queue[s]) < Capacity
                              /\ queue' = [queue EXCEPT ![s] = Append(@, held.event)]
        ELSE UNCHANGED queue
     /\ reader' = "reading" /\ held' = NoEvent
     /\ UNCHANGED << peerVars, linkVars, peakVars, mainVars, workVars, expired >>

(* A read or write error, GOAWAY, a header block that cannot be decoded: the *)
(* reader stores its error and closes session.done.                         *)
ReaderStops ==
  /\ reader = "reading" /\ (broken \/ MayFail)
  /\ faults' = IF broken THEN faults ELSE faults + 1
  /\ reader' = "done"
  /\ UNCHANGED << peer, validationOnly, linkVars, held, queue, peakVars, mainVars,
                  workVars, expired >>

-----------------------------------------------------------------------------
(* The main goroutine opens the session, then the WebSockets one by one.    *)

(* Dial, certificate gate and SETTINGS_ENABLE_CONNECT_PROTOCOL; the reader   *)
(* starts. ctx ends the dial and not the wait for the settings, so a peer   *)
(* may leave it here for ever.                                              *)
openH2Session ==
  /\ main = "dialing"
  /\ \/ /\ main' = "opening" /\ reader' = "reading" /\ UNCHANGED << faults, err >>
     \/ /\ MayFail /\ faults' = faults + 1
        /\ main' = "returned" /\ err' \in {"failed", "timeout"} /\ UNCHANGED reader
  /\ UNCHANGED << peer, validationOnly, linkVars, held, queue, peakVars, opened, phase,
                  results, summary, validation, exit, workVars, expired >>

OpenWebSocket ==
  /\ main = "opening"
  /\ main' = "headers"
  /\ Answer(Next1, << "headers" >>, {<< >>, << "refused" >>, << "reset" >>, Frame("text")})
  /\ UNCHANGED << peer, validationOnly, credit, broken, readVars, peakVars, opened, phase,
                  results, summary, err, validation, exit, workVars, expired >>

(* readMultiplexedResponseHeaders drops DATA that precedes the headers. *)
ResponseHeaders ==
  LET event == Head(queue[Next1])
  IN /\ main = "headers" /\ queue[Next1] # << >>
     /\ queue' = [queue EXCEPT ![Next1] = Tail(@)]
     /\ CASE event = << "headers" >> ->
               /\ opened' = Next1
               /\ main' = IF Next1 = StreamCount THEN "phase" ELSE "opening"
               /\ UNCHANGED err
          [] event \in {<< "refused" >>, << "reset" >>} ->
               main' = "returned" /\ err' = "failed" /\ UNCHANGED opened
          [] OTHER -> UNCHANGED << main, opened, err >>
     /\ UNCHANGED << peerVars, linkVars, reader, held, peakVars, phase, results, summary,
                     validation, exit, workVars, expired >>

(* A write on a broken connection, the reader's end, or openCtx. *)
OpenFails ==
  /\ \/ main = "opening" /\ broken /\ err' = "failed"
     \/ main = "headers" /\ reader = "done" /\ err' = "failed"
     \/ main = "headers" /\ peer = "arbitrary" /\ err' = "timeout"
  /\ main' = "returned"
  /\ UNCHANGED << peerVars, linkVars, readVars, peakVars, opened, phase, results, summary,
                  validation, exit, workVars, expired >>

-----------------------------------------------------------------------------
(* runConcurrentMessagePhase *)

exactlyOne == phase = "preflight"

StartPhase ==
  /\ main = "phase"
  /\ main' = "collecting" /\ expired' = FALSE
  /\ results' = {} /\ summary' = emptySummary
  /\ pc' = [s \in Streams |-> "enter"] /\ ops' = [s \in Streams |-> 0]
  /\ UNCHANGED << peerVars, linkVars, readVars, peakVars, opened, phase, err, validation,
                  exit, pending, index, failure, failed >>

(* started.Add(duration) passes; in the preflight nobody looks at it. *)
Expire ==
  /\ main = "collecting" /\ ~exactlyOne /\ ~expired /\ expired' = TRUE
  /\ UNCHANGED << peerVars, linkVars, readVars, peakVars, mainVars, workVars >>

(* current := active.Add(1) *)
Enter(s) ==
  /\ pc[s] = "enter"
  /\ active' = active + 1 /\ current' = [current EXCEPT ![s] = active + 1]
  /\ most' = IF active + 1 > most THEN active + 1 ELSE most
  /\ pc' = [pc EXCEPT ![s] = "load"]
  /\ UNCHANGED << peerVars, linkVars, readVars, peak, seen, mainVars, pending, index, ops,
                  failure, failed, expired >>

(* observed := peak.Load(); current <= observed ends the loop. Both locals  *)
(* are cleared when the loop is left.                                       *)
LoadPeak(s) ==
  LET done == current[s] <= peak
  IN /\ pc[s] = "load"
     /\ seen' = [seen EXCEPT ![s] = IF done THEN 0 ELSE peak]
     /\ current' = [current EXCEPT ![s] = IF done THEN 0 ELSE @]
     /\ pc' = [pc EXCEPT ![s] = IF done THEN "loop" ELSE "swap"]
     /\ UNCHANGED << peerVars, linkVars, readVars, active, peak, most, mainVars,
                     pending, index, ops, failure, failed, expired >>

(* peak.CompareAndSwap(observed, current) *)
SwapPeak(s) ==
  /\ pc[s] = "swap"
  /\ IF peak = seen[s]
       THEN /\ peak' = current[s] /\ pc' = [pc EXCEPT ![s] = "loop"]
            /\ current' = [current EXCEPT ![s] = 0]
       ELSE UNCHANGED << peak, current >> /\ pc' = [pc EXCEPT ![s] = "load"]
  /\ seen' = [seen EXCEPT ![s] = 0]
  /\ UNCHANGED << peerVars, linkVars, readVars, active, most, mainVars,
                  pending, index, ops, failure, failed, expired >>

(* for exactlyOne || time.Now().Before(deadline) *)
BeginGroupFresh(s) ==
  /\ pc[s] = "loop" /\ (exactlyOne \/ ~expired) /\ ops[s] < MaxGroups
  /\ pc' = [pc EXCEPT ![s] = "write"] /\ index' = [index EXCEPT ![s] = 0]
  /\ pending' = [pending EXCEPT ![s] = << >>]
  /\ UNCHANGED << peerVars, linkVars, readVars, peakVars, mainVars, ops, failure,
                  failed, expired >>

BeginGroup(s) ==
  /\ pc[s] = "loop" /\ (exactlyOne \/ ~expired) /\ ops[s] < MaxGroups
  /\ pc' = [pc EXCEPT ![s] = "write"] /\ index' = [index EXCEPT ![s] = 0]
  /\ UNCHANGED << peerVars, linkVars, readVars, peakVars, mainVars, pending, ops, failure,
                  failed, expired >>

EndLoop(s) ==
  /\ pc[s] = "loop" /\ ~exactlyOne /\ expired
  /\ pc' = [pc EXCEPT ![s] = "send"]
  /\ UNCHANGED << peerVars, linkVars, readVars, peakVars, mainVars, pending, index, ops,
                  failure, failed, expired >>

(* WriteData of a message, or of the close frame. *)
WriteFrame(s) ==
  /\ \/ /\ pc[s] = "write" /\ pc' = [pc EXCEPT ![s] = "read"]
        /\ Answer(s, Frame("text"), WrongFrames)
     \/ /\ pc[s] = "closeWrite" /\ pc' = [pc EXCEPT ![s] = "closeRead"]
        /\ Answer(s, Frame("close"), WrongFrames)
  /\ UNCHANGED << peer, validationOnly, credit, broken, readVars, peakVars, mainVars,
                  pending, index, ops, failure, failed, expired >>

(* The operation of stream s ends in an error: a worker breaks out of its   *)
(* loop, a closer hands its error over.                                     *)
Fail(s, e) ==
  /\ pc' = [pc EXCEPT ![s] = IF @ \in {"write", "read"} THEN "send" ELSE "closed"]
  /\ failure' = [failure EXCEPT ![s] = e] /\ failed' = TRUE
  /\ UNCHANGED << index, ops >>

WriteFails(s) ==
  /\ pc[s] \in {"write", "closeWrite"} /\ broken
  /\ Fail(s, "failed")
  /\ UNCHANGED << peerVars, linkVars, readVars, peakVars, mainVars, pending, expired >>

-----------------------------------------------------------------------------
(* readWebSocketFrame *)

Reading(s) == pc[s] \in {"read", "closeRead"}
Parsed(s) == Len(pending[s]) >= 2

(* The response is compared with what was sent. *)
TakeFrame(s) ==
  /\ Reading(s) /\ Parsed(s)
  /\ pending' = [pending EXCEPT ![s] = SubSeq(@, 3, Len(@))]
  /\ CASE pc[s] = "read" /\ Head(pending[s]) = "text" ->
            LET last == index[s] + 1 = MessageCount
            IN /\ index' = [index EXCEPT ![s] = @ + 1]
               /\ ops' = IF last THEN [ops EXCEPT ![s] = @ + 1] ELSE ops
               /\ pc' = [pc EXCEPT ![s] = IF ~last THEN "write"
                                          ELSE IF exactlyOne THEN "send" ELSE "loop"]
               /\ UNCHANGED << failure, failed >>
       [] pc[s] = "closeRead" /\ Head(pending[s]) = "close" ->
            pc' = [pc EXCEPT ![s] = "closed"]
            /\ UNCHANGED << index, ops, failure, failed >>
       [] OTHER -> Fail(s, "failed")
  /\ UNCHANGED << peerVars, linkVars, readVars, peakVars, mainVars, expired >>

(* nextMultiplexedFrame: an event of the channel; headers carry no data. *)
TakeEvent(s) ==
  LET event == Head(queue[s])
  IN /\ Reading(s) /\ ~Parsed(s) /\ queue[s] # << >>
     /\ queue' = [queue EXCEPT ![s] = Tail(@)]
     /\ IF event = << "reset" >> THEN Fail(s, "failed") /\ UNCHANGED pending
        ELSE /\ pending' = [pending EXCEPT ![s] =
                              IF event[1] \in Controls THEN @ ELSE @ \o event]
             /\ UNCHANGED << pc, index, ops, failure, failed >>
     /\ UNCHANGED << peerVars, linkVars, reader, held, peakVars, mainVars, expired >>

(* The other cases of its select: session.done, and the context's deadline. *)
(* Either may be taken although an event is waiting.                        *)
ReadFailsOnlyDone(s) ==
  /\ Reading(s) /\ ~Parsed(s)
  /\ reader = "done" /\ Fail(s, "failed")
  /\ UNCHANGED << peerVars, linkVars, readVars, peakVars, mainVars, pending, expired >>

ReadFails(s) ==
  /\ Reading(s) /\ ~Parsed(s)
  /\ \/ reader = "done" /\ Fail(s, "failed")
     \/ peer = "arbitrary" /\ Fail(s, "timeout")
  /\ UNCHANGED << peerVars, linkVars, readVars, peakVars, mainVars, pending, expired >>

-----------------------------------------------------------------------------
(* A worker sends its result; the deferred active.Add(-1) follows. *)
Send(s) ==
  /\ pc[s] = "send" /\ pc' = [pc EXCEPT ![s] = "sent"]
  /\ index' = [index EXCEPT ![s] = 0]
  /\ UNCHANGED << peerVars, linkVars, readVars, peakVars, mainVars, pending, ops,
                  failure, failed, expired >>

Leave(s) ==
  /\ pc[s] = "sent" /\ main = "collecting"
  /\ active' = active - 1 /\ pc' = [pc EXCEPT ![s] = "left"]
  /\ UNCHANGED << peerVars, linkVars, readVars, peak, current, seen, most, mainVars,
                  pending, index, ops, failure, failed, expired >>

(* result := <-results. The first error received is the one returned. *)
Collect(s) ==
  /\ main = "collecting" /\ pc[s] \in {"sent", "left"} /\ s \notin results
  /\ results' = results \cup {s}
  /\ summary' = [summary EXCEPT
       !.completed = @ + ops[s],
       !.failed = @ + (IF failure[s] = "failed" THEN 1 ELSE 0),
       !.timedOut = @ + (IF failure[s] = "timeout" THEN 1 ELSE 0)]
  /\ err' = IF err = "none" THEN failure[s] ELSE err
  /\ UNCHANGED << peerVars, linkVars, readVars, peakVars, main, opened, phase, validation,
                  exit, workVars, expired >>

(* The phase returns, and its atomics with it; the concurrency error takes  *)
(* precedence. After the last phase the closers start.                      *)
EndPhase ==
  /\ main = "collecting" /\ results = Streams
  /\ err' = IF peak # StreamCount THEN "concurrency" ELSE err
  /\ IF err' # "none" THEN main' = "returned" /\ UNCHANGED << phase, pc >>
     ELSE IF phase = "measured" \/ validationOnly
       THEN /\ main' = "closing" /\ UNCHANGED phase
            /\ pc' = [s \in Streams |-> "closeWrite"]
       ELSE /\ main' = "phase" /\ UNCHANGED pc
            /\ phase' = IF phase = "preflight" THEN "warmup" ELSE "measured"
  /\ active' = 0 /\ peak' = 0 /\ most' = 0 /\ UNCHANGED << current, seen >>
  /\ UNCHANGED << peerVars, linkVars, readVars, opened, results, summary,
                  validation, exit, pending, index, ops, failure, failed, expired >>

(* closeWait.Wait(), then the first of closeErrors. *)
EndCloseNoTimeouts ==
  /\ main = "closing" /\ \A s \in Streams : pc[s] = "closed"
  /\ main' = "returned"
  /\ LET errors == {failure[s] : s \in Streams} \ {"none", "timeout"}
     IN IF errors = {} THEN UNCHANGED err ELSE err' \in errors
  /\ UNCHANGED << peerVars, linkVars, readVars, peakVars, opened, phase, results, summary,
                  validation, exit, workVars, expired >>

EndClose ==
  /\ main = "closing" /\ \A s \in Streams : pc[s] = "closed"
  /\ main' = "returned"
  /\ LET errors == {failure[s] : s \in Streams} \ {"none"}
     IN IF errors = {} THEN UNCHANGED err ELSE err' \in errors
  /\ UNCHANGED << peerVars, linkVars, readVars, peakVars, opened, phase, results, summary,
                  validation, exit, workVars, expired >>

(* main: a failure document, or the proof artifacts and then the gate. *)
Report ==
  /\ main = "returned" /\ exit = "none"
  /\ validation' = IF err = "none" THEN "passed" ELSE "failed"
  /\ exit' = IF err # "none" \/ summary.completed = 0 \/ summary.failed # 0
                \/ summary.timedOut # 0 THEN "1" ELSE "0"
  /\ UNCHANGED << peerVars, linkVars, readVars, peakVars, main, opened, phase, results,
                  summary, err, workVars, expired >>

ReaderStep ==
  \/ dispatch
  \/ \E s \in Streams : ReadControl(s) \/ \E n \in 1..3 : ReadData(s, n)

StreamStep(s) ==
  \/ Enter(s) \/ LoadPeak(s) \/ SwapPeak(s) \/ BeginGroup(s) \/ EndLoop(s)
  \/ WriteFrame(s) \/ WriteFails(s) \/ TakeFrame(s) \/ TakeEvent(s) \/ ReadFails(s)
  \/ Send(s) \/ Leave(s)

MainStep ==
  \/ OpenWebSocket \/ ResponseHeaders \/ OpenFails \/ StartPhase
  \/ (\E s \in Streams : Collect(s)) \/ EndPhase \/ EndClose \/ Report

PeerStep ==
  \/ Break \/ ReaderStops
  \/ \E s \in Streams, kind \in {"text", "close"} : Unsolicited(s, kind)
  \/ \E s \in Streams : LateHeaders(s)

SessionNext == openH2Session \/ ReaderStep \/ MainStep \/ Expire \/ PeerStep
               \/ \E s \in Streams : StreamStep(s)

SessionSpec == SessionInit /\ [][SessionNext]_sessionVars

(* What goes on without the peer's doing: goroutines are scheduled, clocks  *)
(* run, and a broken connection ends the reader. An echo peer also answers. *)
SessionProgress ==
  \/ ReaderStep \/ MainStep \/ Expire
  \/ broken /\ ReaderStops
  \/ peer = "echo" /\ openH2Session
  \/ \E s \in Streams : StreamStep(s)

(* Something goes on as long as something can; a phase has finitely much to *)
(* do. Nothing obliges the peer to make a fault.                            *)
FairSessionSpec == SessionSpec /\ WF_sessionVars(SessionProgress)

-----------------------------------------------------------------------------
Events == [stream : 0..StreamCount, event : Seq(Units \cup Controls)]

(* The variables keep their types; no channel is filled past its capacity,  *)
(* no flow-control window grows past its initial size.                      *)
SessionTypeOK ==
  /\ peer \in Peers /\ faults \in 0..MaxFaults /\ validationOnly \in BOOLEAN
  /\ wire \in [Streams -> Seq(Units \cup Controls)]
  /\ credit \in [0..StreamCount -> 0..Window] /\ broken \in BOOLEAN
  /\ reader \in {"absent", "reading", "dispatching", "done"} /\ held \in Events
  /\ \A s \in Streams : Len(queue[s]) <= Capacity /\ pending[s] \in Seq(Units)
  /\ main \in {"dialing", "opening", "headers", "phase", "collecting", "closing", "returned"}
  /\ opened \in 0..StreamCount /\ phase \in {"preflight", "warmup", "measured"}
  /\ pc \in [Streams -> {"absent", "enter", "load", "swap", "loop", "write", "read",
                         "send", "sent", "left", "closeWrite", "closeRead", "closed"}]
  /\ index \in [Streams -> 0..MessageCount] /\ ops \in [Streams -> 0..MaxGroups]
  /\ failure \in [Streams -> {"none", "failed", "timeout"}]
  /\ active \in 0..StreamCount /\ peak \in 0..StreamCount
  /\ err \in {"none", "failed", "timeout", "concurrency"}
  /\ validation \in {"none", "passed", "failed"} /\ exit \in {"none", "0", "1"}

(* A run whose validation passes paired the texts that the peer sent since  *)
(* its response HEADERS with its messages one to one on every stream: a     *)
(* duplicated or unsolicited text shifts every later response by one and is *)
(* noticed by the close at the latest, although all payloads are equal and  *)
(* bytes stay in pending from one group to the next. Texts sent before the  *)
(* HEADERS never shift a response: dispatch, while the stream is not        *)
(* registered, and readMultiplexedResponseHeaders drop them unnoticed.      *)
PassedIsOneToOne ==
  validation = "passed" => \A s \in Streams : surplus[s] = 0 /\ s \in peerClosed

(* An error of any worker in any phase, the warm-up's and the closers'      *)
(* included, keeps the run from passing, whichever result arrives first.    *)
FailureIsNotMasked == failed => validation # "passed" /\ exit # "0"

(* The lock-free maximum is exact when the phase reads it: with all results *)
(* received, peak is the largest value active ever had in the phase.        *)
PeakIsExact == main = "collecting" /\ results = Streams => peak = most

(* The variables keep their types, and what runConcurrentMessagePhase and   *)
(* main report of the phases is what happened in them.                      *)
SessionReportIsTrue == SessionTypeOK /\ FailureIsNotMasked /\ PeakIsExact

(* Once the session is open the process ends whatever the peer does: no    *)
(* full channel, no dead reader and no silent stream keeps a goroutine      *)
(* waiting for ever.                                                        *)
SessionEnds == main # "dialing" ~> exit # "none"

(* With a peer that answers in time, the reader is never stuck and no       *)
(* operation fails: the run passes, unless the workers happened not to      *)
(* overlap.                                                                 *)
EchoPeerPasses ==
  peer = "echo" ~> exit # "none" /\ (validation = "passed" \/ err = "concurrency")
=============================================================================
