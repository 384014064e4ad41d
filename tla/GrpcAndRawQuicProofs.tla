------------------------ MODULE GrpcAndRawQuicProofs ------------------------
(***************************************************************************)
(* Proofs about two executors that drive one stream at a time: the gRPC    *)
(* executor (GrpcChannel) and the stream of the raw QUIC client and server *)
(* (RawQuicStream). The two share no state and no lemma.                   *)
(***************************************************************************)
EXTENDS GrpcChannel, RawQuicStream, TLAPS

-----------------------------------------------------------------------------
(***************************************************************************)
(* Proofs for GrpcChannel, for every number of channels, and whatever a    *)
(* server under test sends.                                                *)
(*                                                                         *)
(* That exit code 0 is earned needs what the executor has read at each of  *)
(* its steps (ExecutorReads) and that a server speaks in the order gRPC    *)
(* prescribes (WellFormed). That the packaged pair passes needs the        *)
(* target's side: in each mode its log is the expected answer as far as it *)
(* has got, and a request still to be answered is somewhere between the    *)
(* executor and the handler (PackagedInv).                                 *)
(***************************************************************************)

(* What a server may answer first, and after that. *)
First == {Headers(TRUE), Headers(FALSE), Reset}
Later == {Message(TRUE), Message(FALSE), Trailers("0"), Trailers("none"), Reset}
Events == First \cup Later

(* The one call shape in which requests and responses alternate. *)
bidirectional == rpc.requests > 1 /\ rpc.responses > 1

(* How many calls a run makes: one for each channel it opens, or one. *)
Calls == IF rpc.newChannel THEN ChannelOps ELSE 1

(* The variables keep their types. *)
GrpcTypes ==
  /\ target \in {"packaged", "foreign"}
  /\ at \in {"select", "open", "roundtrip", "judge", "body", "cancel", "exit"}
  /\ warm \in BOOLEAN /\ done \in Nat /\ opened \in Nat /\ read \in Nat
  /\ elapsed \in Nat /\ started \in Nat /\ started <= elapsed /\ held \in Nat /\ latency \in Nat
  /\ took \in Nat /\ unsent \in Nat
  /\ up \in Seq({"message", "end"}) /\ down \in Seq(Events) /\ log \in Seq(Events)
  /\ code \in {NoCode, 0, 1, 2}

(* A run that has not exited has no exit code; past the selection the       *)
(* scenario is a supported one, unless it was refused with code 2.          *)
Selected ==
  /\ at # "exit" <=> code = NoCode
  /\ at # "select" /\ code # 2 => selection.scenario \in DOMAIN specFor

(* Every channel that was opened before this one served one call that was   *)
(* counted.                                                                 *)
Counting ==
  /\ at = "select" => done = 0 /\ opened = 0
  /\ at = "open" => opened = done /\ done < Calls
  /\ open => opened = done + 1 /\ done < Calls

(* What the stream carries: headers first, and nothing after its end. *)
WellFormed ==
  \A i \in 1..Len(log) : /\ log[i] \in IF i = 1 THEN First ELSE Later
                         /\ log[i].type \in {"trailers", "reset"} => i = Len(log)

(* The first seen events of the log have been read, the others are in flight. *)
Reading(seen) ==
  /\ Len(down) + seen = Len(log)
  /\ \A i \in 1..Len(down) : down[i] = log[seen + i]

(* What the executor has read of the response at each of its steps: the     *)
(* headers first, then messages that were all right.                        *)
ExecutorReads ==
  /\ at = "roundtrip" => read = 0 /\ Reading(0)
  /\ at \in {"body", "cancel"} =>
       /\ Reading(read + 1) /\ log[1] # Reset /\ read <= rpc.responses
       /\ \A i \in 1..read : log[i + 1] = Message(TRUE)
  /\ at = "body" => rpc.mode \in {"echo", "trailers-only"}
  /\ at = "cancel" => rpc.mode = "client-cancellation" /\ read = 0
  /\ at = "judge" => rpc.mode = "deadline-exceeded"

(* The packaged target's answer, as far as it has got. *)
Expect(i) == IF i = 1 THEN Headers(TRUE) ELSE IF i <= rpc.responses + 1 THEN Message(TRUE)
             ELSE Trailers(IF rpc.mode = "echo" THEN "0" ELSE "none")

(* Everything the target sent is what the scenario expects at its place. *)
RightLog ==
  /\ Len(log) <= rpc.responses + 2
  /\ \A i \in 1..Len(log) : log[i] = Expect(i)

(* The requests still on their way: messages, with the end of the stream    *)
(* last once the executor has nothing left to send.                         *)
UpStream ==
  /\ unsent = 0 => up # << >>
  /\ \A i \in 1..Len(up) : up[i] = IF unsent = 0 /\ i = Len(up) THEN "end" ELSE "message"

(* The packaged bidirectional handler: it answers each request with one     *)
(* message, so requests unsent, under way, taken and answered always add    *)
(* up.                                                                      *)
BidirectionalInv ==
  /\ RightLog /\ handler \in {"reading", "returned"}
  /\ handler = "reading" =>
       /\ UpStream /\ took \in {0, 1}
       /\ IF log = << >> THEN unsent + Len(up) + took = rpc.requests + 1
          ELSE unsent + Len(up) + took + Len(log) = rpc.requests + 2

(* The packaged handler of the other echo scenarios: it reads everything,   *)
(* then writes what is due.                                                 *)
ResponseInv ==
  /\ RightLog /\ handler \in {"reading", "writing", "returned"}
  /\ handler = "reading" => log = << >>
  /\ handler = "writing" => log # << >> /\ Len(log) + took = rpc.responses + 1

(* The packaged handler of the cancellation scenario: at most headers,      *)
(* then it holds the call.                                                  *)
CancellationInv ==
  /\ RightLog /\ Len(log) <= 1 /\ handler \in {"reading", "holding"}
  /\ handler = "reading" => log = << >>

(* The packaged handler of the deadline scenario: it answers, wrongly,      *)
(* only after it has held the call for as long as it said, from a time      *)
(* after the executor has looked at its clock. A call judged without a      *)
(* deadline error has therefore lasted too long.                            *)
DeadlineInv ==
  /\ handler \in {"reading", "holding", "returned"}
  /\ handler = "holding" => started <= held
  /\ log # << >> => /\ handler = "returned" /\ log = << Headers(FALSE) >>
                    /\ elapsed - started >= targetHolds
  /\ handler = "returned" => log # << >>
  /\ at = "judge" =>
       /\ log # << >> \/ failed = "no" => latency >= latest
       /\ failed = "deadline" => latency + started >= clientDeadline
       /\ failed \in {"no", "deadline", "error"}
       /\ failed = "error" => fault

(* What the packaged target guarantees in each mode. *)
PackagedInv ==
  /\ bidirectional => BidirectionalInv
  /\ ~bidirectional /\ rpc.mode \in {"echo", "trailers-only"} => ResponseInv
  /\ rpc.mode = "client-cancellation" => CancellationInv
  /\ rpc.mode = "deadline-exceeded" => DeadlineInv

(* The three together, while a call is under way. *)
StreamOpen == open => WellFormed /\ ExecutorReads /\ (target = "packaged" => PackagedInv)

(* The inductive invariant. *)
GrpcInv ==
  /\ GrpcTypes /\ Selected /\ Counting /\ StreamOpen
  /\ GrpcPassIsEarned /\ PackagedGrpcPasses

-----------------------------------------------------------------------------
(* The fields of the events that a server sends. *)
LEMMA Kinds ==
  /\ Headers(TRUE).type = "headers" /\ Headers(TRUE).right = TRUE
  /\ Headers(FALSE).type = "headers" /\ Headers(FALSE).right = FALSE
  /\ Message(TRUE).type = "message" /\ Message(TRUE).right = TRUE
  /\ Message(FALSE).type = "message" /\ Message(FALSE).right = FALSE
  /\ Trailers("0").type = "trailers" /\ Trailers("0").status = "0"
  /\ Trailers("none").type = "trailers" /\ Trailers("none").status = "none"
  /\ Reset.type = "reset"
BY Zenon DEF Headers, Message, Trailers, Reset

(* The events are those the types allow. *)
LEMMA Members ==
  /\ Headers(TRUE) \in First /\ Headers(FALSE) \in First /\ Message(TRUE) \in Later
  /\ Trailers("0") \in Later /\ Trailers("none") \in Later
  /\ \A m \in First : m \in Events
  /\ \A m \in Later : m \in Events
BY Zenon DEF First, Later, Events

(* What specFor says of every supported scenario. *)
LEMMA RpcFacts ==
  ASSUME selection.scenario \in DOMAIN specFor
  PROVE  /\ rpc.requests \in Nat /\ rpc.requests > 0 /\ rpc.responses \in Nat
         /\ rpc.mode \in {"echo", "trailers-only", "client-cancellation", "deadline-exceeded"}
         /\ rpc.newChannel \in BOOLEAN
         /\ rpc.mode # "echo" => rpc.requests = 1 /\ rpc.responses = 0
         /\ bidirectional => rpc.requests = rpc.responses
<1> DEFINE id == selection.scenario
           Fits(r) == /\ r.requests \in Nat /\ r.requests > 0 /\ r.responses \in Nat
                      /\ r.mode \in {"echo", "trailers-only", "client-cancellation",
                                     "deadline-exceeded"}
                      /\ r.newChannel \in BOOLEAN
                      /\ r.mode # "echo" => r.requests = 1 /\ r.responses = 0
                      /\ r.requests > 1 /\ r.responses > 1 => r.requests = r.responses
<1>1. Fits(identitySpec)
  BY SMT DEF identitySpec
<1>2. Fits([identitySpec EXCEPT !.newChannel = TRUE])
  BY SMT DEF identitySpec
<1>3. \A a, b \in {1, StreamMessages} : Fits(streamingSpec(a, b))
  BY GrpcAssumption, SMT DEF streamingSpec, identitySpec
<1>4. \A w \in {"trailers-only", "client-cancellation", "deadline-exceeded"} :
        Fits(terminalSpec(w))
  BY SMT DEF terminalSpec, identitySpec
<1>5. Fits(specFor[id])
  <2> HIDE DEF Fits
  <2>1. id \in {"unaryEcho", "unaryEmpty", "unaryMetadata", "unaryGzip", "unaryLarge",
                "serverStreaming", "clientStreaming", "bidiStreaming", "trailersOnly",
                "deadlineExceeded", "clientCancellation", "echoNewChannel"}
    BY SMT DEF specFor
  <2>2. /\ \A x \in {"unaryEcho", "unaryEmpty", "unaryMetadata", "unaryGzip", "unaryLarge"} :
             specFor[x] = identitySpec
        /\ specFor["serverStreaming"] = streamingSpec(1, StreamMessages)
        /\ specFor["clientStreaming"] = streamingSpec(StreamMessages, 1)
        /\ specFor["bidiStreaming"] = streamingSpec(StreamMessages, StreamMessages)
        /\ specFor["trailersOnly"] = terminalSpec("trailers-only")
        /\ specFor["deadlineExceeded"] = terminalSpec("deadline-exceeded")
        /\ specFor["clientCancellation"] = terminalSpec("client-cancellation")
        /\ specFor["echoNewChannel"] = [identitySpec EXCEPT !.newChannel = TRUE]
    BY SMT DEF specFor
  <2>3. /\ Fits(streamingSpec(1, StreamMessages)) /\ Fits(streamingSpec(StreamMessages, 1))
        /\ Fits(streamingSpec(StreamMessages, StreamMessages))
    BY <1>3, Zenon
  <2>4. CASE id \in {"unaryEcho", "unaryEmpty", "unaryMetadata", "unaryGzip", "unaryLarge",
                     "echoNewChannel"}
    BY <2>4, <2>2, <1>1, <1>2, Zenon
  <2>5. CASE id \in {"serverStreaming", "clientStreaming", "bidiStreaming"}
    BY <2>5, <2>2, <2>3, Zenon
  <2>6. CASE id \in {"trailersOnly", "deadlineExceeded", "clientCancellation"}
    BY <2>6, <2>2, <1>4, Zenon
  <2> QED BY <2>1, <2>4, <2>5, <2>6, Zenon
<1> QED BY <1>5, Zenon DEF rpc, bidirectional

(* The constants of the deadline scenario, in steps of 10 ms. *)
LEMMA Numbers ==
  /\ clientDeadline = 5 /\ earliest = 4 /\ latest = 25 /\ targetHolds = 25
  /\ NoCode # 0 /\ NoCode # 1 /\ NoCode # 2 /\ ChannelOps \in Nat /\ ChannelOps > 0
BY GrpcAssumption, SMT DEF clientDeadline, earliest, latest, targetHolds, NoCode

(* The empty sequence. *)
LEMMA Empties == ASSUME NEW S PROVE << >> \in Seq(S) /\ Len(<< >>) = 0
OBVIOUS

(* One more event, said and not yet read. *)
LEMMA SaidIsRead ==
  ASSUME down \in Seq(Events), log \in Seq(Events), NEW m \in Events, NEW seen \in Nat,
         Reading(seen)
  PROVE  /\ Append(down, m) \in Seq(Events)
         /\ Len(Append(down, m)) + seen = Len(Append(log, m))
         /\ \A i \in 1..Len(Append(down, m)) : Append(down, m)[i] = Append(log, m)[seen + i]
BY DEF Reading

(* What the target sends is added at the end of its log. *)
LEMMA Appended ==
  ASSUME log \in Seq(Events), NEW m \in Events
  PROVE  /\ Append(log, m) \in Seq(Events) /\ Len(Append(log, m)) = Len(log) + 1
         /\ Len(log) \in Nat /\ Append(log, m) # << >> /\ Append(log, m)[Len(log) + 1] = m
         /\ 1..(Len(log) + 1) = 1..Len(log) \cup {Len(log) + 1}
         /\ \A i \in 1..Len(log) : Append(log, m)[i] = log[i]
OBVIOUS

(* The next unread event is taken. *)
LEMMA TakenIsRead ==
  ASSUME down \in Seq(Events), log \in Seq(Events), NEW seen \in Nat, down # << >>,
         Reading(seen)
  PROVE  /\ Tail(down) \in Seq(Events) /\ Len(Tail(down)) + (seen + 1) = Len(log)
         /\ \A i \in 1..Len(Tail(down)) : Tail(down)[i] = log[seen + 1 + i]
         /\ Head(down) = log[seen + 1] /\ seen + 1 \in 1..Len(log) /\ seen + 1 \in Nat
         /\ 1 \in 1..Len(log) /\ Head(down) \in Events
BY DEF Reading

(* An answer of n messages, event by event. *)
LEMMA WholeAnswer ==
  ASSUME NEW l \in Seq(Events), NEW n \in Nat, Len(l) = n + 2, l[1] = Headers(TRUE),
         l[n + 2] = Trailers("0"), \A i \in 1..n : l[i + 1] = Message(TRUE)
  PROVE  l = << Headers(TRUE) >> \o [i \in 1..n |-> Message(TRUE)] \o << Trailers("0") >>
<1> DEFINE Full(h, m, t) == << h >> \o [i \in 1..n |-> m] \o << t >>
           Same(h, m, t) == l[1] = h /\ l[n + 2] = t /\ (\A i \in 1..n : l[i + 1] = m)
                              => l = Full(h, m, t)
<1>1. ASSUME NEW h \in Events, NEW m \in Events, NEW t \in Events PROVE Same(h, m, t)
  <2> SUFFICES ASSUME l[1] = h, l[n + 2] = t, \A i \in 1..n : l[i + 1] = m
               PROVE  l = Full(h, m, t)
    BY Zenon
  <2> DEFINE w == Full(h, m, t)
  <2>1. w \in Seq(Events) /\ Len(w) = n + 2 /\ w[1] = h /\ w[n + 2] = t
        /\ \A i \in 1..n : w[i + 1] = m
    OBVIOUS
  <2> HIDE DEF w
  <2>2. ASSUME NEW i \in 1..Len(l) PROVE l[i] = w[i]
    <3>1. i = 1 \/ i = n + 2 \/ (i - 1 \in 1..n /\ (i - 1) + 1 = i)  BY SMT
    <3> QED BY <3>1, <2>1, Zenon
  <2>3. l = w  BY <2>1, <2>2, SMT
  <2> QED BY <2>3 DEF w
<1>2. Same(Headers(TRUE), Message(TRUE), Trailers("0"))
  <2> HIDE DEF Same
  <2>1. Headers(TRUE) \in Events /\ Message(TRUE) \in Events /\ Trailers("0") \in Events
    BY Members, Zenon
  <2> QED BY <2>1, <1>1, Zenon
<1> QED BY <1>2, Zenon

-----------------------------------------------------------------------------
(* The invariant holds before the executor has read its arguments. *)
LEMMA GrpcInitInv == GrpcInit => GrpcInv
<1> SUFFICES ASSUME GrpcInit PROVE GrpcInv  OBVIOUS
<1>1. at = "select" /\ code = NoCode /\ done = 0 /\ opened = 0
  BY Zenon DEF GrpcInit
<1>2. GrpcTypes
  <2>1. 0 \in Nat /\ 0 <= 0  BY SMT
  <2> QED BY <2>1, Empties, Zenon DEF GrpcInit, GrpcTypes
<1>3. Selected /\ Counting /\ StreamOpen  BY <1>1, Zenon DEF Selected, Counting, StreamOpen, open
<1>4. GrpcPassIsEarned /\ PackagedGrpcPasses
  BY <1>1, Numbers, Zenon DEF GrpcPassIsEarned, PackagedGrpcPasses
<1> QED BY <1>2, <1>3, <1>4, Zenon DEF GrpcInv

(* The call's specification is fixed with the selection. *)
LEMMA KeepRpc ==
  ASSUME selection' = selection
  PROVE  rpc' = rpc /\ (bidirectional' <=> bidirectional) /\ Calls' = Calls
BY Zenon DEF rpc, bidirectional, Calls

(* Opening a stream establishes the invariant for the call. *)
LEMMA NewStreamInv ==
  ASSUME selection.scenario \in DOMAIN specFor, NewStream,
         UNCHANGED << selection, target, code >>, code = NoCode,
         target \in {"packaged", "foreign"}, warm' \in BOOLEAN,
         done' \in Nat, opened' = done' + 1, done' < Calls
  PROVE  GrpcInv'
<1>1. /\ at' = "roundtrip" /\ up' = << >> /\ down' = << >> /\ unsent' = rpc.requests + 1
      /\ handler' = "reading" /\ took' = 0 /\ read' = 0 /\ elapsed' = started' /\ held' = 0
      /\ latency' = 0 /\ log' = << >>
  BY Zenon DEF NewStream
<1>r. rpc' = rpc /\ (bidirectional' <=> bidirectional) /\ Calls' = Calls  BY KeepRpc, Zenon
<1>n. /\ rpc.requests + 1 \in Nat /\ rpc.requests + 1 # 0 /\ 0 <= 0 /\ 0 \in Nat
      /\ opened' \in Nat /\ 0 + 0 = 0 /\ rpc.requests + 1 + 0 + 0 = rpc.requests + 1
      /\ 0 <= rpc.responses + 2 /\ 0 <= 1
  <2>1. rpc.requests \in Nat /\ rpc.responses \in Nat  BY RpcFacts, Zenon
  <2>2. \A a, b \in Nat : /\ a + 1 \in Nat /\ a + 1 # 0 /\ 0 <= 0 /\ 0 \in Nat /\ 0 + 0 = 0
                         /\ a + 1 + 0 + 0 = a + 1 /\ 0 <= b + 2 /\ 0 <= 1
    BY SMT
  <2> QED BY <2>1, <2>2, Zenon
<1>e. Len(log') = 0 /\ Len(down') = 0 /\ Len(up') = 0 /\ \A i : ~(i \in 1..0)
  BY <1>1, Empties, SMT
<1>s. started' \in Nat /\ started' <= elapsed'
  <2>1. started' \in Pauses \cup {0}  BY Zenon DEF NewStream
  <2> QED BY <2>1, <1>1, GrpcAssumption, SMT
<1>2. GrpcTypes'  BY <1>1, <1>n, <1>s, Empties, Zenon DEF GrpcTypes
<1>3. Selected' /\ Counting'  BY <1>1, <1>r, Zenon DEF Selected, Counting, open
<1>4. WellFormed' /\ ExecutorReads'
  BY <1>1, <1>e, <1>n, Zenon DEF WellFormed, ExecutorReads, Reading
<1>5. RightLog'  BY <1>e, <1>n, <1>r, Zenon DEF RightLog
<1>6. BidirectionalInv'
  BY <1>1, <1>5, <1>e, <1>n, <1>r, Zenon DEF BidirectionalInv, UpStream
<1>7. ResponseInv' /\ CancellationInv'
  BY <1>1, <1>5, <1>e, <1>n, Zenon DEF ResponseInv, CancellationInv
<1>8. DeadlineInv'  BY <1>1, <1>n, Zenon DEF DeadlineInv
<1>9. StreamOpen'  BY <1>4, <1>6, <1>7, <1>8, Zenon DEF StreamOpen, PackagedInv
<1>10. GrpcPassIsEarned' /\ PackagedGrpcPasses'
  BY Numbers, Zenon DEF GrpcPassIsEarned, PackagedGrpcPasses
<1> QED BY <1>2, <1>3, <1>9, <1>10, Zenon DEF GrpcInv

(* main's choice of the scenario keeps the invariant. *)
LEMMA SelectInv == ASSUME GrpcInv, Select PROVE GrpcInv'
<1>1. /\ at = "select" /\ UNCHANGED << selection, target, done, opened, cancelled, fault >>
      /\ UNCHANGED << up, down, unsent, handler, took, read, elapsed, started, held, latency,
                      failed, log >>
  BY Zenon DEF Select, streamVars
<1>2. \/ /\ selection.scenario \in DOMAIN specFor /\ at' = "open" /\ code' = code
         /\ warm' = (selection.profile = "smoke")
      \/ at' = "exit" /\ code' = 2 /\ warm' = warm
  BY Zenon DEF Select, ExitWith
<1>c. code = NoCode /\ done = 0 /\ opened = 0  BY <1>1, Zenon DEF GrpcInv, Selected, Counting
<1>b. warm' \in BOOLEAN  BY <1>2, Zenon DEF GrpcInv, GrpcTypes
<1>3. GrpcTypes'  BY <1>1, <1>2, <1>b, Zenon DEF GrpcInv, GrpcTypes
<1>4. Selected'  BY <1>1, <1>2, <1>c, Numbers, Zenon DEF Selected
<1>5. Counting'
  <2>1. 0 < Calls
    <3>1. 0 < 1 /\ 0 < ChannelOps  BY Numbers, SMT
    <3> QED BY <3>1, Zenon DEF Calls
  <2> QED BY <2>1, <1>1, <1>2, <1>c, KeepRpc, Zenon DEF Counting, open
<1>6. StreamOpen'  BY <1>2, Zenon DEF StreamOpen, open
<1>7. code' # 0 /\ code' # 1
  <2>1. 2 # 0 /\ 2 # 1  BY SMT
  <2> QED BY <2>1, <1>2, <1>c, Numbers, Zenon
<1>8. GrpcPassIsEarned' /\ PackagedGrpcPasses'
  BY <1>7, Zenon DEF GrpcPassIsEarned, PackagedGrpcPasses
<1> QED BY <1>3, <1>4, <1>5, <1>6, <1>8, Zenon DEF GrpcInv

(* What makes a correct peer fail the deadline scenario: the executor has   *)
(* looked too late, at the end of its context or before its beginning.      *)
Slow == rpc.mode = "deadline-exceeded" /\ (latency >= latest \/ started > clientDeadline - earliest)

(* An exit with code 1 that a fault explains, or the slow executor. *)
LEMMA FailedExitInv ==
  ASSUME GrpcInv, selection.scenario \in DOMAIN specFor, at' = "exit", code' = 1,
         UNCHANGED << selection, target, warm, done, opened, up, down, unsent, took, read,
                      elapsed, started, held, latency, log >>,
         target = "packaged" => fault' \/ Slow
  PROVE  GrpcInv'
<1>n. 1 # 0 /\ 1 # 2  BY SMT
<1>1. GrpcTypes'  BY Zenon DEF GrpcInv, GrpcTypes
<1>2. Selected'  BY Numbers, Zenon DEF Selected
<1>3. Counting' /\ StreamOpen'  BY Zenon DEF Counting, StreamOpen, open
<1>4. GrpcPassIsEarned'  BY <1>n, Zenon DEF GrpcPassIsEarned
<1>5. PackagedGrpcPasses'  BY KeepRpc, Zenon DEF PackagedGrpcPasses, Slow
<1> QED BY <1>1, <1>2, <1>3, <1>4, <1>5, Zenon DEF GrpcInv

(* A new channel for the next call keeps the invariant. *)
LEMMA OpenChannelInv == ASSUME GrpcInv, OpenChannel PROVE GrpcInv'
<1>1. /\ at = "open" /\ UNCHANGED << selection, target, warm, done, cancelled >>
  BY Zenon DEF OpenChannel
<1>c. /\ code = NoCode /\ opened = done /\ done < Calls /\ selection.scenario \in DOMAIN specFor
      /\ done \in Nat /\ warm \in BOOLEAN /\ target \in {"packaged", "foreign"}
  BY <1>1, Numbers, Zenon DEF GrpcInv, GrpcTypes, Selected, Counting
<1>2. CASE NewStream /\ opened' = opened + 1 /\ UNCHANGED << code, fault >>
  <2>1. opened' = done' + 1 /\ done' \in Nat /\ done' < Calls /\ warm' \in BOOLEAN
    BY <1>1, <1>2, <1>c, Zenon
  <2> QED BY <1>1, <1>2, <1>c, <2>1, NewStreamInv, Zenon
<1>3. CASE ExitWith(1) /\ fault' = TRUE /\ UNCHANGED << opened, streamVars >>
  <2>1. /\ at' = "exit" /\ code' = 1 /\ fault' /\ opened' = opened
        /\ UNCHANGED << up, down, unsent, took, read, elapsed, started, held, latency, log >>
    BY <1>3, Zenon DEF ExitWith, streamVars
  <2> QED BY <1>1, <1>c, <2>1, FailedExitInv, Zenon
<1> QED BY <1>2, <1>3, Zenon DEF OpenChannel

(* What the log of a passed call says. *)
PassedLog ==
  CASE rpc.mode = "echo" ->
         log = << Headers(TRUE) >> \o [i \in 1 .. rpc.responses |-> Message(TRUE)]
                                   \o << Trailers("0") >>
    [] rpc.mode = "trailers-only" ->
         Len(log) = 2 /\ log[1] = Headers(TRUE) /\ log[2].type = "trailers"
    [] rpc.mode = "client-cancellation" -> log[1] = Headers(TRUE)
    [] rpc.mode = "deadline-exceeded" -> target = "packaged" => log = << >>

(* The end of a call keeps the invariant, provided that a call taken for    *)
(* passed has the right log and that a packaged target is only failed by a  *)
(* fault of the network or by a slow executor.                              *)
LEMMA CallOverInv ==
  ASSUME GrpcInv, open, NEW earned \in BOOLEAN, CallOver(earned),
         earned => PassedLog,
         ~earned /\ target = "packaged" => fault' \/ Slow
  PROVE  GrpcInv'
<1>1. UNCHANGED << selection, target, opened >>  BY Zenon DEF CallOver
<1>c. /\ code = NoCode /\ opened = done + 1 /\ done < Calls
      /\ selection.scenario \in DOMAIN specFor /\ opened \in Nat
      /\ done \in Nat /\ warm \in BOOLEAN /\ target \in {"packaged", "foreign"}
  BY Numbers, Zenon DEF GrpcInv, GrpcTypes, Selected, Counting, open
<1>r. rpc' = rpc /\ Calls' = Calls  BY <1>1, KeepRpc, Zenon
<1>2. CASE ~earned
  <2>1. /\ at' = "exit" /\ code' = 1 /\ warm' = warm /\ done' = done
        /\ UNCHANGED << up, down, unsent, took, read, elapsed, started, held, latency, log >>
    BY <1>2, Zenon DEF CallOver, ExitWith, streamVars
  <2> QED BY <1>1, <1>2, <1>c, <2>1, FailedExitInv, Zenon
<1>3. CASE earned /\ warm
  <2>1. NewStream /\ warm' = FALSE /\ done' = done /\ code' = code
    BY <1>3, Zenon DEF CallOver
  <2>2. warm' \in BOOLEAN /\ opened' = done' + 1 /\ done' \in Nat /\ done' < Calls
    BY <1>1, <1>c, <2>1, Zenon
  <2> QED BY <1>1, <1>c, <2>1, <2>2, NewStreamInv, Zenon
<1>4. CASE earned /\ ~warm
  <2>1. /\ done' = done + 1 /\ warm' = warm
        /\ IF rpc.newChannel /\ done + 1 < ChannelOps THEN at' = "open" /\ code' = code
           ELSE at' = "exit" /\ code' = 0
        /\ UNCHANGED << up, down, unsent, took, read, elapsed, started, held, latency, log >>
    BY <1>4, Zenon DEF CallOver, ExitWith, streamVars
  <2>2. done' \in Nat /\ done' = opened' /\ 0 # 1 /\ 0 # 2  BY <1>1, <1>c, <2>1, SMT
  <2>3. GrpcTypes'  BY <1>1, <2>1, <2>2, Zenon DEF GrpcInv, GrpcTypes
  <2>4. Selected'  BY <1>1, <1>c, <2>1, <2>2, Numbers, Zenon DEF Selected
  <2>5. Counting' /\ StreamOpen'
    <3>1. at' = "open" => done' < Calls  BY <2>1, Zenon DEF Calls
    <3> QED BY <3>1, <1>r, <2>1, <2>2, Zenon DEF Counting, StreamOpen, open
  <2>6. PassedLog'
    <3>1. PassedLog  BY <1>4, Zenon
    <3> QED BY <3>1, <1>1, <1>r, <2>1, Zenon DEF PassedLog
  <2>7. code' = 0 => done' = Calls
    <3>1. code' = 0 => ~(rpc.newChannel /\ done + 1 < ChannelOps)
      BY <1>c, <2>1, Numbers, Zenon
    <3>2. \A a, b \in Nat : a < b /\ ~(a + 1 < b) => a + 1 = b  BY SMT
    <3>3. 1 \in Nat /\ ChannelOps \in Nat /\ ~(done + 1 < 1)  BY <1>c, Numbers, SMT
    <3> QED BY <3>1, <3>2, <3>3, <1>c, <2>1, RpcFacts, Zenon DEF Calls
  <2>8. GrpcPassIsEarned'
    <3>1. ~warm'  BY <2>1, <1>4, Zenon
    <3>2. GrpcPassIsEarned' <=>
            (code' = 0 => ~warm' /\ done' = opened' /\ done' = Calls' /\ PassedLog')
      BY Zenon DEF GrpcPassIsEarned, PassedLog, Calls
    <3> QED BY <3>1, <3>2, <1>r, <2>2, <2>6, <2>7, Zenon
  <2>9. PackagedGrpcPasses'
    <3>1. code' # 1  BY <1>c, <2>1, <2>2, Numbers, Zenon
    <3> QED BY <3>1, Zenon DEF PackagedGrpcPasses
  <2> QED BY <2>3, <2>4, <2>5, <2>8, <2>9, Zenon DEF GrpcInv
<1> QED BY <1>2, <1>3, <1>4, <1>c, Zenon

-----------------------------------------------------------------------------
(* The invariant while a call is under way. *)
LEMMA OpenFacts ==
  ASSUME GrpcInv, open
  PROVE  /\ code = NoCode /\ selection.scenario \in DOMAIN specFor /\ WellFormed
         /\ ExecutorReads /\ (target = "packaged" => PackagedInv)
         /\ down \in Seq(Events) /\ log \in Seq(Events) /\ read \in Nat
<1>1. at # "exit" /\ at # "select"  BY Zenon DEF open
<1>2. code = NoCode  BY <1>1, Zenon DEF GrpcInv, Selected
<1> QED BY <1>1, <1>2, Numbers, Zenon DEF GrpcInv, GrpcTypes, Selected, StreamOpen

(* A step within a call. *)
LEMMA WithinCall ==
  ASSUME GrpcInv, open, open', UNCHANGED << selection, target, warm, done, opened, code >>,
         GrpcTypes', WellFormed', ExecutorReads', target = "packaged" => PackagedInv'
  PROVE  GrpcInv'
<1>1. code = NoCode /\ selection.scenario \in DOMAIN specFor  BY OpenFacts, Zenon
<1>2. at' # "exit" /\ at' # "select" /\ at' # "open"  BY Zenon DEF open
<1>3. Selected'  BY <1>1, <1>2, Zenon DEF Selected
<1>4. Counting'  BY <1>2, KeepRpc, Zenon DEF GrpcInv, Counting
<1>5. StreamOpen'  BY Zenon DEF StreamOpen
<1>6. GrpcPassIsEarned' /\ PackagedGrpcPasses'
  BY <1>1, Numbers, Zenon DEF GrpcPassIsEarned, PackagedGrpcPasses
<1> QED BY <1>3, <1>4, <1>5, <1>6, Zenon DEF GrpcInv

(* A step of the executor leaves the packaged target's side alone. *)
LEMMA KeepPackaged ==
  ASSUME PackagedInv, UNCHANGED << selection, handler, took, unsent, up, log >>,
         rpc.mode = "deadline-exceeded" => DeadlineInv'
  PROVE  PackagedInv'
<1>r. rpc' = rpc /\ (bidirectional' <=> bidirectional)  BY KeepRpc, Zenon
<1>1. RightLog => RightLog'  BY <1>r, Zenon DEF RightLog, Expect
<1>2. BidirectionalInv => BidirectionalInv'
  BY <1>r, <1>1, Zenon DEF BidirectionalInv, UpStream
<1>3. (ResponseInv => ResponseInv') /\ (CancellationInv => CancellationInv')
  BY <1>r, <1>1, Zenon DEF ResponseInv, CancellationInv
<1> QED BY <1>r, <1>2, <1>3, Zenon DEF PackagedInv

(* The shape of a response depends on the log alone. *)
LEMMA KeepWellFormed == ASSUME WellFormed, log' = log PROVE WellFormed'
BY Zenon DEF WellFormed

(* What the packaged target has sent, unless the scenario is the deadline's. *)
LEMMA PackagedLog ==
  ASSUME GrpcInv, open, target = "packaged", rpc.mode # "deadline-exceeded"
  PROVE  RightLog /\ rpc.responses \in Nat
BY OpenFacts, RpcFacts, Zenon DEF PackagedInv, BidirectionalInv, ResponseInv, CancellationInv

(* A call never ends before it began. *)
LEMMA Lasted == ASSUME GrpcInv PROVE elapsed - started \in Nat
<1>1. elapsed \in Nat /\ started \in Nat /\ started <= elapsed  BY Zenon DEF GrpcInv, GrpcTypes
<1> QED BY <1>1, SMT

(* The response headers arrive: the invariant is kept. *)
LEMMA RoundTripInv == ASSUME GrpcInv, RoundTrip PROVE GrpcInv'
<1>1. /\ at = "roundtrip" /\ down # << >> /\ fault' = fault /\ open
  BY Zenon DEF RoundTrip, responseStarted, open
<1>f. /\ selection.scenario \in DOMAIN specFor /\ WellFormed /\ ExecutorReads
      /\ (target = "packaged" => PackagedInv)
      /\ down \in Seq(Events) /\ log \in Seq(Events) /\ read = 0 /\ Reading(0)
  BY <1>1, OpenFacts, Zenon DEF ExecutorReads
<1>t. /\ Tail(down) \in Seq(Events) /\ Len(Tail(down)) + (0 + 1) = Len(log)
      /\ \A i \in 1..Len(Tail(down)) : Tail(down)[i] = log[0 + 1 + i]
      /\ Head(down) = log[0 + 1] /\ 1 \in 1..Len(log) /\ 0 \in Nat /\ 0 + 1 = 1
  <2>1. 0 \in Nat /\ 0 + 1 = 1  BY SMT
  <2> QED BY <2>1, <1>1, <1>f, TakenIsRead, Zenon
<1>h. Head(down) = log[1]  BY <1>t, Zenon
<1>2. CASE rpc.mode = "deadline-exceeded"
  <2>1. /\ at' = "judge" /\ latency' = elapsed - started /\ down' = Tail(down)
        /\ failed' = (IF Head(down) = Reset THEN "error" ELSE "no")
        /\ UNCHANGED << selection, target, warm, done, opened, read, code >>
        /\ UNCHANGED << up, unsent, handler, took, elapsed, started, held, log >>
    BY <1>2, Zenon DEF RoundTrip, callVars
  <2>l. elapsed - started \in Nat  BY Lasted, Zenon
  <2>2. GrpcTypes' /\ open'  BY <1>t, <2>1, <2>l, Zenon DEF GrpcInv, GrpcTypes, open
  <2>3. WellFormed'  BY <1>f, <2>1, KeepWellFormed, Zenon
  <2>4. ExecutorReads'  BY <1>2, <2>1, KeepRpc, Zenon DEF ExecutorReads
  <2>5. ASSUME target = "packaged" PROVE PackagedInv'
    <3>1. DeadlineInv  BY <2>5, <1>2, <1>f, Zenon DEF PackagedInv
    <3>2. log # << >>
      <4>1. log = << >> => 1..Len(log) = {}  BY SMT
      <4> QED BY <4>1, <1>t, Zenon
    <3>3. latency' >= latest /\ elapsed - started >= targetHolds
      BY <2>1, <3>1, <3>2, Numbers, Zenon DEF DeadlineInv
    <3>4. failed' = "no"
      <4>1. log[1] = Headers(FALSE)
        <5>1. log = << Headers(FALSE) >>  BY <3>1, <3>2, Zenon DEF DeadlineInv
        <5> QED BY <5>1, SMT
      <4> QED BY <4>1, <1>h, <2>1, Kinds, Zenon
    <3>5. DeadlineInv'  BY <2>1, <3>1, <3>2, <3>3, <3>4, Zenon DEF DeadlineInv
    <3> QED BY <2>5, <1>f, <2>1, <3>5, KeepPackaged, Zenon
  <2> QED BY <1>1, <2>1, <2>2, <2>3, <2>4, <2>5, WithinCall, Zenon
<1>3. CASE rpc.mode # "deadline-exceeded" /\ Head(down) = Reset
  <2>1. CallOver(FALSE)  BY <1>3, Zenon DEF RoundTrip
  <2>2. target # "packaged"
    <3>1. SUFFICES ASSUME target = "packaged" PROVE FALSE  OBVIOUS
    <3>2. log[1] = Headers(TRUE)
      BY <3>1, <1>1, <1>3, <1>t, PackagedLog, Zenon DEF RightLog, Expect
    <3> QED BY <3>2, <1>3, <1>h, Kinds, Zenon
  <2> QED BY <1>1, <2>1, <2>2, CallOverInv, Zenon
<1>4. CASE rpc.mode # "deadline-exceeded" /\ Head(down) # Reset
  <2>1. /\ at' = (IF rpc.mode = "client-cancellation" THEN "cancel" ELSE "body")
        /\ down' = Tail(down)
        /\ UNCHANGED << selection, target, warm, done, opened, read, latency, failed, code >>
        /\ UNCHANGED << up, unsent, handler, took, elapsed, started, held, log >>
    BY <1>4, Zenon DEF RoundTrip, callVars
  <2>2. GrpcTypes' /\ open'  BY <1>t, <2>1, Zenon DEF GrpcInv, GrpcTypes, open
  <2>3. WellFormed'  BY <1>f, <2>1, KeepWellFormed, Zenon
  <2>4. ExecutorReads'
    <3>1. Reading(read + 1)'  BY <1>f, <1>t, <2>1, Zenon DEF Reading
    <3>2. \A i : ~(i \in 1..read')  BY <1>f, <2>1, SMT
    <3>3. read' <= rpc.responses
      <4>1. rpc.responses \in Nat  BY <1>f, RpcFacts, Zenon
      <4>2. \A a \in Nat : 0 <= a  BY SMT
      <4> QED BY <4>1, <4>2, <1>f, <2>1, Zenon
    <3>4. log'[1] # Reset  BY <1>4, <1>h, <2>1, Zenon
    <3>5. rpc' = rpc  BY <2>1, KeepRpc, Zenon
    <3>6. rpc.mode \in {"echo", "trailers-only", "client-cancellation"}
      BY <1>4, <1>f, RpcFacts, Zenon
    <3> QED BY <1>f, <2>1, <3>1, <3>2, <3>3, <3>4, <3>5, <3>6, Zenon DEF ExecutorReads
  <2>5. target = "packaged" => PackagedInv'
    BY <1>4, <1>f, <2>1, KeepPackaged, Zenon
  <2> QED BY <1>1, <2>1, <2>2, <2>3, <2>4, <2>5, WithinCall, Zenon
<1> QED BY <1>2, <1>3, <1>4, Zenon

(* At the end of a stream without problems the log is the expected answer. *)
LEMMA NoProblems ==
  ASSUME GrpcInv, at = "body", down # << >>, noProblems(Head(down))
  PROVE  PassedLog
<1>o. open  BY Zenon DEF open
<1>f. /\ selection.scenario \in DOMAIN specFor /\ WellFormed
      /\ Reading(read + 1) /\ log[1] # Reset /\ rpc.mode \in {"echo", "trailers-only"}
      /\ (\A i \in 1..read : log[i + 1] = Message(TRUE))
      /\ down \in Seq(Events) /\ log \in Seq(Events) /\ read \in Nat /\ read + 1 \in Nat
  <2>1. \A a \in Nat : a + 1 \in Nat  BY SMT
  <2> QED BY <2>1, <1>o, OpenFacts, Zenon DEF ExecutorReads
<1>t. /\ Head(down) = log[read + 1 + 1] /\ read + 1 + 1 \in 1..Len(log) /\ 1 \in 1..Len(log)
  BY <1>f, TakenIsRead, Zenon
<1>m. /\ Head(down).type = "trailers" /\ read = rpc.responses /\ log[1].right
      /\ rpc.mode = "echo" => Head(down).status = "0"
  BY Zenon DEF noProblems
<1>1. log[1] = Headers(TRUE)
  <2>1. log[1] \in First  BY <1>f, <1>t, Zenon DEF WellFormed
  <2> QED BY <2>1, <1>f, <1>m, Kinds, Zenon DEF First
<1>2. read + 1 + 1 = Len(log)  BY <1>f, <1>t, <1>m, Zenon DEF WellFormed
<1>3. read + 1 + 1 = read + 2  BY <1>f, SMT
<1>4. CASE rpc.mode = "echo"
  <2>1. log[read + 2] \in Later
    <3>1. read + 2 # 1  BY <1>f, SMT
    <3> QED BY <3>1, <1>f, <1>t, <1>3, Zenon DEF WellFormed
  <2>2. log[read + 2] = Trailers("0")
    BY <2>1, <1>4, <1>t, <1>m, <1>3, Kinds, Zenon DEF Later
  <2>3. /\ Headers(TRUE) \in Events /\ Message(TRUE) \in Events /\ Trailers("0") \in Events
    BY Members, Zenon
  <2>4. log = << Headers(TRUE) >> \o [i \in 1..read |-> Message(TRUE)] \o << Trailers("0") >>
    <3>1. /\ log \in Seq(Events) /\ read \in Nat /\ Len(log) = read + 2 /\ log[1] = Headers(TRUE)
          /\ log[read + 2] = Trailers("0") /\ \A i \in 1..read : log[i + 1] = Message(TRUE)
      BY <1>f, <1>1, <1>2, <1>3, <2>2, Zenon
    <3> QED BY <3>1, <2>3, WholeAnswer, Zenon
  <2> QED BY <2>4, <1>4, <1>m, Zenon DEF PassedLog
<1>5. CASE rpc.mode = "trailers-only"
  <2>1. read = 0  BY <1>5, <1>f, <1>m, RpcFacts, Zenon
  <2>2. read + 1 + 1 = 2  BY <2>1, SMT
  <2>3. Len(log) = 2 /\ log[2].type = "trailers"  BY <2>2, <1>2, <1>t, <1>m, Zenon
  <2> QED BY <2>3, <1>5, <1>1, Zenon DEF PassedLog
<1> QED BY <1>4, <1>5, <1>f, Zenon

(* Of the packaged target's answer every event is taken. *)
LEMMA PackagedBody ==
  ASSUME GrpcInv, at = "body", down # << >>, target = "packaged"
  PROVE  \/ Head(down).type = "message" /\ Head(down).right /\ read < rpc.responses
         \/ noProblems(Head(down))
<1>o. open  BY Zenon DEF open
<1>f. /\ selection.scenario \in DOMAIN specFor
      /\ Reading(read + 1) /\ rpc.mode \in {"echo", "trailers-only"}
      /\ read <= rpc.responses
      /\ down \in Seq(Events) /\ log \in Seq(Events) /\ read \in Nat /\ read + 1 \in Nat
  <2>1. \A a \in Nat : a + 1 \in Nat  BY SMT
  <2> QED BY <2>1, <1>o, OpenFacts, Zenon DEF ExecutorReads
<1>t. /\ Head(down) = log[read + 1 + 1] /\ read + 1 + 1 \in 1..Len(log) /\ 1 \in 1..Len(log)
  BY <1>f, TakenIsRead, Zenon
<1>1. RightLog /\ rpc.responses \in Nat  BY <1>f, <1>o, PackagedLog, Zenon
<1>2. Head(down) = Expect(read + 1 + 1) /\ log[1] = Headers(TRUE)
  <2>1. log[1] = Expect(1) /\ log[read + 1 + 1] = Expect(read + 1 + 1)
    BY <1>1, <1>t, Zenon DEF RightLog
  <2> QED BY <2>1, <1>t, Zenon DEF Expect
<1>3. /\ read + 1 + 1 # 1 /\ (read + 1 + 1 <= rpc.responses + 1 => read < rpc.responses)
      /\ (~(read + 1 + 1 <= rpc.responses + 1) => read = rpc.responses)
  <2>1. \A a, b \in Nat : /\ a + 1 + 1 # 1 /\ (a + 1 + 1 <= b + 1 => a < b)
                          /\ (a <= b /\ ~(a + 1 + 1 <= b + 1) => a = b)
    BY SMT
  <2> QED BY <2>1, <1>1, <1>f, Zenon
<1>4. CASE read + 1 + 1 <= rpc.responses + 1
  <2>1. Head(down) = Message(TRUE)  BY <1>2, <1>3, <1>4, Zenon DEF Expect
  <2> QED BY <2>1, <1>3, <1>4, Kinds, Zenon
<1>5. CASE ~(read + 1 + 1 <= rpc.responses + 1)
  <2>1. Head(down) = Trailers(IF rpc.mode = "echo" THEN "0" ELSE "none")
    BY <1>2, <1>3, <1>5, Zenon DEF Expect
  <2> QED BY <2>1, <1>2, <1>3, <1>5, Kinds, Zenon DEF noProblems
<1> QED BY <1>4, <1>5, Zenon

(* One message or the end of the body is read: the invariant is kept. With  *)
(* a packaged target what is read is what the scenario expects.             *)
LEMMA ReadBodyInv == ASSUME GrpcInv, ReadBody PROVE GrpcInv'
<1>1. at = "body" /\ down # << >> /\ fault' = fault /\ open  BY Zenon DEF ReadBody, open
<1> DEFINE m == Head(down)
           next == m.type = "message" /\ m.right /\ read < rpc.responses
<1>2. CASE ~next
  <2>1. CallOver(noProblems(m))  BY <1>2, Zenon DEF ReadBody
  <2>2. noProblems(m) => PassedLog  BY <1>1, NoProblems, Zenon
  <2>3. ~noProblems(m) => target # "packaged"  BY <1>1, <1>2, PackagedBody, Zenon
  <2>4. noProblems(m) \in BOOLEAN  BY Zenon DEF noProblems
  <2> QED BY <1>1, <2>1, <2>2, <2>3, <2>4, CallOverInv, Zenon
<1>3. CASE next
  <2>1. /\ read' = read + 1 /\ down' = Tail(down)
        /\ UNCHANGED << selection, target, at, warm, done, opened, latency, failed, code >>
        /\ UNCHANGED << up, unsent, handler, took, elapsed, started, held, log >>
    BY <1>3, Zenon DEF ReadBody, callVars
  <2>f. /\ selection.scenario \in DOMAIN specFor /\ WellFormed /\ ExecutorReads
        /\ (target = "packaged" => PackagedInv)
        /\ down \in Seq(Events) /\ log \in Seq(Events) /\ Reading(read + 1)
        /\ read \in Nat /\ read + 1 \in Nat /\ rpc.responses \in Nat
        /\ (\A i \in 1..read : log[i + 1] = Message(TRUE))
    <3>1. \A a \in Nat : a + 1 \in Nat  BY SMT
    <3> QED BY <3>1, <1>1, OpenFacts, RpcFacts, Zenon DEF ExecutorReads
  <2>t. /\ Tail(down) \in Seq(Events) /\ Len(Tail(down)) + (read + 1 + 1) = Len(log)
        /\ \A i \in 1..Len(Tail(down)) : Tail(down)[i] = log[read + 1 + 1 + i]
        /\ m = log[read + 1 + 1] /\ read + 1 + 1 \in 1..Len(log)
    BY <1>1, <2>f, TakenIsRead, Zenon
  <2>2. GrpcTypes' /\ open'  BY <1>1, <2>1, <2>f, <2>t, Zenon DEF GrpcInv, GrpcTypes, open
  <2>3. WellFormed'  BY <2>f, <2>1, KeepWellFormed, Zenon
  <2>4. ExecutorReads'
    <3>1. Reading(read + 1)'  BY <2>t, <2>1, Zenon DEF Reading
    <3>2. log[read + 1 + 1] = Message(TRUE)
      <4>1. read + 1 + 1 # 1  BY <2>f, SMT
      <4>2. m \in Later  BY <4>1, <2>f, <2>t, Zenon DEF WellFormed
      <4> QED BY <4>2, <1>3, <2>t, Kinds, Zenon DEF Later
    <3>3. \A i \in 1..(read + 1) : log[i + 1] = Message(TRUE)
      <4>1. \A i \in 1..(read + 1) : i = read + 1 \/ i \in 1..read  BY <2>f, SMT
      <4> QED BY <4>1, <3>2, <2>f, Zenon
    <3>4. read + 1 <= rpc.responses  BY <1>3, <2>f, SMT
    <3>5. rpc' = rpc  BY <2>1, KeepRpc, Zenon
    <3> QED BY <1>1, <2>f, <2>1, <3>1, <3>3, <3>4, <3>5, Zenon DEF ExecutorReads
  <2>5. target = "packaged" => PackagedInv'
    <3>1. rpc.mode # "deadline-exceeded"  BY <1>1, <2>f, Zenon DEF ExecutorReads
    <3> QED BY <3>1, <2>f, <2>1, KeepPackaged, Zenon
  <2> QED BY <1>1, <2>1, <2>2, <2>3, <2>4, <2>5, WithinCall, Zenon
<1> QED BY <1>2, <1>3, Zenon

(* RoundTrip ends in an error of the deadline scenario. *)
LEMMA JudgedInv ==
  ASSUME GrpcInv, at = "roundtrip", rpc.mode = "deadline-exceeded", at' = "judge",
         latency' = elapsed - started, fault => fault',
         \/ failed' = "deadline" /\ elapsed >= clientDeadline
         \/ failed' = "error" /\ fault',
         UNCHANGED << selection, target, warm, done, opened, up, down, unsent, handler, took,
                      read, elapsed, started, held, code, log >>
  PROVE  GrpcInv'
<1>1. open /\ open'  BY Zenon DEF open
<1>2. /\ selection.scenario \in DOMAIN specFor /\ WellFormed /\ ExecutorReads
      /\ (target = "packaged" => PackagedInv)
  BY <1>1, OpenFacts, Zenon
<1>3. GrpcTypes'  BY Lasted, Zenon DEF GrpcInv, GrpcTypes
<1>4. WellFormed'  BY <1>2, KeepWellFormed, Zenon
<1>5. ExecutorReads'  BY KeepRpc, Zenon DEF ExecutorReads
<1>6. ASSUME target = "packaged" PROVE PackagedInv'
  <2>1. DeadlineInv  BY <1>6, <1>2, Zenon DEF PackagedInv
  <2>2. failed' # "no"  BY Zenon
  <2>3. log # << >> => latency' >= latest  BY <2>1, Numbers, Zenon DEF DeadlineInv
  <2>4. failed' = "deadline" => latency' + started' >= clientDeadline
    <3>1. elapsed \in Nat /\ started \in Nat  BY Zenon DEF GrpcInv, GrpcTypes
    <3>2. (elapsed - started) + started = elapsed  BY <3>1, SMT
    <3> QED BY <3>2, Zenon
  <2>5. failed' \in {"no", "deadline", "error"} /\ (failed' = "error" => fault')  BY Zenon
  <2>6. DeadlineInv'  BY <2>1, <2>2, <2>3, <2>4, <2>5, Zenon DEF DeadlineInv
  <2> QED BY <1>6, <1>2, <2>6, KeepPackaged, Zenon
<1> QED BY <1>1, <1>3, <1>4, <1>5, <1>6, WithinCall, Zenon

(* The call's context ends it at the deadline: the invariant is kept. *)
LEMMA ContextFiresInv == ASSUME GrpcInv, ContextFires PROVE GrpcInv'
<1>1. /\ at = "roundtrip" /\ rpc.mode = "deadline-exceeded" /\ elapsed >= clientDeadline
      /\ at' = "judge" /\ failed' = "deadline" /\ latency' = elapsed - started /\ fault' = fault
      /\ UNCHANGED << selection, target, warm, done, opened, down, read, code >>
      /\ UNCHANGED << up, unsent, handler, took, elapsed, started, held, log >>
  BY Zenon DEF ContextFires, callVars
<1>2. /\ fault => fault'
      /\ \/ failed' = "deadline" /\ elapsed >= clientDeadline
         \/ failed' = "error" /\ fault'
  BY <1>1, Zenon
<1> QED BY <1>1, <1>2, JudgedInv, Zenon

(* The network fails the call: the invariant is kept. *)
LEMMA CallFailsInv == ASSUME GrpcInv, CallFails PROVE GrpcInv'
<1>1. at \in {"roundtrip", "body", "cancel"} /\ fault' = TRUE /\ open
  BY Zenon DEF CallFails, open
<1>2. CASE rpc.mode = "deadline-exceeded"
  <2>1. /\ at' = "judge" /\ failed' = "error" /\ latency' = elapsed - started
        /\ UNCHANGED << selection, target, warm, done, opened, down, read, code >>
        /\ UNCHANGED << up, unsent, handler, took, elapsed, started, held, log >>
    BY <1>2, Zenon DEF CallFails, callVars
  <2>2. at = "roundtrip"  BY <1>1, <1>2, OpenFacts, Zenon DEF ExecutorReads
  <2>3. /\ fault => fault'
        /\ \/ failed' = "deadline" /\ elapsed >= clientDeadline
           \/ failed' = "error" /\ fault'
    BY <1>1, <2>1, Zenon
  <2> QED BY <1>2, <2>1, <2>2, <2>3, JudgedInv, Zenon
<1>3. CASE rpc.mode # "deadline-exceeded"
  <2>1. CallOver(FALSE)  BY <1>3, Zenon DEF CallFails
  <2> QED BY <1>1, <2>1, CallOverInv, Zenon
<1> QED BY <1>2, <1>3, Zenon

(* The deadline call is judged by its error and its latency: the invariant  *)
(* is kept.                                                                 *)
LEMMA JudgeInv == ASSUME GrpcInv, Judge PROVE GrpcInv'
<1>1. at = "judge" /\ fault' = fault /\ open  BY Zenon DEF Judge, open
<1> DEFINE earned == /\ failed = "deadline" \/ elapsed >= clientDeadline
                     /\ failed # "no" /\ earliest <= latency /\ latency < latest
<1>2. CallOver(earned)  BY Zenon DEF Judge
<1>3. rpc.mode = "deadline-exceeded" /\ (target = "packaged" => DeadlineInv)
  BY <1>1, OpenFacts, Zenon DEF ExecutorReads, PackagedInv
<1>4. latency \in Nat /\ started \in Nat  BY Zenon DEF GrpcInv, GrpcTypes
<1>5. /\ ~(latency < latest /\ latency >= latest) /\ (latency < latest \/ latency >= latest)
      /\ latency + started >= clientDeadline =>
           earliest <= latency \/ started > clientDeadline - earliest
  BY <1>4, Numbers, SMT
<1>6. earned => PassedLog  BY <1>1, <1>3, <1>5, Zenon DEF PassedLog, DeadlineInv
<1>7. ~earned /\ target = "packaged" => fault \/ Slow
  BY <1>1, <1>3, <1>5, Zenon DEF DeadlineInv, Slow
<1>8. earned \in BOOLEAN  BY Zenon
<1> QED BY <1>1, <1>2, <1>3, <1>6, <1>7, <1>8, CallOverInv, Zenon

(* The executor cancels the call and judges it: the invariant is kept. *)
LEMMA CancelCallInv == ASSUME GrpcInv, CancelCall PROVE GrpcInv'
<1>1. at = "cancel" /\ fault' = fault /\ open  BY Zenon DEF CancelCall, open
<1>2. PICK k \in 0..Len(down) :
        CallOver(log[1].right /\ \A i \in 1..k : down[i].type # "message")
  BY Zenon DEF CancelCall
<1> DEFINE earned == log[1].right /\ \A i \in 1..k : down[i].type # "message"
<1>f. /\ selection.scenario \in DOMAIN specFor /\ WellFormed
      /\ (target = "packaged" => PackagedInv) /\ rpc.mode = "client-cancellation"
      /\ down \in Seq(Events) /\ log \in Seq(Events) /\ Reading(read + 1) /\ read = 0
      /\ log[1] # Reset
  BY <1>1, OpenFacts, Zenon DEF ExecutorReads
<1>l. 1 \in 1..Len(log) /\ (Len(log) <= 1 => \A i : ~(i \in 1..k))
  <2>1. Len(down) + (read + 1) = Len(log)  BY <1>f, Zenon DEF Reading
  <2> QED BY <2>1, <1>f, SMT
<1>3. earned => PassedLog
  <2>1. log[1] \in First  BY <1>f, <1>l, Zenon DEF WellFormed
  <2>2. log[1].right => log[1] = Headers(TRUE)  BY <2>1, <1>f, Kinds, Zenon DEF First
  <2> QED BY <2>2, <1>f, Zenon DEF PassedLog
<1>4. target = "packaged" => earned
  <2>1. SUFFICES ASSUME target = "packaged" PROVE earned  OBVIOUS
  <2>2. Len(log) <= 1 /\ RightLog  BY <2>1, <1>f, Zenon DEF PackagedInv, CancellationInv
  <2>3. log[1] = Headers(TRUE)  BY <2>2, <1>l, Zenon DEF RightLog, Expect
  <2> QED BY <2>2, <2>3, <1>l, Kinds, Zenon
<1>5. earned \in BOOLEAN  BY Zenon
<1> QED BY <1>1, <1>2, <1>3, <1>4, <1>5, CallOverInv, Zenon

(* Time passes: the invariant is kept. *)
LEMMA ClockInv == ASSUME GrpcInv, Clock PROVE GrpcInv'
<1>1. /\ at \in {"roundtrip", "judge"} /\ \E t \in Times : t > elapsed /\ elapsed' = t
      /\ UNCHANGED << selection, target, at, warm, done, opened, up, down, unsent, handler, took,
                      read, started, held, latency, failed, code, log, fault >>
  BY Zenon DEF Clock
<1>2. open /\ open'  BY <1>1, Zenon DEF open
<1>3. /\ elapsed \in Nat /\ started \in Nat /\ started <= elapsed /\ elapsed' > elapsed
      /\ elapsed' \in Nat
  BY <1>1, GrpcAssumption, Zenon DEF GrpcInv, GrpcTypes
<1>4. /\ elapsed' \in Nat /\ started <= elapsed'
      /\ (elapsed - started >= targetHolds => elapsed' - started >= targetHolds)
  <2>1. \A a, b, c \in Nat : a <= b /\ c > b =>
          a <= c /\ (b - a >= targetHolds => c - a >= targetHolds)
    BY Numbers, SMT
  <2> QED BY <1>3, <2>1, Zenon
<1>5. GrpcTypes'  BY <1>1, <1>4, Zenon DEF GrpcInv, GrpcTypes
<1>f. WellFormed /\ ExecutorReads /\ (target = "packaged" => PackagedInv)
  BY <1>2, OpenFacts, Zenon
<1>6. WellFormed'  BY <1>1, <1>f, KeepWellFormed, Zenon
<1>7. ExecutorReads'  BY <1>1, <1>f, KeepRpc, Zenon DEF ExecutorReads, Reading
<1>8. DeadlineInv => DeadlineInv'  BY <1>1, <1>4, Zenon DEF DeadlineInv
<1>9. target = "packaged" => PackagedInv'
  <2>1. PackagedInv /\ rpc.mode = "deadline-exceeded" => DeadlineInv  BY Zenon DEF PackagedInv
  <2> QED BY <2>1, <1>1, <1>8, <1>f, KeepPackaged, Zenon
<1> QED BY <1>1, <1>2, <1>5, <1>6, <1>7, <1>9, WithinCall, Zenon

-----------------------------------------------------------------------------
(* The peer says m, before it has ended the stream. *)
LEMMA SayInv ==
  ASSUME GrpcInv, open, ~Ended, NEW m, m \in IF log = << >> THEN First ELSE Later,
         Say(m), UNCHANGED << selection, at, read >>
  PROVE  /\ WellFormed' /\ ExecutorReads' /\ down' \in Seq(Events) /\ log' \in Seq(Events)
         /\ Len(log') = Len(log) + 1 /\ log' # << >> /\ Len(log) \in Nat
<1>1. down' = Append(down, m) /\ log' = Append(log, m)  BY Zenon DEF Say
<1>2. m \in Events  BY Members, Zenon
<1>f. /\ selection.scenario \in DOMAIN specFor /\ WellFormed /\ ExecutorReads
      /\ down \in Seq(Events) /\ log \in Seq(Events) /\ read \in Nat
  BY OpenFacts, Zenon
<1>r. rpc' = rpc  BY KeepRpc, Zenon
<1>3. /\ log' \in Seq(Events) /\ Len(log') = Len(log) + 1 /\ Len(log) \in Nat
      /\ log' # << >> /\ log'[Len(log) + 1] = m
      /\ 1..(Len(log) + 1) = 1..Len(log) \cup {Len(log) + 1}
      /\ \A i \in 1..Len(log) : log'[i] = log[i]
  BY <1>1, <1>2, <1>f, Appended, Zenon
<1>4. down' \in Seq(Events)  BY <1>1, <1>2, <1>f, SMT
<1>5. WellFormed'
  <2>1. SUFFICES ASSUME NEW i \in 1..Len(log')
                 PROVE  /\ log'[i] \in IF i = 1 THEN First ELSE Later
                        /\ log'[i].type \in {"trailers", "reset"} => i = Len(log')
    BY Zenon DEF WellFormed
  <2>2. CASE i \in 1..Len(log)
    <3>1. log'[i] = log[i]  BY <2>2, <1>3, Zenon
    <3>2. log[i].type \notin {"trailers", "reset"}  BY <2>2, Zenon DEF Ended
    <3> QED BY <2>2, <3>1, <3>2, <1>f, Zenon DEF WellFormed
  <2>3. CASE i = Len(log) + 1
    <3>1. log = << >> <=> i = 1  BY <2>3, <1>f, SMT
    <3> QED BY <2>3, <3>1, <1>3, Zenon
  <2>4. i \in 1..Len(log) \/ i = Len(log) + 1
    <3>1. i \in 1..(Len(log) + 1)  BY <1>3, Zenon
    <3> QED BY <3>1, <1>3, SMT
  <2> QED BY <2>2, <2>3, <2>4, Zenon
<1>6. ExecutorReads'
  <2>1. CASE at = "roundtrip"
    <3>1. Reading(0) /\ read = 0  BY <2>1, <1>f, Zenon DEF ExecutorReads
    <3>2. Reading(0)'  BY <3>1, <1>1, <1>2, <1>f, SaidIsRead, Zenon DEF Reading
    <3> QED BY <2>1, <3>1, <3>2, Zenon DEF ExecutorReads
  <2>2. CASE at \in {"body", "cancel"}
    <3>1. /\ Reading(read + 1) /\ log[1] # Reset /\ read <= rpc.responses
          /\ \A i \in 1..read : log[i + 1] = Message(TRUE)
      BY <2>2, <1>f, Zenon DEF ExecutorReads
    <3>2. read + 1 \in Nat  BY <1>f, SMT
    <3>3. Reading(read + 1)'  BY <3>1, <3>2, <1>1, <1>2, <1>f, SaidIsRead, Zenon DEF Reading
    <3>4. 1 \in 1..Len(log) /\ \A i \in 1..read : i + 1 \in 1..Len(log)
      <4>1. Len(down) + (read + 1) = Len(log)  BY <3>1, Zenon DEF Reading
      <4> QED BY <4>1, <1>f, SMT
    <3>5. log'[1] = log[1] /\ \A i \in 1..read : log'[i + 1] = Message(TRUE)
      BY <3>1, <3>4, <1>3, Zenon
    <3> QED BY <2>2, <3>1, <3>3, <3>5, <1>f, <1>r, Zenon DEF ExecutorReads
  <2>3. CASE at \notin {"roundtrip", "body", "cancel"}
    BY <2>3, <1>f, <1>r, Zenon DEF ExecutorReads
  <2> QED BY <2>1, <2>2, <2>3, Zenon
<1> QED BY <1>3, <1>4, <1>5, <1>6, Zenon

(* A server under test sends anything that gRPC allows: the invariant is    *)
(* kept.                                                                    *)
LEMMA ForeignAnswersInv == ASSUME GrpcInv, ForeignAnswers PROVE GrpcInv'
<1>1. /\ target = "foreign" /\ open /\ ~Ended
      /\ UNCHANGED << selection, target, at, warm, done, opened, read, elapsed, started, latency,
                      code >>
      /\ UNCHANGED << up, unsent, handler, took, held >>
  BY Zenon DEF ForeignAnswers, executorVars
<1>2. PICK m \in IF log = << >> THEN First ELSE Later : Say(m)
  BY Zenon DEF ForeignAnswers, First, Later
<1>3. WellFormed' /\ ExecutorReads' /\ down' \in Seq(Events) /\ log' \in Seq(Events)
  BY <1>1, <1>2, SayInv, Zenon
<1>4. GrpcTypes' /\ open'  BY <1>1, <1>3, Zenon DEF GrpcInv, GrpcTypes, open
<1> QED BY <1>1, <1>3, <1>4, WithinCall, Zenon

(* The request goes up, one message at a time. *)
LEMMA UpLoses ==
  ASSUME up \in Seq({"message", "end"}), up # << >>
  PROVE  Tail(up) \in Seq({"message", "end"}) /\ Len(Tail(up)) = Len(up) - 1 /\ Len(up) \in Nat
         /\ Len(up) > 0
OBVIOUS

(* A server under test reads a request: the invariant is kept. *)
LEMMA ForeignReadsInv == ASSUME GrpcInv, ForeignReads PROVE GrpcInv'
<1>1. /\ target = "foreign" /\ open /\ up # << >> /\ up' = Tail(up)
      /\ UNCHANGED << selection, target, at, warm, done, opened, read, elapsed, started, latency,
                      code >>
      /\ UNCHANGED << down, unsent, handler, took, held, log >>
  BY Zenon DEF ForeignReads, executorVars
<1>2. up' \in Seq({"message", "end"})  BY <1>1, UpLoses, Zenon DEF GrpcInv, GrpcTypes
<1>3. GrpcTypes' /\ open'  BY <1>1, <1>2, Zenon DEF GrpcInv, GrpcTypes, open
<1>f. WellFormed /\ ExecutorReads  BY <1>1, OpenFacts, Zenon
<1>4. WellFormed'  BY <1>1, <1>f, KeepWellFormed, Zenon
<1>5. ExecutorReads'  BY <1>1, <1>f, KeepRpc, Zenon DEF ExecutorReads, Reading
<1> QED BY <1>1, <1>3, <1>4, <1>5, WithinCall, Zenon

(* The executor writes its next request or ends its half of the stream:     *)
(* the invariant is kept.                                                   *)
LEMMA WriteRequestInv == ASSUME GrpcInv, WriteRequest PROVE GrpcInv'
<1>1. /\ open /\ unsent > 0 /\ unsent' = unsent - 1
      /\ up' = Append(up, IF unsent = 1 THEN "end" ELSE "message")
      /\ UNCHANGED << selection, target, at, warm, done, opened, read, elapsed, started, latency,
                      failed, code, fault >>
      /\ UNCHANGED << down, handler, took, held, log >>
  BY Zenon DEF WriteRequest, executorVars
<1>t. up \in Seq({"message", "end"}) /\ unsent \in Nat /\ took \in Nat
  BY Zenon DEF GrpcInv, GrpcTypes
<1>2. up' \in Seq({"message", "end"}) /\ Len(up') = Len(up) + 1 /\ unsent' \in Nat
      /\ up' # << >> /\ Len(up) \in Nat
  BY <1>1, <1>t, SMT
<1>3. GrpcTypes' /\ open'  BY <1>1, <1>2, Zenon DEF GrpcInv, GrpcTypes, open
<1>f. WellFormed /\ ExecutorReads /\ (target = "packaged" => PackagedInv)
      /\ selection.scenario \in DOMAIN specFor /\ log \in Seq(Events)
  BY <1>1, OpenFacts, Zenon
<1>4. WellFormed'  BY <1>1, <1>f, KeepWellFormed, Zenon
<1>r. rpc' = rpc /\ (bidirectional' <=> bidirectional)  BY <1>1, KeepRpc, Zenon
<1>5. ExecutorReads'  BY <1>1, <1>f, <1>r, Zenon DEF ExecutorReads, Reading
<1>6. ASSUME PackagedInv PROVE PackagedInv'
  <2>1. RightLog => RightLog'  BY <1>1, <1>r, Zenon DEF RightLog, Expect
  <2>2. (ResponseInv => ResponseInv') /\ (CancellationInv => CancellationInv')
    BY <1>1, <1>r, <2>1, Zenon DEF ResponseInv, CancellationInv
  <2>3. DeadlineInv => DeadlineInv'  BY <1>1, Zenon DEF DeadlineInv
  <2>4. UpStream => UpStream'
    <3>1. SUFFICES ASSUME UpStream PROVE UpStream'  OBVIOUS
    <3>2. \A i \in 1..Len(up) : up[i] = "message"
      <4>1. unsent # 0  BY <1>1, <1>t, SMT
      <4> QED BY <4>1, <3>1, Zenon DEF UpStream
    <3> QED BY <3>2, <1>1, <1>2, <1>t, SMT DEF UpStream
  <2>5. BidirectionalInv => BidirectionalInv'
    <3>1. unsent' + Len(up') = unsent + Len(up)  BY <1>1, <1>2, <1>t, SMT
    <3> QED BY <1>1, <1>r, <2>1, <2>4, <3>1, Zenon DEF BidirectionalInv
  <2> QED BY <1>6, <1>r, <2>2, <2>3, <2>5, Zenon DEF PackagedInv
<1> QED BY <1>1, <1>3, <1>4, <1>5, <1>6, <1>f, WithinCall, Zenon

-----------------------------------------------------------------------------
(* The packaged target says what comes next in its answer. *)
LEMMA SayExpected ==
  ASSUME GrpcInv, open, RightLog, Len(log) <= rpc.responses + 1,
         Say(Expect(Len(log) + 1)), UNCHANGED << selection, at, read >>
  PROVE  /\ WellFormed' /\ ExecutorReads' /\ RightLog' /\ down' \in Seq(Events)
         /\ log' \in Seq(Events) /\ Len(log') = Len(log) + 1 /\ log' # << >> /\ Len(log) \in Nat
<1>f. /\ selection.scenario \in DOMAIN specFor /\ log \in Seq(Events)
      /\ rpc.responses \in Nat /\ Len(log) \in Nat
  <2>1. log \in Seq(Events)  BY OpenFacts, Zenon
  <2>2. Len(log) \in Nat  BY <2>1, SMT
  <2> QED BY <2>1, <2>2, OpenFacts, RpcFacts, Zenon
<1> DEFINE m == Expect(Len(log) + 1)
<1>1. ~Ended
  <2>1. SUFFICES ASSUME NEW i \in 1..Len(log), log[i].type \in {"trailers", "reset"}
                 PROVE  FALSE
    BY Zenon DEF Ended
  <2>2. i <= rpc.responses + 1  BY <1>f, SMT
  <2>3. log[i] \in {Headers(TRUE), Message(TRUE)}  BY <2>2, Zenon DEF RightLog, Expect
  <2> QED BY <2>1, <2>3, Kinds, Zenon
<1>2. m \in IF log = << >> THEN First ELSE Later
  <2>1. log = << >> <=> Len(log) + 1 = 1  BY <1>f, SMT
  <2> QED BY <2>1, Members, Zenon DEF Expect
<1>3. /\ WellFormed' /\ ExecutorReads' /\ down' \in Seq(Events) /\ log' \in Seq(Events)
      /\ Len(log') = Len(log) + 1 /\ log' # << >>
  BY <1>1, <1>2, SayInv, Zenon
<1>4. RightLog'
  <2>1. rpc' = rpc  BY KeepRpc, Zenon
  <2>2. m \in Events  BY <1>2, Members, Zenon
  <2>3. /\ log'[Len(log) + 1] = m /\ 1..(Len(log) + 1) = 1..Len(log) \cup {Len(log) + 1}
        /\ \A i \in 1..Len(log) : log'[i] = log[i]
    BY <2>2, <1>f, Appended, Zenon DEF Say
  <2>4. Len(log) + 1 <= rpc.responses + 2  BY <1>f, SMT
  <2>5. \A i \in 1..Len(log') : log'[i] = Expect(i)
    BY <1>3, <2>3, Zenon DEF RightLog
  <2> QED BY <1>3, <2>1, <2>4, <2>5, Zenon DEF RightLog, Expect
<1> QED BY <1>f, <1>3, <1>4, Zenon

(* What the executor has read is untouched by a step that neither sends     *)
(* nor reads a response.                                                    *)
LEMMA KeepReads ==
  ASSUME WellFormed, ExecutorReads, UNCHANGED << selection, at, read, down, log >>
  PROVE  WellFormed' /\ ExecutorReads'
<1>1. WellFormed'  BY KeepWellFormed, Zenon
<1>2. ExecutorReads'  BY KeepRpc, Zenon DEF ExecutorReads, Reading
<1> QED BY <1>1, <1>2, Zenon

(* The bidirectional handler reads the next message of the request. *)
LEMMA BidirectionalReads ==
  ASSUME BidirectionalInv, GrpcTypes, handler = "reading", took = 0, up # << >>,
         Head(up) = "message", took' = 1, up' = Tail(up), rpc.requests \in Nat,
         UNCHANGED << selection, log, handler, unsent >>
  PROVE  BidirectionalInv'
<1>r. rpc' = rpc  BY KeepRpc, Zenon
<1>t. up \in Seq({"message", "end"}) /\ unsent \in Nat  BY Zenon DEF GrpcTypes
<1>b. /\ RightLog /\ UpStream
      /\ IF log = << >> THEN unsent + Len(up) + took = rpc.requests + 1
         ELSE unsent + Len(up) + took + Len(log) = rpc.requests + 2
  BY Zenon DEF BidirectionalInv
<1>1. RightLog'  BY <1>b, <1>r, Zenon DEF RightLog, Expect
<1>2. UpStream'
  <2>1. Len(up) = 1 => unsent # 0
    <3>1. Len(up) = 1 => Head(up) = up[1] /\ 1 \in 1..Len(up)  BY <1>t, SMT
    <3> QED BY <3>1, <1>b, Zenon DEF UpStream
  <2>2. unsent = 0 => Tail(up) # << >>
    <3>1. Len(Tail(up)) = Len(up) - 1 /\ Len(up) \in Nat  BY <1>t, UpLoses, Zenon
    <3>2. unsent = 0 => Len(Tail(up)) # 0  BY <2>1, <3>1, SMT
    <3> QED BY <3>2, Empties, Zenon
  <2>3. ASSUME NEW i \in 1..Len(Tail(up))
        PROVE  Tail(up)[i] = IF unsent = 0 /\ i = Len(Tail(up)) THEN "end" ELSE "message"
    <3>1. /\ Tail(up)[i] = up[i + 1] /\ i + 1 \in 1..Len(up)
          /\ (i + 1 = Len(up) <=> i = Len(Tail(up)))
      BY <1>t, SMT
    <3> QED BY <3>1, <1>b, Zenon DEF UpStream
  <2> QED BY <2>2, <2>3, Zenon DEF UpStream
<1>3. Len(up') + took' = Len(up) + took /\ unsent + Len(up') + took' = unsent + Len(up) + took
  BY <1>t, SMT
<1> QED BY <1>b, <1>r, <1>1, <1>2, <1>3, Zenon DEF BidirectionalInv

(* A step of the packaged bidirectional handler keeps the count of          *)
(* requests and responses.                                                  *)
LEMMA BidirectionalHandle ==
  ASSUME GrpcInv, open, bidirectional, BidirectionalInv, handler = "reading",
         handleBidirectionalStreaming, UNCHANGED << selection, at, read, unsent >>
  PROVE  /\ WellFormed' /\ ExecutorReads' /\ BidirectionalInv' /\ took' \in Nat
         /\ up' \in Seq({"message", "end"}) /\ down' \in Seq(Events) /\ log' \in Seq(Events)
<1>t. /\ up \in Seq({"message", "end"}) /\ unsent \in Nat /\ took \in Nat /\ GrpcTypes
      /\ down \in Seq(Events) /\ log \in Seq(Events)
  BY Zenon DEF GrpcInv, GrpcTypes
<1>f. /\ WellFormed /\ ExecutorReads /\ rpc.requests \in Nat /\ rpc.responses = rpc.requests
      /\ rpc.requests > 1 /\ rpc.mode = "echo"
  <2>1. /\ WellFormed /\ ExecutorReads /\ selection.scenario \in DOMAIN specFor
    BY OpenFacts, Zenon
  <2>2. rpc.requests > 1 => rpc.requests # 1  BY <2>1, RpcFacts, SMT
  <2> QED BY <2>1, <2>2, RpcFacts, Zenon DEF bidirectional
<1>b. /\ RightLog /\ UpStream /\ took \in {0, 1}
      /\ IF log = << >> THEN unsent + Len(up) + took = rpc.requests + 1
         ELSE unsent + Len(up) + took + Len(log) = rpc.requests + 2
  BY Zenon DEF BidirectionalInv
<1>r. rpc' = rpc  BY KeepRpc, Zenon
<1>n. Len(log) \in Nat /\ Len(up) \in Nat /\ (log = << >> <=> Len(log) = 0)  BY <1>t, SMT
<1>1. CASE /\ took = 0 /\ up # << >> /\ Head(up) = "message"
           /\ took' = 1 /\ up' = Tail(up) /\ UNCHANGED << down, log, handler >>
  <2>1. WellFormed' /\ ExecutorReads'  BY <1>1, <1>f, KeepReads, Zenon
  <2>2. BidirectionalInv'  BY <1>1, <1>t, <1>f, BidirectionalReads, Zenon
  <2>3. 1 \in Nat  BY SMT
  <2>4. up' \in Seq({"message", "end"})  BY <1>1, <1>t, UpLoses, Zenon
  <2> QED BY <1>1, <1>t, <2>1, <2>2, <2>3, <2>4, Zenon
<1>2. CASE /\ took = 0 /\ up # << >> /\ Head(up) = "end"
           /\ Say(Trailers("0")) /\ handler' = "returned" /\ UNCHANGED << up, took >>
  <2>1. unsent = 0 /\ Len(up) = 1
    <3>1. Head(up) = up[1] /\ 1 \in 1..Len(up)  BY <1>2, <1>t, SMT
    <3>2. unsent = 0 /\ 1 = Len(up)  BY <3>1, <1>2, <1>b, Zenon DEF UpStream
    <3> QED BY <3>2, Zenon
  <2>2. Len(log) = rpc.responses + 1
    <3>1. CASE log = << >>
      <4>1. unsent + Len(up) + took = rpc.requests + 1  BY <3>1, <1>b, Zenon
      <4> QED BY <4>1, <2>1, <1>2, <1>f, SMT
    <3>2. CASE log # << >>
      <4>1. unsent + Len(up) + took + Len(log) = rpc.requests + 2  BY <3>2, <1>b, Zenon
      <4> QED BY <4>1, <2>1, <1>2, <1>f, <1>n, SMT
    <3> QED BY <3>1, <3>2, Zenon
  <2>3. Expect(Len(log) + 1) = Trailers("0") /\ Len(log) <= rpc.responses + 1
    <3>1. /\ Len(log) + 1 # 1 /\ ~(Len(log) + 1 <= rpc.responses + 1)
          /\ Len(log) <= rpc.responses + 1
      BY <2>2, <1>f, <1>n, SMT
    <3> QED BY <3>1, <1>f, Zenon DEF Expect
  <2>4. /\ WellFormed' /\ ExecutorReads' /\ RightLog' /\ down' \in Seq(Events)
        /\ log' \in Seq(Events)
    BY <1>2, <1>b, <2>3, SayExpected, Zenon
  <2> QED BY <1>2, <1>t, <2>4, Zenon DEF BidirectionalInv
<1>3. CASE took = 1 /\ log = << >> /\ Say(Headers(TRUE)) /\ UNCHANGED << took, up, handler >>
  <2>1. Expect(Len(log) + 1) = Headers(TRUE) /\ Len(log) <= rpc.responses + 1
    <3>1. Len(log) + 1 = 1 /\ Len(log) <= rpc.responses + 1  BY <1>3, <1>n, <1>f, SMT
    <3> QED BY <3>1, Zenon DEF Expect
  <2>2. /\ WellFormed' /\ ExecutorReads' /\ RightLog' /\ down' \in Seq(Events)
        /\ log' \in Seq(Events) /\ Len(log') = Len(log) + 1 /\ log' # << >>
    BY <1>3, <1>b, <2>1, SayExpected, Zenon
  <2>3. unsent' + Len(up') + took' + Len(log') = rpc.requests + 2
    <3>1. unsent + Len(up) + took = rpc.requests + 1  BY <1>3, <1>b, Zenon
    <3> QED BY <3>1, <1>3, <2>2, <1>n, <1>t, <1>f, SMT
  <2>4. UpStream'  BY <1>3, <1>b, Zenon DEF UpStream
  <2> QED BY <1>3, <1>t, <1>b, <1>r, <2>2, <2>3, <2>4, Zenon DEF BidirectionalInv
<1>4. CASE took = 1 /\ log # << >> /\ Say(Message(TRUE)) /\ took' = 0 /\ UNCHANGED << up, handler >>
  <2>0. unsent + Len(up) + took + Len(log) = rpc.requests + 2  BY <1>4, <1>b, Zenon
  <2>1. unsent + Len(up) > 0
    <3>1. unsent = 0 => up # << >>  BY <1>b, Zenon DEF UpStream
    <3> QED BY <3>1, <1>t, SMT
  <2>2. Expect(Len(log) + 1) = Message(TRUE) /\ Len(log) <= rpc.responses + 1
    <3>1. /\ Len(log) + 1 # 1 /\ Len(log) + 1 <= rpc.responses + 1
          /\ Len(log) <= rpc.responses + 1
      BY <1>4, <1>n, <1>f, <1>t, <2>0, <2>1, SMT
    <3> QED BY <3>1, Zenon DEF Expect
  <2>3. /\ WellFormed' /\ ExecutorReads' /\ RightLog' /\ down' \in Seq(Events)
        /\ log' \in Seq(Events) /\ Len(log') = Len(log) + 1 /\ log' # << >>
    BY <1>4, <1>b, <2>2, SayExpected, Zenon
  <2>4. unsent' + Len(up') + took' + Len(log') = rpc.requests + 2 /\ 0 \in Nat
    BY <2>0, <1>4, <2>3, <1>n, <1>t, <1>f, SMT
  <2>5. UpStream'  BY <1>4, <1>b, Zenon DEF UpStream
  <2> QED BY <1>4, <1>t, <1>b, <1>r, <2>3, <2>4, <2>5, Zenon DEF BidirectionalInv
<1> QED BY <1>1, <1>2, <1>3, <1>4, Zenon DEF handleBidirectionalStreaming

(* The other handlers: the headers once the request has been read, ... *)
LEMMA StartsResponse ==
  ASSUME GrpcInv, open, ResponseInv, handler = "reading", Say(Headers(TRUE)),
         handler' = "writing", took' = rpc.responses, UNCHANGED << selection, at, read >>
  PROVE  /\ WellFormed' /\ ExecutorReads' /\ ResponseInv' /\ took' \in Nat
         /\ down' \in Seq(Events) /\ log' \in Seq(Events)
<1>1. log = << >> /\ RightLog  BY Zenon DEF ResponseInv
<1>f. rpc.responses \in Nat  BY OpenFacts, RpcFacts, Zenon
<1>2. Len(log) = 0 /\ Len(log) + 1 = 1 /\ Len(log) <= rpc.responses + 1
  BY <1>1, <1>f, SMT
<1>3. Expect(Len(log) + 1) = Headers(TRUE)  BY <1>2, Zenon DEF Expect
<1>4. /\ WellFormed' /\ ExecutorReads' /\ RightLog' /\ down' \in Seq(Events)
      /\ log' \in Seq(Events) /\ Len(log') = Len(log) + 1 /\ log' # << >>
  BY <1>1, <1>2, <1>3, SayExpected, Zenon
<1>5. Len(log') + took' = rpc.responses + 1  BY <1>2, <1>4, <1>f, SMT
<1>r. rpc' = rpc  BY KeepRpc, Zenon
<1> QED BY <1>f, <1>4, <1>5, <1>r, Zenon DEF ResponseInv

(* ... then its messages, and the trailers. *)
LEMMA WritesResponse ==
  ASSUME GrpcInv, open, ResponseInv, handler = "writing", WriteResponse,
         UNCHANGED << selection, at, read >>
  PROVE  /\ WellFormed' /\ ExecutorReads' /\ ResponseInv' /\ took' \in Nat
         /\ down' \in Seq(Events) /\ log' \in Seq(Events)
<1>1. RightLog /\ log # << >> /\ Len(log) + took = rpc.responses + 1
  BY Zenon DEF ResponseInv
<1>f. rpc.responses \in Nat /\ log \in Seq(Events) /\ took \in Nat
  BY OpenFacts, RpcFacts, Zenon DEF GrpcInv, GrpcTypes
<1>2. /\ Len(log) \in Nat /\ Len(log) + 1 # 1 /\ Len(log) <= rpc.responses + 1
      /\ (took > 0 => Len(log) + 1 <= rpc.responses + 1)
      /\ (~(took > 0) => ~(Len(log) + 1 <= rpc.responses + 1))
      /\ (took > 0 => took - 1 \in Nat /\ Len(log) + 1 + (took - 1) = rpc.responses + 1)
  BY <1>1, <1>f, SMT
<1>r. rpc' = rpc  BY KeepRpc, Zenon
<1>3. Say(Expect(Len(log) + 1))  BY <1>2, Zenon DEF WriteResponse, Expect
<1>4. /\ WellFormed' /\ ExecutorReads' /\ RightLog' /\ down' \in Seq(Events)
      /\ log' \in Seq(Events) /\ Len(log') = Len(log) + 1 /\ log' # << >>
  BY <1>1, <1>2, <1>3, SayExpected, Zenon
<1>5. CASE took > 0
  <2>1. took' = took - 1 /\ handler' = handler  BY <1>5, Zenon DEF WriteResponse
  <2> QED BY <1>2, <1>4, <1>5, <1>r, <2>1, Zenon DEF ResponseInv
<1>6. CASE ~(took > 0)
  <2>1. took' = took /\ handler' = "returned"  BY <1>6, Zenon DEF WriteResponse
  <2> QED BY <1>f, <1>4, <2>1, Zenon DEF ResponseInv
<1> QED BY <1>5, <1>6, Zenon

(* A step of the packaged handler keeps the invariant. *)
LEMMA HandleInv == ASSUME GrpcInv, Handle PROVE GrpcInv'
<1>1. /\ target = "packaged" /\ open /\ handler \in {"reading", "writing"}
      /\ held' = (IF handler' = "holding" THEN elapsed ELSE held) /\ unsent' = unsent
      /\ UNCHANGED << selection, target, at, warm, done, opened, read, elapsed, started, latency,
                      failed, code, fault >>
  BY Zenon DEF Handle, executorVars
<1>f. /\ WellFormed /\ ExecutorReads /\ PackagedInv /\ selection.scenario \in DOMAIN specFor
      /\ down \in Seq(Events) /\ log \in Seq(Events)
  BY <1>1, OpenFacts, Zenon
<1>t. /\ up \in Seq({"message", "end"}) /\ took \in Nat /\ held \in Nat /\ elapsed \in Nat
  BY Zenon DEF GrpcInv, GrpcTypes
<1>r. rpc' = rpc /\ (bidirectional' <=> bidirectional)  BY <1>1, KeepRpc, Zenon
<1>m. rpc.mode \in {"echo", "trailers-only", "client-cancellation", "deadline-exceeded"}
  BY <1>f, RpcFacts, Zenon
<1>s. streaming \/ bidirectional => rpc.mode = "echo"
  <2>1. rpc.mode # "echo" => rpc.requests = 1 /\ rpc.responses = 0  BY <1>f, RpcFacts, Zenon
  <2>2. ~(1 > 1) /\ ~(0 > 1)  BY SMT
  <2> QED BY <2>1, <2>2, Zenon DEF streaming, bidirectional
<1>h. held' \in Nat /\ open'  BY <1>1, <1>t, Zenon DEF open
<1>q. ASSUME WellFormed', ExecutorReads', PackagedInv', took' \in Nat,
             up' \in Seq({"message", "end"}), down' \in Seq(Events), log' \in Seq(Events)
      PROVE  GrpcInv'
  <2>1. GrpcTypes'  BY <1>1, <1>h, <1>q, Zenon DEF GrpcInv, GrpcTypes
  <2> QED BY <1>1, <1>h, <1>q, <2>1, WithinCall, Zenon
<1>2. CASE bidirectional
  <2>1. handleBidirectionalStreaming  BY <1>2, Zenon DEF Handle, bidirectional
  <2>2. BidirectionalInv  BY <1>2, <1>f, Zenon DEF PackagedInv
  <2>3. handler = "reading"  BY <1>1, <2>2, Zenon DEF BidirectionalInv
  <2>4. /\ WellFormed' /\ ExecutorReads' /\ BidirectionalInv' /\ took' \in Nat
        /\ up' \in Seq({"message", "end"}) /\ down' \in Seq(Events) /\ log' \in Seq(Events)
    BY <1>1, <1>2, <2>1, <2>2, <2>3, BidirectionalHandle, Zenon
  <2>5. PackagedInv'  BY <1>2, <1>r, <1>s, <2>4, Zenon DEF PackagedInv
  <2> QED BY <1>q, <2>4, <2>5, Zenon
<1>3. ASSUME ~bidirectional, rpc.mode \in {"echo", "trailers-only"}, up' = up,
             WellFormed', ExecutorReads', ResponseInv', took' \in Nat,
             down' \in Seq(Events), log' \in Seq(Events)
      PROVE  GrpcInv'
  <2>1. PackagedInv'  BY <1>3, <1>r, Zenon DEF PackagedInv
  <2> QED BY <1>3, <1>q, <1>t, <2>1, Zenon
<1>4. CASE ~bidirectional /\ handler = "writing" /\ WriteResponse
  <2>1. rpc.mode \in {"echo", "trailers-only"}
    BY <1>4, <1>f, <1>m, Zenon DEF PackagedInv, CancellationInv, DeadlineInv
  <2>2. ResponseInv  BY <1>4, <1>f, <2>1, Zenon DEF PackagedInv
  <2>3. /\ WellFormed' /\ ExecutorReads' /\ ResponseInv' /\ took' \in Nat
        /\ down' \in Seq(Events) /\ log' \in Seq(Events)
    BY <1>1, <1>4, <2>2, WritesResponse, Zenon
  <2>4. up' = up  BY <1>4, Zenon DEF WriteResponse
  <2> QED BY <1>3, <1>4, <2>1, <2>3, <2>4, Zenon
<1>5. CASE ~bidirectional /\ handler = "reading" /\ ReadRequest
  <2>1. up # << >> /\ up' = Tail(up) /\ UNCHANGED << down, log, handler, took >>
    BY <1>5, Zenon DEF ReadRequest
  <2>2. WellFormed' /\ ExecutorReads'  BY <1>1, <1>f, <2>1, KeepReads, Zenon
  <2>3. up' \in Seq({"message", "end"})  BY <1>t, <2>1, UpLoses, Zenon
  <2>4. RightLog => RightLog'  BY <1>r, <2>1, Zenon DEF RightLog, Expect
  <2>5. (ResponseInv => ResponseInv') /\ (CancellationInv => CancellationInv')
    BY <1>r, <2>1, <2>4, Zenon DEF ResponseInv, CancellationInv
  <2>6. DeadlineInv => DeadlineInv'
    <3>1. held' = held  BY <1>1, <1>5, <2>1, Zenon
    <3> QED BY <1>1, <2>1, <3>1, Zenon DEF DeadlineInv
  <2>7. PackagedInv'  BY <1>5, <1>f, <1>r, <2>5, <2>6, Zenon DEF PackagedInv
  <2> QED BY <1>f, <1>t, <1>q, <2>1, <2>2, <2>3, <2>7, Zenon
<1>6. ASSUME ~bidirectional, handler = "reading", rpc.mode \in {"echo", "trailers-only"},
             Say(Headers(TRUE)), handler' = "writing", took' = rpc.responses, up' = up
      PROVE  GrpcInv'
  <2>1. ResponseInv  BY <1>6, <1>f, Zenon DEF PackagedInv
  <2>2. /\ WellFormed' /\ ExecutorReads' /\ ResponseInv' /\ took' \in Nat
        /\ down' \in Seq(Events) /\ log' \in Seq(Events)
    BY <1>1, <1>6, <2>1, StartsResponse, Zenon
  <2> QED BY <1>3, <1>6, <2>2, Zenon
<1>7. CASE ~bidirectional /\ handler = "reading" /\ streaming /\ handleStreaming
  BY <1>6, <1>7, <1>s, Zenon DEF handleStreaming
<1>8. CASE ~bidirectional /\ handler = "reading" /\ handleClientCancellation
  <2>1. /\ rpc.mode = "client-cancellation" /\ Say(Headers(TRUE)) /\ handler' = "holding"
        /\ UNCHANGED << up, took >>
    BY <1>8, Zenon DEF handleClientCancellation
  <2>2. RightLog /\ log = << >>  BY <1>8, <1>f, <2>1, Zenon DEF PackagedInv, CancellationInv
  <2>3. Len(log) + 1 = 1 /\ Len(log) <= rpc.responses + 1 /\ Len(log) + 1 <= 1
    <3>1. rpc.responses \in Nat  BY <1>f, RpcFacts, Zenon
    <3> QED BY <2>2, <3>1, SMT
  <2>4. Expect(Len(log) + 1) = Headers(TRUE)  BY <2>3, Zenon DEF Expect
  <2>5. /\ WellFormed' /\ ExecutorReads' /\ RightLog' /\ down' \in Seq(Events)
        /\ log' \in Seq(Events) /\ Len(log') = Len(log) + 1
    BY <1>1, <2>1, <2>2, <2>3, <2>4, SayExpected, Zenon
  <2>6. CancellationInv'  BY <2>1, <2>3, <2>5, Zenon DEF CancellationInv
  <2>7. PackagedInv'  BY <1>8, <1>r, <2>1, <2>6, Zenon DEF PackagedInv
  <2> QED BY <1>q, <1>t, <2>1, <2>5, <2>7, Zenon
<1>9. CASE ~bidirectional /\ handler = "reading" /\ handleRPC
  <2>1. CASE rpc.mode = "deadline-exceeded"
    <3>1. /\ handler' = "holding" /\ UNCHANGED << down, log, up >> /\ took' = rpc.responses
      BY <1>9, <2>1, Zenon DEF handleRPC
    <3>2. took' \in Nat  BY <3>1, <1>f, RpcFacts, Zenon
    <3>3. WellFormed' /\ ExecutorReads'  BY <1>1, <1>f, <3>1, KeepReads, Zenon
    <3>4. DeadlineInv'
      <4>1. started' <= held'
        <5>1. started <= elapsed  BY Zenon DEF GrpcInv, GrpcTypes
        <5> QED BY <5>1, <1>1, <3>1, Zenon
      <4>2. DeadlineInv  BY <2>1, <1>f, Zenon DEF PackagedInv
      <4>3. log = << >>  BY <1>9, <4>2, Zenon DEF DeadlineInv
      <4> QED BY <1>1, <3>1, <4>1, <4>2, <4>3, Zenon DEF DeadlineInv
    <3>5. PackagedInv'  BY <1>9, <2>1, <1>r, <3>4, Zenon DEF PackagedInv
    <3> QED BY <1>f, <1>t, <1>q, <3>1, <3>2, <3>3, <3>5, Zenon
  <2>2. CASE rpc.mode # "deadline-exceeded"
    <3>1. /\ handler' = "writing" /\ Say(Headers(TRUE)) /\ took' = rpc.responses /\ up' = up
          /\ rpc.mode \in {"echo", "trailers-only"}
      BY <1>9, <2>2, <1>m, Zenon DEF handleRPC
    <3> QED BY <1>6, <1>9, <3>1, Zenon
  <2> QED BY <2>1, <2>2, Zenon
<1> QED BY <1>2, <1>4, <1>5, <1>7, <1>8, <1>9, Zenon DEF Handle, bidirectional

(* The packaged handler wakes from its hold: the invariant is kept. *)
LEMMA HandlerWakesInv == ASSUME GrpcInv, HandlerWakes PROVE GrpcInv'
<1>1. /\ target = "packaged" /\ at = "roundtrip" /\ handler = "holding"
      /\ rpc.mode = "deadline-exceeded" /\ elapsed - held >= targetHolds
      /\ handler' = "returned" /\ Say(Headers(FALSE))
      /\ UNCHANGED << selection, target, at, warm, done, opened, read, elapsed, started, latency,
                      failed, code, fault >>
      /\ UNCHANGED << up, unsent, took, held >>
  BY Zenon DEF HandlerWakes, executorVars
<1>2. open /\ open'  BY <1>1, Zenon DEF open
<1>3. PackagedInv /\ DeadlineInv /\ selection.scenario \in DOMAIN specFor
  BY <1>1, <1>2, OpenFacts, Zenon DEF PackagedInv
<1>4. log = << >>  BY <1>1, <1>3, Zenon DEF DeadlineInv
<1>5. ~Ended
  <2>1. \A i : ~(i \in 1..Len(log))  BY <1>4, SMT
  <2> QED BY <2>1, Zenon DEF Ended
<1>6. Headers(FALSE) \in IF log = << >> THEN First ELSE Later  BY <1>4, Members, Zenon
<1>7. /\ WellFormed' /\ ExecutorReads' /\ down' \in Seq(Events) /\ log' \in Seq(Events)
  BY <1>1, <1>2, <1>5, <1>6, SayInv, Zenon
<1>8. log' = << Headers(FALSE) >> /\ log' # << >>
  <2>1. log' = Append(<< >>, Headers(FALSE))  BY <1>1, <1>4, Zenon DEF Say
  <2>2. \A x : Append(<< >>, x) = << x >> /\ << x >> # << >>  BY SMT
  <2> QED BY <2>1, <2>2, Zenon
<1>9. elapsed - started >= targetHolds
  <2>1. elapsed \in Nat /\ held \in Nat /\ started \in Nat  BY Zenon DEF GrpcInv, GrpcTypes
  <2>2. started <= held  BY <1>1, <1>3, Zenon DEF DeadlineInv
  <2> QED BY <1>1, <2>1, <2>2, Numbers, SMT
<1>10. DeadlineInv'  BY <1>1, <1>3, <1>8, <1>9, Zenon DEF DeadlineInv
<1>11. PackagedInv'
  <2>1. ~bidirectional
    <3>1. rpc.requests = 1  BY <1>1, <1>3, RpcFacts, Zenon
    <3>2. ~(1 > 1)  BY SMT
    <3> QED BY <3>1, <3>2, Zenon DEF bidirectional
  <2> QED BY <1>1, <1>10, <2>1, KeepRpc, Zenon DEF PackagedInv
<1>12. GrpcTypes'  BY <1>1, <1>7, Zenon DEF GrpcInv, GrpcTypes
<1> QED BY <1>1, <1>2, <1>7, <1>11, <1>12, WithinCall, Zenon

(* A step that changes nothing keeps the invariant. *)
LEMMA GrpcStutter == ASSUME GrpcInv, UNCHANGED grpcVars PROVE GrpcInv'
<1>1. UNCHANGED << selection, target, at, warm, done, opened, up, down, unsent, handler, took,
                   read, elapsed, started, held, latency, failed, code, log, cancelled, fault >>
  BY Zenon DEF grpcVars
<1>r. rpc' = rpc /\ (bidirectional' <=> bidirectional) /\ Calls' = Calls
  BY <1>1, KeepRpc, Zenon
<1>2. GrpcTypes' /\ Selected'  BY <1>1, Zenon DEF GrpcInv, GrpcTypes, Selected
<1>3. Counting'  BY <1>1, <1>r, Zenon DEF GrpcInv, Counting, open
<1>4. StreamOpen'
  <2>1. DeadlineInv => DeadlineInv'  BY <1>1, Zenon DEF DeadlineInv
  <2>2. PackagedInv /\ rpc.mode = "deadline-exceeded" => DeadlineInv  BY Zenon DEF PackagedInv
  <2>3. PackagedInv => PackagedInv'  BY <1>1, <2>1, <2>2, KeepPackaged, Zenon
  <2>4. WellFormed /\ ExecutorReads => WellFormed' /\ ExecutorReads'
    BY <1>1, KeepReads, Zenon
  <2> QED BY <1>1, <2>3, <2>4, Zenon DEF GrpcInv, StreamOpen, open
<1>5. GrpcPassIsEarned'  BY <1>1, <1>r, Zenon DEF GrpcInv, GrpcPassIsEarned
<1>6. PackagedGrpcPasses'  BY <1>1, <1>r, Zenon DEF GrpcInv, PackagedGrpcPasses
<1> QED BY <1>2, <1>3, <1>4, <1>5, <1>6, Zenon DEF GrpcInv

(* Every step of the executor, the target and the network keeps the         *)
(* invariant.                                                               *)
LEMMA GrpcStepInv == ASSUME GrpcInv, [GrpcNext]_grpcVars PROVE GrpcInv'
BY SelectInv, OpenChannelInv, RoundTripInv, ReadBodyInv, ContextFiresInv, JudgeInv,
   CancelCallInv, WriteRequestInv, HandleInv, HandlerWakesInv, ForeignAnswersInv,
   ForeignReadsInv, ClockInv, CallFailsInv, GrpcStutter, Zenon DEF GrpcNext, GrpcExecutorStep

(* GrpcPassIsEarned holds for every number of channels, of responses and    *)
(* of steps, and whatever a server under test sends: exit code 0 means      *)
(* that every call saw the scenario's exact response.                       *)
THEOREM GrpcExitZeroIsEarned == GrpcSpec => []GrpcPassIsEarned
<1>1. GrpcInit => GrpcInv  BY GrpcInitInv
<1>2. GrpcInv /\ [GrpcNext]_grpcVars => GrpcInv'  BY GrpcStepInv
<1>3. GrpcInv => GrpcPassIsEarned  BY DEF GrpcInv
<1> QED BY <1>1, <1>2, <1>3, PTL DEF GrpcSpec

(* PackagedGrpcPasses holds: the executor and its packaged target agree on  *)
(* every scenario, and only a network fault, or in the deadline scenario an *)
(* executor that lost time before its call or noticed its end too late,     *)
(* makes such a pair fail; whenever things happen.                          *)
THEOREM PackagedGrpcPairPasses == GrpcSpec => []PackagedGrpcPasses
<1>1. GrpcInit => GrpcInv  BY GrpcInitInv
<1>2. GrpcInv /\ [GrpcNext]_grpcVars => GrpcInv'  BY GrpcStepInv
<1>3. GrpcInv => PackagedGrpcPasses  BY DEF GrpcInv
<1> QED BY <1>1, <1>2, <1>3, PTL DEF GrpcSpec

-----------------------------------------------------------------------------
(***************************************************************************)
(* Proofs for RawQuicStream, for every payload size, read size, window and *)
(* modulus that StreamAssumption admits.                                   *)
(*                                                                         *)
(* What the server has read, what is under way and what is still to be     *)
(* written always make up the request (Carried); what the client has taken *)
(* and what is under way is the answer to the whole request as far as it   *)
(* was written (DownInv). At the end of the stream nothing is under way,   *)
(* so lengths and contents are those that are due.                         *)
(***************************************************************************)

(* The sequence s is what w holds after its first k items. *)
Agree(s, k, w) == \A i \in 1..Len(s) : s[i] = w[k + i]

(* Sequences of one length with the same items are equal. *)
LEMMA SameItems ==
  ASSUME NEW s \in Seq(Symbols), NEW t \in Seq(Symbols), Len(s) = Len(t),
         \A i \in 1..Len(s) : s[i] = t[i]
  PROVE  s = t
OBVIOUS

(* Nothing agrees with anything. *)
LEMMA AgreeEmpty == ASSUME NEW k, NEW w PROVE Agree(<< >>, k, w)
BY DEF Agree

(* An item that is the next one may be added. *)
LEMMA AgreeAppend ==
  ASSUME NEW s \in Seq(Symbols), NEW k \in Nat, NEW w, NEW x \in Symbols, Agree(s, k, w),
         x = w[k + Len(s) + 1]
  PROVE  /\ Append(s, x) \in Seq(Symbols) /\ Len(Append(s, x)) = Len(s) + 1
         /\ Agree(Append(s, x), k, w)
BY DEF Agree

(* The first item may be taken away. *)
LEMMA AgreeTail ==
  ASSUME NEW s \in Seq(Symbols), NEW k \in Nat, NEW w, Agree(s, k, w), s # << >>
  PROVE  /\ Head(s) \in Symbols /\ Head(s) = w[k + 1] /\ Tail(s) \in Seq(Symbols)
         /\ Len(Tail(s)) = Len(s) - 1 /\ Agree(Tail(s), k + 1, w)
<1>1. /\ Head(s) \in Symbols /\ Head(s) = s[1] /\ Tail(s) \in Seq(Symbols)
      /\ Len(Tail(s)) = Len(s) - 1 /\ Len(s) \in Nat \ {0}
  BY SMT
<1>2. Head(s) = w[k + 1]  BY <1>1, SMT DEF Agree
<1>3. ASSUME NEW i \in 1..Len(Tail(s)) PROVE Tail(s)[i] = w[k + 1 + i]
  <2>1. Tail(s)[i] = s[i + 1] /\ i + 1 \in 1..Len(s)  BY <1>1, SMT
  <2>2. k + (i + 1) = k + 1 + i  BY <1>1, SMT
  <2> QED BY <2>1, <2>2, Zenon DEF Agree
<1> QED BY <1>1, <1>2, <1>3, Zenon DEF Agree

(* The first n items may be taken away, as a read of n bytes does. *)
LEMMA AgreeRest ==
  ASSUME NEW s \in Seq(Symbols), NEW k \in Nat, NEW w, Agree(s, k, w), NEW n \in Nat,
         n <= Len(s)
  PROVE  /\ Rest(s, n) \in Seq(Symbols) /\ Len(Rest(s, n)) = Len(s) - n
         /\ Agree(Rest(s, n), k + n, w)
<1>1. /\ Rest(s, n) \in Seq(Symbols) /\ Len(Rest(s, n)) = Len(s) - n /\ Len(s) \in Nat
      /\ \A i \in 1..(Len(s) - n) : Rest(s, n)[i] = s[n + i]
  BY SMTT(30) DEF Rest
<1>2. ASSUME NEW i \in 1..Len(Rest(s, n)) PROVE Rest(s, n)[i] = w[k + n + i]
  <2>1. i \in 1..(Len(s) - n)  BY <1>1, Zenon
  <2>2. n + i \in 1..Len(s) /\ k + (n + i) = k + n + i  BY <1>1, <2>1, SMTT(30)
  <2>3. s[n + i] = w[k + (n + i)]  BY <2>2, Zenon DEF Agree
  <2> QED BY <1>1, <2>1, <2>2, <2>3, Zenon
<1> QED BY <1>1, <1>2, Zenon DEF Agree

(* The sizes of the model as numbers. *)
LEMMA Sizes ==
  /\ MaxLength \in Nat /\ maxReadBytes \in Nat /\ MaxLength >= 4 /\ maxReadBytes >= 4
  /\ Modulus \in Nat /\ Modulus > 0 /\ BufferLength \in Nat /\ BufferLength > 0
  /\ Credit \in Nat /\ Credit > 0
BY StreamAssumption, SMT DEF MiB16

(* The echo limits the executor's defaults name. *)
LEMMA EchoLimits ==
  ASSUME NEW s PROVE defaultEchoMaxSizeForScenario(s) \in 0..3
<1>1. defaultEchoMaxSizeForScenario(s) \in {0, KiB1, MiB1, KiB64}
  BY Zenon DEF defaultEchoMaxSizeForScenario
<1> QED BY <1>1, SMT DEF KiB1, KiB64, MiB1

(* What parseOptions accepts, from a scenario or from flags. *)
LEMMA OptsFacts ==
  ASSUME opts \in FromScenario \cup FromFlags
  PROVE  /\ opts.direction \in Directions /\ opts.size \in 0..MaxLength
         /\ opts.behavior \in {"request", "duplex"} /\ opts.echoMax \in 0..3
<1>1. CASE opts \in FromFlags
  BY <1>1, SMT DEF FromFlags, KiB64
<1>2. CASE opts \in FromScenario
  <2>1. PICK s \in DOMAIN Supported :
          opts = [direction |-> Supported[s][1], size |-> Supported[s][2],
                  behavior |-> Supported[s][3], echoMax |-> defaultEchoMaxSizeForScenario(s),
                  supported |-> TRUE]
    BY <1>2, Zenon DEF FromScenario
  <2>2. /\ Supported[s][1] \in Directions /\ Supported[s][2] \in 1..4
        /\ Supported[s][3] \in {"request", "duplex"}
    BY SMT DEF Supported, Directions, KiB1, KiB64, MiB1, MiB16
  <2>3. opts.size \in 1..4 /\ opts.echoMax \in 0..3
    BY <2>1, <2>2, EchoLimits, Zenon
  <2> QED BY <2>1, <2>2, <2>3, Sizes, SMT
<1> QED BY <1>1, <1>2, Zenon

(* The deterministic payload: its length and its symbols. *)
LEMMA PayloadType ==
  ASSUME NEW n \in 0..MaxLength
  PROVE  /\ Payload(n) \in Seq(Symbols) /\ Len(Payload(n)) = n
         /\ \A i \in 1..n : Payload(n)[i] \in 0..(Modulus - 1)
<1>1. \A i \in 1..n : (i - 1) % Modulus \in 0..(Modulus - 1) /\ (i - 1) % Modulus \in Symbols
  BY Sizes, SMT DEF Symbols
<1> QED BY <1>1, SMT DEF Payload

(* The server's chunked writer and the client's payload builder produce     *)
(* the same symbols.                                                        *)
LEMMA DeterministicPayload ==
  ASSUME NEW n \in 0..MaxLength PROVE writeDeterministicPayload(n) = Payload(n)
<1>1. ASSUME NEW i \in 1..n
      PROVE (LET k == (i - 1) % BufferLength
                 o == (i - 1) - k
             IN (o + k) % Modulus) = (i - 1) % Modulus
  BY Sizes, SMT
<1> QED BY <1>1, Zenon DEF writeDeterministicPayload, Payload

(* What the client sends: a download request of two symbols, or the         *)
(* payload.                                                                 *)
LEMMA RequestType ==
  ASSUME opts \in FromScenario \cup FromFlags
  PROVE  /\ Request \in Seq(Symbols)
         /\ Len(Request) <= MaxLength
         /\ opts.direction = "server-to-client" /\ opts.behavior = "request" =>
              Request = << Magic, opts.size >> /\ Len(Request) = 2
         /\ ~(opts.direction = "server-to-client" /\ opts.behavior = "request") =>
              Request = Payload(opts.size) /\ Len(Request) = opts.size
<1>1. opts.size \in 0..MaxLength /\ opts.size \in Symbols /\ Magic \in Symbols
  <2>1. opts.size \in 0..MaxLength  BY OptsFacts, Zenon
  <2>2. opts.size \in 0..(Modulus + MaxLength)  BY <2>1, Sizes, SMT
  <2> QED BY <2>1, <2>2, Zenon DEF Symbols
<1>2. << Magic, opts.size >> \in Seq(Symbols) /\ Len(<< Magic, opts.size >>) = 2
  BY <1>1, SMT
<1>3. 2 <= MaxLength /\ opts.size <= MaxLength  BY <1>1, Sizes, SMT
<1> QED BY <1>1, <1>2, <1>3, PayloadType, Zenon DEF Request, buildDownloadRequest

(* The server never takes a payload for a download request. *)
LEMMA ParsePayload ==
  ASSUME NEW n \in 0..MaxLength PROVE parseDownloadRequest(Payload(n)) = 0
<1>1. CASE n = 2
  <2>1. Payload(n)[1] \in 0..(Modulus - 1)  BY <1>1, PayloadType, SMT
  <2>2. Payload(n)[1] # Magic  BY <2>1, SMT DEF Magic
  <2> QED BY <2>2, Zenon DEF parseDownloadRequest
<1>2. CASE n # 2  BY <1>2, PayloadType, Zenon DEF parseDownloadRequest
<1> QED BY <1>1, <1>2, Zenon

(* The three directions. *)
LEMMA Directed == ASSUME opts \in FromScenario \cup FromFlags
 PROVE opts.direction \in {"client-to-server", "server-to-client", "bidirectional"}
BY OptsFacts, Zenon DEF Directions

(* What Agreed says of each kind of stream. *)
LEMMA AgreedCases ==
  ASSUME opts \in FromScenario \cup FromFlags, Agreed
  PROVE  /\ opts.direction = "client-to-server" => opts.size > opts.echoMax \/ opts.size = 0
         /\ opts.direction = "server-to-client" /\ opts.behavior = "request" =>
              opts.size \in 1..maxReadBytes
         /\ /\ opts.direction # "client-to-server"
            /\ ~(opts.direction = "server-to-client" /\ opts.behavior = "request")
            => opts.size <= opts.echoMax \/ opts.size = 0
<1>1. CASE opts.direction = "client-to-server"  BY <1>1, Zenon DEF Agreed
<1>2. CASE opts.direction = "server-to-client" /\ opts.behavior = "request"
  BY <1>2, Zenon DEF Agreed
<1>3. CASE /\ opts.direction # "client-to-server"
           /\ ~(opts.direction = "server-to-client" /\ opts.behavior = "request")
  BY <1>3, Zenon DEF Agreed
<1> QED BY <1>1, <1>2, <1>3, Zenon

(* What the server answers to a request that arrived whole. *)
LEMMA AnswerType ==
  ASSUME opts \in FromScenario \cup FromFlags
  PROVE  Answer(Request) \in Seq(Symbols) /\ Len(Answer(Request)) \in 0..MaxLength
<1>0. << >> \in Seq(Symbols) /\ Len(<< >>) \in 0..MaxLength  BY Sizes, SMT
<1>1. Request \in Seq(Symbols) /\ Len(Request) \in 0..MaxLength
  <2>1. Request \in Seq(Symbols) /\ Len(Request) <= MaxLength  BY RequestType, Zenon
  <2> QED BY <2>1, Sizes, SMT
<1>2. parseDownloadRequest(Request) \in 0..MaxLength
  <2>1. CASE opts.direction = "server-to-client" /\ opts.behavior = "request"
    <3>1. Request = << Magic, opts.size >>  BY <2>1, RequestType, Zenon
    <3>2. Request[2] = opts.size  BY <3>1, SMT
    <3>3. opts.size \in 0..MaxLength /\ 0 \in 0..MaxLength  BY OptsFacts, Sizes, SMT
    <3> QED BY <3>2, <3>3, Zenon DEF parseDownloadRequest
  <2>2. CASE ~(opts.direction = "server-to-client" /\ opts.behavior = "request")
    <3>1. Request = Payload(opts.size)  BY <2>2, RequestType, Zenon
    <3>2. parseDownloadRequest(Request) = 0  BY <3>1, ParsePayload, OptsFacts, Zenon
    <3> QED BY <3>2, Sizes, SMT
  <2> QED BY <2>1, <2>2, Zenon
<1> DEFINE n == parseDownloadRequest(Request)
<1>3. writeDeterministicPayload(n) \in Seq(Symbols)
      /\ Len(writeDeterministicPayload(n)) \in 0..MaxLength
  BY <1>2, DeterministicPayload, PayloadType, Zenon
<1> QED BY <1>0, <1>1, <1>3, Zenon DEF Answer

(* Where client and server agree, a complete request is answered with what  *)
(* the client expects. *)
LEMMA AgreedAnswer ==
  ASSUME opts \in FromScenario \cup FromFlags, Agreed
  PROVE  Answer(Request) = IF opts.direction = "client-to-server" THEN << >>
                           ELSE Payload(opts.size)
<1>0. opts.size \in 0..MaxLength /\ opts.echoMax \in 0..3  BY OptsFacts, Zenon
<1>1. CASE opts.direction = "server-to-client" /\ opts.behavior = "request"
  <2>1. Request = << Magic, opts.size >> /\ opts.size \in 1..maxReadBytes
    BY <1>1, RequestType, AgreedCases, Zenon
  <2>2. Len(Request) = 2 /\ Request[1] = Magic /\ Request[2] = opts.size  BY <2>1, SMT
  <2>3. parseDownloadRequest(Request) = opts.size
    BY <2>1, <2>2, Zenon DEF parseDownloadRequest
  <2>4. opts.size > 0  BY <2>1, Sizes, SMT
  <2>5. Answer(Request) = writeDeterministicPayload(opts.size)  BY <2>3, <2>4, Zenon DEF Answer
  <2>6. opts.direction # "client-to-server"  BY <1>1, Zenon
  <2> QED BY <2>5, <2>6, <1>0, DeterministicPayload, Zenon
<1>2. CASE ~(opts.direction = "server-to-client" /\ opts.behavior = "request")
  <2>1. Request = Payload(opts.size) /\ Len(Request) = opts.size
    BY <1>2, RequestType, Zenon
  <2>2. parseDownloadRequest(Request) = 0  BY <2>1, <1>0, ParsePayload, Zenon
  <2>3. Answer(Request) = IF Len(Request) > opts.echoMax THEN << >> ELSE Request
    <3>1. ~(0 > 0)  BY SMT
    <3> QED BY <2>2, <3>1, Zenon DEF Answer
  <2>4. opts.size = 0 => Payload(opts.size) = << >>
    BY SMT DEF Payload
  <2>5. CASE opts.size = 0  BY <2>5, <2>1, <2>3, <2>4, Zenon
  <2>6. CASE opts.size # 0 /\ opts.direction = "client-to-server"
    <3>1. opts.size > opts.echoMax  BY <2>6, AgreedCases, Zenon
    <3> QED BY <3>1, <2>1, <2>3, <2>6, Zenon
  <2>7. CASE opts.size # 0 /\ opts.direction # "client-to-server"
    <3>1. opts.size <= opts.echoMax  BY <2>7, <1>2, AgreedCases, Zenon
    <3>2. ~(opts.size > opts.echoMax)  BY <3>1, <1>0, SMT
    <3> QED BY <3>2, <2>1, <2>3, <2>7, Zenon
  <2> QED BY <2>5, <2>6, <2>7, Zenon
<1> QED BY <1>1, <1>2, Zenon

-----------------------------------------------------------------------------
(* The answer to the whole request. *)
AnswerDue == Answer(Request)

(* The variables keep their types. *)
StreamTypes ==
  /\ opts \in FromScenario \cup FromFlags
  /\ client \in {"open", "write", "read", "drain", "done"}
  /\ reader \in {"none", "read", "eof", "error"}
  /\ toSend \in Seq(Symbols) /\ req \in Seq(Symbols) /\ resp \in Seq(Symbols)
  /\ payload \in Seq(Symbols)
  /\ Len(req) <= Credit /\ Len(resp) <= Credit
  /\ upFin \in BOOLEAN /\ downFin \in BOOLEAN
  /\ server \in {"idle", "read", "answer", "close", "closed"}
  /\ cutoff \in {"none", "broken", "deadline"} /\ outcome \in Outcomes

(* The stream was never opened: nothing has been sent. *)
Unopened ==
  /\ client \in {"open", "done"} /\ outcome \in {"none", "failed", "timeout"}
  /\ toSend = << >> /\ req = << >> /\ payload = << >> /\ ~upFin /\ server = "idle"
  /\ reader = "none"

(* The server's payload, what is in flight and what is still to be written  *)
(* make up the request, in this order.                                      *)
Carried ==
  /\ client # "open"
  /\ Len(payload) + Len(req) + Len(toSend) = Len(Request)
  /\ Agree(payload, 0, Request) /\ Agree(req, Len(payload), Request)
  /\ Agree(toSend, Len(payload) + Len(req), Request)

(* Before the stream is opened nothing was sent; after it what the server   *)
(* has read, what is under way and what is still to be sent make up the     *)
(* request.                                                                 *)
UpInv ==
  /\ Unopened \/ Carried
  /\ upFin => toSend = << >>

(* What the client has taken and what is in flight is the answer to the     *)
(* whole request as far as the server has written it.                       *)
DownInv ==
  /\ offset \in 0..Len(AnswerDue) /\ received \in Nat /\ received + Len(resp) = offset
  /\ Agree(resp, received, AnswerDue)
  /\ offset # 0 => payload = Request
  /\ server \in {"idle", "read", "close"} => offset = 0
  /\ server # "closed" => ~downFin
  /\ server = "answer" => payload = Request /\ Len(payload) <= maxReadBytes
  /\ server = "close" => Len(payload) > maxReadBytes
  /\ downFin => \/ payload = Request /\ offset = Len(AnswerDue)
                \/ Len(payload) > maxReadBytes /\ offset = 0

(* What runRequestResponseStream has let pass is the expected payload. *)
Checked ==
  opts.behavior = "request" /\ opts.direction # "client-to-server" /\ client # "done" =>
    /\ received <= opts.size
    /\ \A i \in 1..received : AnswerDue[i] = Payload(opts.size)[i]

(* Where the client stands: it is done when it has an outcome, drains or    *)
(* stops reading only after the stream was cut off, and succeeds only       *)
(* after the server closed its half.                                        *)
ClientInv ==
  /\ client = "done" <=> outcome # "none"
  /\ reader # "none" => opts.behavior = "duplex"
  /\ client = "drain" \/ reader = "error" => cutoff # "none"
  /\ reader = "eof" => downFin /\ resp = << >>
  /\ outcome = "ok" => server = "closed" /\ reader # "read"

(* The inductive invariant. *)
StreamInv ==
  /\ StreamTypes /\ UpInv /\ DownInv /\ Checked /\ ClientInv
  /\ SuccessIsExact /\ FailureHasCause

(* What is due depends on the options, which never change. *)
LEMMA Fixed ==
  ASSUME opts' = opts
  PROVE  /\ Request' = Request /\ AnswerDue' = AnswerDue /\ Expected' = Expected
         /\ Agreed' = Agreed /\ (Answer(payload)' = Answer(payload'))
<1>1. Request' = Request  BY Zenon DEF Request
<1>2. AnswerDue' = AnswerDue  BY <1>1, Zenon DEF AnswerDue, Answer
<1>3. Expected' = Expected /\ Agreed' = Agreed  BY Zenon DEF Expected, Agreed
<1>4. Answer(payload)' = Answer(payload')  BY Zenon DEF Answer
<1> QED BY <1>1, <1>2, <1>3, <1>4, Zenon

(* The request and the answer that is due are finite. *)
LEMMA WholeType ==
  ASSUME StreamTypes
  PROVE  /\ AnswerDue \in Seq(Symbols) /\ Len(AnswerDue) \in 0..MaxLength
         /\ Request \in Seq(Symbols) /\ Len(Request) \in Nat
<1>1. opts \in FromScenario \cup FromFlags  BY Zenon DEF StreamTypes
<1>2. AnswerDue \in Seq(Symbols) /\ Len(AnswerDue) \in 0..MaxLength /\ Request \in Seq(Symbols)
  BY <1>1, AnswerType, RequestType, Zenon DEF AnswerDue
<1> QED BY <1>2, SMT

(* The empty sequence. *)
LEMMA EmptySeqs ==
  /\ << >> \in Seq(Symbols) /\ Len(<< >>) = 0
OBVIOUS

(* The invariant holds before the stream is opened. *)
LEMMA StreamInitInv == StreamInit => StreamInv
<1> SUFFICES ASSUME StreamInit PROVE StreamInv  OBVIOUS
<1>1. StreamTypes
  <2>1. 0 <= Credit  BY Sizes, SMT
  <2> QED BY <2>1, EmptySeqs, Zenon DEF StreamInit, StreamTypes, Outcomes
<1>2. UpInv  BY Zenon DEF StreamInit, UpInv, Unopened
<1>3. DownInv
  <2>1. offset = 0 /\ received = 0 /\ resp = << >> /\ server = "idle" /\ downFin = FALSE
    BY Zenon DEF StreamInit
  <2>2. offset \in 0..Len(AnswerDue) /\ received \in Nat /\ received + Len(resp) = offset
    BY <1>1, <2>1, WholeType, SMT
  <2>3. Agree(resp, received, AnswerDue)  BY <2>1, AgreeEmpty, Zenon
  <2> QED BY <2>1, <2>2, <2>3, Zenon DEF DownInv
<1>4. Checked
  <2>1. received = 0 /\ opts.size \in 0..MaxLength
    BY <1>1, OptsFacts, Zenon DEF StreamInit, StreamTypes
  <2> QED BY <2>1, Sizes, SMT DEF Checked
<1>5. ClientInv /\ SuccessIsExact /\ FailureHasCause
  BY Zenon DEF StreamInit, ClientInv, SuccessIsExact, FailureHasCause
<1> QED BY <1>1, <1>2, <1>3, <1>4, <1>5, Zenon DEF StreamInv

(* At the end of an answer the client has taken what it expects, when it    *)
(* and the server agree.                                                    *)
LEMMA ReceivedLength ==
  ASSUME StreamTypes, UpInv, DownInv, downFin, resp = << >>
  PROVE  /\ received = offset
         /\ Len(payload) > maxReadBytes =>
              /\ ~(opts.direction = "server-to-client" /\ opts.behavior = "request")
              /\ opts.size > maxReadBytes
<1>1. received = offset
  <2>1. received \in Nat /\ received + Len(resp) = offset  BY Zenon DEF DownInv
  <2> QED BY <2>1, EmptySeqs, SMT
<1>2. ASSUME Len(payload) > maxReadBytes
      PROVE  /\ ~(opts.direction = "server-to-client" /\ opts.behavior = "request")
             /\ opts.size > maxReadBytes
  <2>1. payload # << >>  BY <1>2, EmptySeqs, Sizes, SMT
  <2>2. Carried  BY <2>1, Zenon DEF UpInv, Unopened
  <2>3. Len(payload) <= Len(Request)
    <3>1. /\ Len(payload) + Len(req) + Len(toSend) = Len(Request)
          /\ payload \in Seq(Symbols) /\ req \in Seq(Symbols) /\ toSend \in Seq(Symbols)
      BY <2>2, Zenon DEF Carried, StreamTypes
    <3> QED BY <3>1, WholeType, SMT
  <2>4. Len(Request) > maxReadBytes /\ Len(Request) # 2
    <3>1. payload \in Seq(Symbols) /\ Len(Request) \in Nat  BY WholeType, Zenon DEF StreamTypes
    <3>2. Len(payload) \in Nat  BY <3>1, SMT
    <3>3. Len(payload) > maxReadBytes /\ maxReadBytes >= 4 /\ maxReadBytes \in Nat
      BY <1>2, Sizes, Zenon
    <3>4. \A a, b, m \in Nat : b > m /\ m >= 4 /\ b <= a => a > m /\ a # 2  BY SMT
    <3> QED BY <3>1, <3>2, <3>3, <3>4, <2>3, Zenon
  <2> QED BY <2>4, RequestType, Zenon DEF StreamTypes
<1> QED BY <1>1, <1>2, Zenon

(* A client that has read to the end of an agreed direction has received    *)
(* exactly as many bytes as it expects.                                     *)
LEMMA AgreedEnd ==
  ASSUME StreamTypes, UpInv, DownInv, downFin, resp = << >>, Agreed
  PROVE  received = Expected
<1>o. opts \in FromScenario \cup FromFlags  BY Zenon DEF StreamTypes
<1>1. received = offset  BY ReceivedLength, Zenon
<1>2. opts.size \in 0..MaxLength /\ opts.echoMax \in 0..3  BY <1>o, OptsFacts, Zenon
<1>3. CASE payload = Request /\ offset = Len(AnswerDue)
  <2>1. Len(AnswerDue) = Expected
    BY <1>o, <1>2, AgreedAnswer, PayloadType, EmptySeqs, Zenon DEF AnswerDue, Expected
  <2> QED BY <2>1, <1>1, <1>3, Zenon
<1>4. CASE Len(payload) > maxReadBytes /\ offset = 0
  <2>1. opts.direction = "client-to-server"
    <3>1. SUFFICES ASSUME opts.direction # "client-to-server" PROVE FALSE  OBVIOUS
    <3>2. /\ ~(opts.direction = "server-to-client" /\ opts.behavior = "request")
          /\ opts.size > maxReadBytes
      BY <1>4, ReceivedLength, Zenon
    <3>3. opts.size <= opts.echoMax \/ opts.size = 0
      BY <3>1, <3>2, <1>o, AgreedCases, Zenon
    <3> QED BY <3>2, <3>3, <1>2, Sizes, SMT
  <2> QED BY <2>1, <1>1, <1>4, Zenon DEF Expected
<1> QED BY <1>3, <1>4, Zenon DEF DownInv

(* A client that has received what it expects talked to a server that has   *)
(* read exactly its request.                                                *)
LEMMA ExactEnd ==
  ASSUME StreamTypes, UpInv, DownInv, Checked, client # "done", downFin, resp = << >>,
         received = Expected
  PROVE  /\ opts.size <= maxReadBytes => payload = Request
         /\ opts.behavior = "request" /\ opts.direction # "client-to-server"
              /\ opts.size > 0 => Answer(payload) = Payload(opts.size)
<1>o. opts \in FromScenario \cup FromFlags  BY Zenon DEF StreamTypes
<1>1. received = offset  BY ReceivedLength, Zenon
<1>2. opts.size \in 0..MaxLength  BY <1>o, OptsFacts, Zenon
<1>3. CASE payload = Request /\ offset = Len(AnswerDue)
  <2>1. ASSUME opts.behavior = "request", opts.direction # "client-to-server"
        PROVE  Answer(payload) = Payload(opts.size)
    <3>1. Answer(payload) = AnswerDue  BY <1>3, Zenon DEF AnswerDue
    <3>2. Len(AnswerDue) = opts.size  BY <1>1, <1>3, <2>1, Zenon DEF Expected
    <3>3. \A i \in 1..Len(AnswerDue) : AnswerDue[i] = Payload(opts.size)[i]
      BY <1>1, <1>3, <2>1, Zenon DEF Checked
    <3>4. AnswerDue \in Seq(Symbols) /\ Payload(opts.size) \in Seq(Symbols)
          /\ Len(Payload(opts.size)) = opts.size
      BY <1>2, WholeType, PayloadType, Zenon
    <3> QED BY <3>1, <3>2, <3>3, <3>4, SameItems, Zenon
  <2> QED BY <2>1, <1>3, Zenon
<1>4. CASE Len(payload) > maxReadBytes /\ offset = 0
  <2>1. opts.size > maxReadBytes  BY <1>4, ReceivedLength, Zenon
  <2>2. ~(opts.size <= maxReadBytes)  BY <2>1, <1>2, Sizes, SMT
  <2>3. ASSUME opts.direction # "client-to-server", opts.size > 0 PROVE FALSE
    <3>1. opts.size = 0  BY <1>1, <1>4, <2>3, Zenon DEF Expected
    <3> QED BY <3>1, <2>3, SMT
  <2> QED BY <2>2, <2>3, Zenon
<1> QED BY <1>3, <1>4, Zenon DEF DownInv

-----------------------------------------------------------------------------
(* The bookkeeping of the answer is kept by steps that do not touch it. *)
LEMMA KeepDown ==
  ASSUME DownInv, opts' = opts, UNCHANGED << resp, downFin, received, server, payload, offset >>
  PROVE  DownInv'
<1>1. AnswerDue' = AnswerDue /\ Request' = Request  BY Fixed, Zenon
<1>2. Agree(resp, received, AnswerDue)'  BY <1>1, Zenon DEF DownInv, Agree
<1> QED BY <1>1, <1>2, Zenon DEF DownInv

(* So is that of the request. *)
LEMMA KeepCarried ==
  ASSUME Carried, opts' = opts, UNCHANGED << payload, req, toSend >>, client' # "open"
  PROVE  Carried'
<1>1. Request' = Request  BY Fixed, Zenon
<1> QED BY <1>1, Zenon DEF Carried, Agree

(* So is what the client has compared with the payload. *)
LEMMA KeepChecked ==
  ASSUME Checked, opts' = opts, received' = received, client' # "done" => client # "done"
  PROVE  Checked'
<1>1. AnswerDue' = AnswerDue  BY Fixed, Zenon
<1> QED BY <1>1, Zenon DEF Checked

(* An outcome that was exact stays exact. *)
LEMMA KeepSuccess ==
  ASSUME SuccessIsExact, opts' = opts, outcome' = outcome,
         outcome = "ok" => payload' = payload /\ received' = received
  PROVE  SuccessIsExact'
<1>1. /\ Request' = Request /\ Expected' = Expected /\ (Answer(payload)' = Answer(payload'))
  BY Fixed, Zenon
<1> QED BY <1>1, Zenon DEF SuccessIsExact

(* A failure that had a cause still has it. *)
LEMMA KeepCause ==
  ASSUME FailureHasCause, opts' = opts, outcome' = outcome,
         cutoff # "none" => cutoff' # "none"
  PROVE  FailureHasCause'
<1>1. Agreed' = Agreed  BY Fixed, Zenon
<1> QED BY <1>1, Zenon DEF FailureHasCause

(* runStream returns a failure or a timeout. *)
LEMMA ReturnsFailure ==
  ASSUME StreamInv, cutoff # "none", client # "done", client # "open" \/ Unopened,
         client' = "done", outcome' \in {"failed", "timeout"}, opts' = opts,
         UNCHANGED << reader, toSend, req, upFin, resp, downFin, received, server, payload,
                      offset, cutoff >>
  PROVE  StreamInv'
<1>2. StreamTypes'  BY Zenon DEF StreamInv, StreamTypes, Outcomes
<1>3. UpInv'
  <2>1. Carried => Carried'  BY KeepCarried, Zenon
  <2>2. Unopened => Unopened'  BY Zenon DEF Unopened
  <2> QED BY <2>1, <2>2, Zenon DEF StreamInv, UpInv
<1>4. DownInv'  BY KeepDown, Zenon DEF StreamInv
<1>5. Checked'  BY KeepChecked, Zenon DEF StreamInv
<1>6. ClientInv'  BY Zenon DEF StreamInv, ClientInv
<1>7. SuccessIsExact'  BY Zenon DEF SuccessIsExact
<1>8. FailureHasCause'  BY Zenon DEF FailureHasCause
<1> QED BY <1>2, <1>3, <1>4, <1>5, <1>6, <1>7, <1>8, Zenon DEF StreamInv

(* runStream has read to the end of the answer, and compares the length. *)
LEMMA ReturnsCounted ==
  ASSUME StreamInv, client \notin {"done", "open"}, downFin, resp = << >>, reader # "read",
         client' = "done", outcome' = (IF received = Expected THEN "ok" ELSE "mismatch"),
         opts' = opts,
         UNCHANGED << reader, toSend, req, upFin, resp, downFin, received, server, payload,
                      offset, cutoff >>
  PROVE  StreamInv'
<1>2. StreamTypes'  BY Zenon DEF StreamInv, StreamTypes, Outcomes
<1>3. UpInv'
  <2>1. Carried => Carried'  BY KeepCarried, Zenon
  <2>2. ~Unopened  BY Zenon DEF Unopened
  <2> QED BY <2>1, <2>2, Zenon DEF StreamInv, UpInv
<1>4. DownInv'  BY KeepDown, Zenon DEF StreamInv
<1>5. Checked'  BY KeepChecked, Zenon DEF StreamInv
<1>6. ClientInv'  BY Zenon DEF StreamInv, ClientInv, DownInv
<1>f. Request' = Request /\ Expected' = Expected /\ Agreed' = Agreed
      /\ (Answer(payload)' = Answer(payload'))
  BY Fixed, Zenon
<1>7. SuccessIsExact'
  <2>1. SUFFICES ASSUME outcome' = "ok"
                 PROVE  /\ opts.size <= maxReadBytes => payload = Request
                        /\ received = Expected
                        /\ opts.behavior = "request" /\ opts.direction # "client-to-server"
                             /\ opts.size > 0 => Answer(payload) = Payload(opts.size)
    BY <1>f, Zenon DEF SuccessIsExact
  <2>2. received = Expected  BY <2>1, Zenon
  <2> QED BY <2>2, ExactEnd, Zenon DEF StreamInv
<1>8. FailureHasCause'
  <2>1. ASSUME outcome' = "mismatch" PROVE ~Agreed
    <3>1. received # Expected  BY <2>1, Zenon
    <3> QED BY <3>1, AgreedEnd, Zenon DEF StreamInv
  <2> QED BY <2>1, <1>f, Zenon DEF FailureHasCause
<1> QED BY <1>2, <1>3, <1>4, <1>5, <1>6, <1>7, <1>8, Zenon DEF StreamInv

(* Opening the stream keeps the invariant. *)
LEMMA OpenInv == ASSUME StreamInv, Open PROVE StreamInv'
<1>1. /\ client = "open" /\ client' = "write" /\ toSend' = Request /\ opts' = opts
      /\ reader' = IF opts.behavior = "duplex" THEN "read" ELSE "none"
      /\ UNCHANGED << req, upFin, resp, downFin, received, server, payload, offset, cutoff,
                      outcome >>
  BY Zenon DEF Open, serverVars
<1>2. /\ Unopened /\ req = << >> /\ payload = << >> /\ upFin = FALSE /\ outcome = "none"
      /\ server = "idle"
  <2>1. Unopened  BY <1>1, Zenon DEF StreamInv, UpInv, Carried
  <2>2. outcome = "none"  BY <1>1, Zenon DEF StreamInv, ClientInv
  <2> QED BY <2>1, <2>2, Zenon DEF Unopened, StreamInv, StreamTypes
<1>f. Request' = Request  BY <1>1, Fixed, Zenon
<1>3. StreamTypes'
  <2>1. Request \in Seq(Symbols)  BY WholeType, Zenon DEF StreamInv
  <2> QED BY <2>1, <1>1, Zenon DEF StreamInv, StreamTypes
<1>4. UpInv'
  <2>1. /\ Len(payload)' + Len(req)' + Len(toSend)' = Len(Request)'
        /\ Agree(toSend, Len(payload) + Len(req), Request)'
    <3>1. Len(Request) \in Nat  BY WholeType, Zenon DEF StreamInv
    <3>2. Len(payload)' = 0 /\ Len(req)' = 0 /\ toSend' = Request /\ Request' = Request
      BY <1>1, <1>2, <1>f, EmptySeqs, Zenon
    <3> QED BY <3>1, <3>2, SMT DEF Agree
  <2>2. Agree(payload, 0, Request)' /\ Agree(req, Len(payload), Request)'
    <3>1. payload' = << >> /\ req' = << >>  BY <1>1, <1>2, Zenon
    <3> QED BY <3>1, AgreeEmpty, Zenon
  <2>3. client' # "open"  BY <1>1, Zenon
  <2> QED BY <2>1, <2>2, <2>3, <1>1, <1>2, Zenon DEF UpInv, Carried
<1>5. DownInv'  BY <1>1, KeepDown, Zenon DEF StreamInv
<1>6. Checked'  BY <1>1, KeepChecked, Zenon DEF StreamInv
<1>7. ClientInv'  BY <1>1, <1>2, Zenon DEF StreamInv, ClientInv
<1>8. SuccessIsExact' /\ FailureHasCause'
  BY <1>1, KeepSuccess, KeepCause, Zenon DEF StreamInv
<1> QED BY <1>3, <1>4, <1>5, <1>6, <1>7, <1>8, Zenon DEF StreamInv

(* One write of the client, limited by the window, keeps the invariant. *)
LEMMA WriteInv == ASSUME StreamInv, Write PROVE StreamInv'
<1>1. /\ client = "write" /\ toSend # << >> /\ Len(req) < Credit /\ opts' = opts
      /\ req' = Append(req, Head(toSend)) /\ toSend' = Tail(toSend)
      /\ UNCHANGED << client, reader, upFin, resp, downFin, received, server, payload, offset,
                      cutoff, outcome >>
  BY Zenon DEF Write, serverVars
<1>f. Request' = Request  BY <1>1, Fixed, Zenon
<1>2. Carried  BY <1>1, Zenon DEF StreamInv, UpInv, Unopened
<1>t. toSend \in Seq(Symbols) /\ req \in Seq(Symbols) /\ payload \in Seq(Symbols)
  BY Zenon DEF StreamInv, StreamTypes
<1>n. Len(payload) \in Nat /\ Len(req) \in Nat /\ Len(toSend) \in Nat
      /\ Len(payload) + Len(req) \in Nat
  BY <1>t, SMT
<1>3. /\ Head(toSend) \in Symbols /\ Head(toSend) = Request[Len(payload) + Len(req) + 1]
      /\ toSend' \in Seq(Symbols) /\ Len(toSend') = Len(toSend) - 1
      /\ Agree(toSend', Len(payload) + Len(req) + 1, Request)
  <2>1. Agree(toSend, Len(payload) + Len(req), Request)  BY <1>2, Zenon DEF Carried
  <2> QED BY <2>1, <1>1, <1>t, <1>n, AgreeTail, Zenon
<1>4. req' \in Seq(Symbols) /\ Len(req') = Len(req) + 1 /\ Agree(req', Len(payload), Request)
  <2>1. Agree(req, Len(payload), Request)  BY <1>2, Zenon DEF Carried
  <2>2. Head(toSend) \in Symbols /\ Head(toSend) = Request[Len(payload) + Len(req) + 1]
    BY <1>3, Zenon
  <2>3. /\ Append(req, Head(toSend)) \in Seq(Symbols)
        /\ Len(Append(req, Head(toSend))) = Len(req) + 1
        /\ Agree(Append(req, Head(toSend)), Len(payload), Request)
    BY <2>1, <2>2, <1>t, <1>n, AgreeAppend, Zenon
  <2> QED BY <2>3, <1>1, Zenon
<1>5. StreamTypes'
  <2>1. Len(req') <= Credit  BY <1>1, <1>4, <1>n, Sizes, SMT
  <2> QED BY <2>1, <1>1, <1>3, <1>4, Zenon DEF StreamInv, StreamTypes
<1>6. UpInv'
  <2>1. Len(payload)' + Len(req)' + Len(toSend)' = Len(Request)'
    <3>1. Len(payload) + Len(req) + Len(toSend) = Len(Request)  BY <1>2, Zenon DEF Carried
    <3>2. Len(payload)' = Len(payload) /\ Len(req)' = Len(req) + 1 /\ Len(toSend)' = Len(toSend) - 1
          /\ Len(Request)' = Len(Request)
      BY <1>1, <1>3, <1>4, <1>f, Zenon
    <3> QED BY <3>1, <3>2, <1>n, SMTT(30)
  <2>2. Agree(payload, 0, Request)' /\ Agree(req, Len(payload), Request)'
    BY <1>1, <1>2, <1>4, <1>f, Zenon DEF Carried, Agree
  <2>3. Agree(toSend, Len(payload) + Len(req), Request)'
    <3>1. Len(payload) + Len(req) + 1 = Len(payload') + Len(req')  BY <1>1, <1>4, <1>n, SMT
    <3> QED BY <3>1, <1>3, <1>f, Zenon DEF Agree
  <2>4. client' # "open" /\ ~upFin'  BY <1>1, Zenon DEF StreamInv, UpInv
  <2> QED BY <2>1, <2>2, <2>3, <2>4, Zenon DEF UpInv, Carried
<1>7. DownInv'  BY <1>1, KeepDown, Zenon DEF StreamInv
<1>8. Checked'  BY <1>1, KeepChecked, Zenon DEF StreamInv
<1>9. ClientInv'  BY <1>1, Zenon DEF StreamInv, ClientInv
<1>10. SuccessIsExact' /\ FailureHasCause'
  BY <1>1, KeepSuccess, KeepCause, Zenon DEF StreamInv
<1> QED BY <1>5, <1>6, <1>7, <1>8, <1>9, <1>10, Zenon DEF StreamInv

(* The end of the client's half keeps the invariant. *)
LEMMA CloseWritesInv == ASSUME StreamInv, CloseWrites PROVE StreamInv'
<1>1. /\ client = "write" /\ toSend = << >> /\ upFin' = TRUE /\ client' = "read" /\ opts' = opts
      /\ UNCHANGED << reader, toSend, req, resp, downFin, received, server, payload, offset,
                      cutoff, outcome >>
  BY Zenon DEF CloseWrites, serverVars
<1>2. StreamTypes'  BY <1>1, Zenon DEF StreamInv, StreamTypes
<1>3. UpInv'
  <2>1. Carried  BY <1>1, Zenon DEF StreamInv, UpInv, Unopened
  <2>2. Carried'
    <3>1. client' # "open"  BY <1>1, Zenon
    <3> QED BY <2>1, <3>1, <1>1, KeepCarried, Zenon
  <2> QED BY <2>2, <1>1, Zenon DEF UpInv
<1>4. DownInv'  BY <1>1, KeepDown, Zenon DEF StreamInv
<1>5. Checked'  BY <1>1, KeepChecked, Zenon DEF StreamInv
<1>6. ClientInv'  BY <1>1, Zenon DEF StreamInv, ClientInv
<1>7. SuccessIsExact' /\ FailureHasCause'
  BY <1>1, KeepSuccess, KeepCause, Zenon DEF StreamInv
<1> QED BY <1>2, <1>3, <1>4, <1>5, <1>6, <1>7, Zenon DEF StreamInv

(* The client takes n symbols: what remains agrees with the answer. *)
LEMMA TakesDown ==
  ASSUME StreamInv, NEW n \in 1..BufferLength, n <= Len(resp), opts' = opts,
         resp' = Rest(resp, n), received' = received + n,
         UNCHANGED << downFin, server, payload, offset >>
  PROVE  /\ DownInv' /\ resp' \in Seq(Symbols) /\ Len(resp') <= Credit /\ resp # << >>
         /\ received' <= Len(AnswerDue) /\ received' \in Nat /\ n \in Nat
<1>t. /\ resp \in Seq(Symbols) /\ Len(resp) \in Nat /\ received \in Nat /\ n \in Nat /\ n > 0
      /\ Len(resp) <= Credit /\ received + Len(resp) = offset /\ offset \in 0..Len(AnswerDue)
      /\ Agree(resp, received, AnswerDue) /\ Len(AnswerDue) \in Nat
  <2>1. resp \in Seq(Symbols) /\ Len(resp) <= Credit  BY Zenon DEF StreamInv, StreamTypes
  <2>2. /\ received \in Nat /\ received + Len(resp) = offset /\ offset \in 0..Len(AnswerDue)
        /\ Agree(resp, received, AnswerDue)
    BY Zenon DEF StreamInv, DownInv
  <2>3. Len(resp) \in Nat /\ n \in Nat /\ n > 0  BY <2>1, Sizes, SMT
  <2>4. Len(AnswerDue) \in Nat
    <3>1. Len(AnswerDue) \in 0..MaxLength  BY WholeType, Zenon DEF StreamInv
    <3> QED BY <3>1, Sizes, SMT
  <2> QED BY <2>1, <2>2, <2>3, <2>4, Zenon
<1>1. /\ resp' \in Seq(Symbols) /\ Len(resp') = Len(resp) - n
      /\ Agree(resp', received + n, AnswerDue)
  BY <1>t, AgreeRest, Zenon
<1>2. /\ received' \in Nat /\ received' + Len(resp') = offset /\ Len(resp') <= Credit
      /\ Len(resp) # 0 /\ received' <= Len(AnswerDue)
  BY <1>t, <1>1, Sizes, SMTT(30)
<1>3. resp # << >>  BY <1>2, EmptySeqs, Zenon
<1>f. AnswerDue' = AnswerDue /\ Request' = Request  BY Fixed, Zenon
<1>4. Agree(resp, received, AnswerDue)'  BY <1>1, <1>f, Zenon DEF Agree
<1>5. DownInv'  BY <1>2, <1>4, <1>f, Zenon DEF StreamInv, DownInv
<1> QED BY <1>t, <1>1, <1>2, <1>3, <1>5, Zenon

(* One read of the client, of any length, keeps the invariant. *)
LEMMA ReadInv == ASSUME StreamInv, NEW n \in 1..BufferLength, Read(n) PROVE StreamInv'
<1>1. /\ client = "read" /\ opts.behavior = "request" /\ n <= Len(resp) /\ opts' = opts
      /\ resp' = Rest(resp, n) /\ received' = received + n
      /\ UNCHANGED << reader, toSend, req, upFin, downFin, server, payload, offset, cutoff >>
  BY Zenon DEF Read, serverVars
<1> DEFINE valid == \/ opts.direction = "client-to-server"
                    \/ validateDeterministicPayloadChunk(Prefix(resp, n))
<1>2. IF valid THEN client' = client /\ outcome' = outcome
      ELSE client' = "done" /\ outcome' = "mismatch"
  BY Zenon DEF Read, Return
<1>3. /\ DownInv' /\ resp' \in Seq(Symbols) /\ Len(resp') <= Credit /\ resp # << >>
      /\ received' <= Len(AnswerDue) /\ received' \in Nat /\ n \in Nat
  BY <1>1, TakesDown, Zenon
<1>4. client' \in {"read", "done"} /\ outcome' \in Outcomes /\ outcome = "none"
      /\ (client' = "done" <=> outcome' # "none") /\ outcome' # "ok"
  BY <1>1, <1>2, Zenon DEF StreamInv, StreamTypes, ClientInv, Outcomes
<1>5. StreamTypes'  BY <1>1, <1>3, <1>4, ZenonT(30) DEF StreamInv, StreamTypes
<1>6. UpInv'
  <2>1. Carried  BY <1>1, Zenon DEF StreamInv, UpInv, Unopened
  <2>2. Carried'
    <3>1. client' # "open"  BY <1>4, Zenon
    <3> QED BY <2>1, <3>1, <1>1, KeepCarried, Zenon
  <2> QED BY <2>2, <1>1, Zenon DEF StreamInv, UpInv
<1>7. ClientInv'
  BY <1>1, <1>3, <1>4, Zenon DEF StreamInv, ClientInv
(* The chunk holds the next n symbols of the answer. *)
<1>8. /\ Len(Prefix(resp, n)) = n
      /\ \A i \in 1..n : Prefix(resp, n)[i] = AnswerDue[received + i]
  <2>1. /\ resp \in Seq(Symbols) /\ Agree(resp, received, AnswerDue) /\ received \in Nat
    BY Zenon DEF StreamInv, StreamTypes, DownInv
  <2> QED BY <2>1, <1>1, <1>3, SMT DEF Prefix, Agree
<1>o. opts \in FromScenario \cup FromFlags /\ received \in Nat
  BY Zenon DEF StreamInv, StreamTypes, DownInv
<1>s. opts.size \in 0..MaxLength  BY <1>o, OptsFacts, Zenon
<1>9. Checked'
  <2>1. SUFFICES ASSUME opts.direction # "client-to-server", client' # "done"
                 PROVE  /\ received' <= opts.size
                        /\ \A i \in 1..received' : AnswerDue[i] = Payload(opts.size)[i]
    BY <1>1, Fixed, Zenon DEF Checked
  <2>2. validateDeterministicPayloadChunk(Prefix(resp, n))  BY <2>1, <1>2, Zenon
  <2>3. /\ received + n <= opts.size
        /\ \A i \in 1..n : Prefix(resp, n)[i] = Payload(opts.size)[received + i]
    BY <2>2, <1>8, Zenon DEF validateDeterministicPayloadChunk
  <2>4. \A i \in 1..received : AnswerDue[i] = Payload(opts.size)[i]
    BY <1>1, <2>1, Zenon DEF StreamInv, Checked
  <2>5. ASSUME NEW i \in 1..received' PROVE AnswerDue[i] = Payload(opts.size)[i]
    <3>1. CASE i \in 1..received  BY <3>1, <2>4, Zenon
    <3>2. CASE i \notin 1..received
      <4>1. i - received \in 1..n /\ received + (i - received) = i
        BY <3>2, <1>1, <1>3, <1>o, SMT
      <4> QED BY <4>1, <2>3, <1>8, Zenon
    <3> QED BY <3>1, <3>2, Zenon
  <2> QED BY <2>3, <2>5, <1>1, Zenon
<1>10. SuccessIsExact'  BY <1>4, Zenon DEF SuccessIsExact
<1>11. FailureHasCause'
  <2>1. ASSUME outcome' = "mismatch" PROVE ~Agreed
    <3>1. SUFFICES ASSUME Agreed PROVE FALSE  OBVIOUS
    <3>2. ~valid  BY <2>1, <1>2, <1>4, Zenon
    <3>3. AnswerDue = Payload(opts.size)  BY <3>1, <3>2, <1>o, AgreedAnswer, Zenon DEF AnswerDue
    <3>4. received + n <= opts.size  BY <3>3, <1>1, <1>3, <1>s, PayloadType, Zenon
    <3>5. validateDeterministicPayloadChunk(Prefix(resp, n))
      BY <3>3, <3>4, <1>8, Zenon DEF validateDeterministicPayloadChunk
    <3> QED BY <3>2, <3>5, Zenon
  <2>2. Agreed' = Agreed  BY <1>1, Fixed, Zenon
  <2>3. outcome' \in {"none", "mismatch"}  BY <1>2, <1>4, Zenon
  <2> QED BY <2>1, <2>2, <2>3, Zenon DEF FailureHasCause
<1> QED BY <1>3, <1>5, <1>6, <1>7, <1>9, <1>10, <1>11, Zenon DEF StreamInv

(* One read of the duplex reader's goroutine keeps the invariant. *)
LEMMA DuplexReadInv ==
  ASSUME StreamInv, NEW n \in 1..BufferLength, DuplexRead(n) PROVE StreamInv'
<1>1. /\ reader = "read" /\ n <= Len(resp) /\ opts' = opts
      /\ resp' = Rest(resp, n) /\ received' = received + n
      /\ UNCHANGED << client, reader, toSend, req, upFin, downFin, server, payload, offset,
                      cutoff, outcome >>
  BY Zenon DEF DuplexRead, serverVars
<1>2. DownInv' /\ resp' \in Seq(Symbols) /\ Len(resp') <= Credit
  BY <1>1, TakesDown, Zenon
<1>3. StreamTypes'  BY <1>1, <1>2, Zenon DEF StreamInv, StreamTypes
<1>4. UpInv'
  <2>1. Carried  BY <1>1, Zenon DEF StreamInv, UpInv, Unopened
  <2>2. Carried'
    <3>1. client' # "open"  BY <2>1, <1>1, Zenon DEF Carried
    <3> QED BY <2>1, <3>1, <1>1, KeepCarried, Zenon
  <2> QED BY <2>2, <1>1, Zenon DEF StreamInv, UpInv
<1>5. Checked'
  <2>1. opts.behavior # "request"  BY <1>1, Zenon DEF StreamInv, ClientInv
  <2> QED BY <2>1, <1>1, Zenon DEF Checked
<1>6. ClientInv'  BY <1>1, Zenon DEF StreamInv, ClientInv
<1>7. SuccessIsExact' /\ FailureHasCause'
  <2>1. outcome # "ok"  BY <1>1, Zenon DEF StreamInv, ClientInv
  <2> QED BY <2>1, <1>1, KeepSuccess, KeepCause, Zenon DEF StreamInv
<1> QED BY <1>2, <1>3, <1>4, <1>5, <1>6, <1>7, Zenon DEF StreamInv

(* The duplex reader meets the end of the stream: the invariant is kept. *)
LEMMA DuplexReadEndInv == ASSUME StreamInv, DuplexReadEnd PROVE StreamInv'
<1>1. /\ reader = "read" /\ opts' = opts
      /\ UNCHANGED << client, toSend, req, upFin, resp, downFin, received, server, payload,
                      offset, cutoff, outcome >>
  BY Zenon DEF DuplexReadEnd, serverVars
<1>2. \/ resp = << >> /\ downFin /\ reader' = "eof"
      \/ cutoff # "none" /\ reader' = "error"
  BY Zenon DEF DuplexReadEnd
<1>3. StreamTypes'  BY <1>1, <1>2, Zenon DEF StreamInv, StreamTypes
<1>4. UpInv'
  <2>1. Carried  BY <1>1, Zenon DEF StreamInv, UpInv, Unopened
  <2>2. Carried'
    <3>1. client' # "open"  BY <2>1, <1>1, Zenon DEF Carried
    <3> QED BY <2>1, <3>1, <1>1, KeepCarried, Zenon
  <2> QED BY <2>2, <1>1, Zenon DEF StreamInv, UpInv
<1>5. DownInv'  BY <1>1, KeepDown, Zenon DEF StreamInv
<1>6. Checked'  BY <1>1, KeepChecked, Zenon DEF StreamInv
<1>7. ClientInv'
  <2>1. opts.behavior = "duplex"  BY <1>1, Zenon DEF StreamInv, ClientInv
  <2>2. reader' \in {"eof", "error"} /\ (reader' = "eof" => downFin /\ resp = << >>)
        /\ (reader' = "error" => cutoff # "none")
    BY <1>2, Zenon
  <2> QED BY <1>1, <2>1, <2>2, Zenon DEF StreamInv, ClientInv
<1>8. SuccessIsExact' /\ FailureHasCause'
  BY <1>1, KeepSuccess, KeepCause, Zenon DEF StreamInv
<1> QED BY <1>3, <1>4, <1>5, <1>6, <1>7, <1>8, Zenon DEF StreamInv

(* The client meets the end of the stream and counts what it has read: the  *)
(* invariant is kept.                                                       *)
LEMMA EndOfResponseInv == ASSUME StreamInv, EndOfResponse PROVE StreamInv'
<1>1. /\ client = "read" /\ opts.behavior = "request" /\ resp = << >> /\ downFin
      /\ client' = "done" /\ outcome' = (IF received = Expected THEN "ok" ELSE "mismatch")
      /\ opts' = opts
      /\ UNCHANGED << reader, toSend, req, upFin, resp, downFin, received, server, payload,
                      offset, cutoff >>
  BY Zenon DEF EndOfResponse, Return, serverVars
<1>2. reader # "read"  BY <1>1, Zenon DEF StreamInv, ClientInv
<1> QED BY <1>1, <1>2, ReturnsCounted, Zenon

(* A cut-off stream is reported as failed or as timed out. *)
LEMMA FailureKind == Failure \in {"failed", "timeout"}
BY Zenon DEF Failure

(* The client joins the duplex reader: the invariant is kept. *)
LEMMA DuplexResultInv == ASSUME StreamInv, DuplexResult PROVE StreamInv'
<1>1. /\ client \in {"read", "drain"} /\ reader \in {"eof", "error"}
      /\ client' = "done" /\ opts' = opts
      /\ outcome' = (IF client = "drain" \/ reader = "error" THEN Failure
                     ELSE IF received = Expected THEN "ok" ELSE "mismatch")
      /\ UNCHANGED << reader, toSend, req, upFin, resp, downFin, received, server, payload,
                      offset, cutoff >>
  BY Zenon DEF DuplexResult, Return, serverVars
<1>2. CASE client = "drain" \/ reader = "error"
  <2>1. outcome' \in {"failed", "timeout"} /\ cutoff # "none" /\ client \notin {"done", "open"}
    BY <1>1, <1>2, FailureKind, Zenon DEF StreamInv, ClientInv
  <2> QED BY <1>1, <2>1, ReturnsFailure, Zenon
<1>3. CASE ~(client = "drain" \/ reader = "error")
  <2>1. /\ outcome' = (IF received = Expected THEN "ok" ELSE "mismatch") /\ reader = "eof"
        /\ downFin /\ resp = << >> /\ client \notin {"done", "open"} /\ reader # "read"
    BY <1>1, <1>3, Zenon DEF StreamInv, ClientInv
  <2> QED BY <1>1, <2>1, ReturnsCounted, Zenon
<1> QED BY <1>2, <1>3, Zenon

(* The client meets the cut-off: the invariant is kept. *)
LEMMA ClientFailsInv == ASSUME StreamInv, ClientFails PROVE StreamInv'
<1>1. /\ cutoff # "none" /\ opts' = opts
      /\ UNCHANGED << reader, toSend, req, upFin, resp, downFin, received, server, payload,
                      offset, cutoff >>
  BY Zenon DEF ClientFails, serverVars
<1>2. CASE /\ client = "open" \/ (client \in {"write", "read"} /\ opts.behavior = "request")
           /\ Return(Failure)
  <2>1. /\ client' = "done" /\ outcome' \in {"failed", "timeout"} /\ client # "done"
        /\ client # "open" \/ Unopened
    BY <1>2, FailureKind, Zenon DEF Return, StreamInv, UpInv, Carried
  <2> QED BY <1>1, <2>1, ReturnsFailure, Zenon
<1>3. CASE /\ client = "write" /\ opts.behavior = "duplex"
           /\ client' = "drain" /\ UNCHANGED outcome
  <2>1. StreamTypes'  BY <1>1, <1>3, Zenon DEF StreamInv, StreamTypes
  <2>2. UpInv'
    <3>1. Carried  BY <1>3, Zenon DEF StreamInv, UpInv, Unopened
    <3>2. Carried'
      <4>1. client' # "open"  BY <1>3, Zenon
      <4> QED BY <3>1, <4>1, <1>1, KeepCarried, Zenon
    <3> QED BY <3>2, <1>1, Zenon DEF StreamInv, UpInv
  <2>3. DownInv'  BY <1>1, KeepDown, Zenon DEF StreamInv
  <2>4. Checked'  BY <1>1, <1>3, KeepChecked, Zenon DEF StreamInv
  <2>5. ClientInv'  BY <1>1, <1>3, Zenon DEF StreamInv, ClientInv
  <2>6. SuccessIsExact' /\ FailureHasCause'
    BY <1>1, <1>3, KeepSuccess, KeepCause, Zenon DEF StreamInv
  <2> QED BY <2>1, <2>2, <2>3, <2>4, <2>5, <2>6, Zenon DEF StreamInv
<1> QED BY <1>2, <1>3, Zenon DEF ClientFails

-----------------------------------------------------------------------------
(* A step of the server leaves the client's side of the invariant alone. *)
LEMMA ServerKeepsClient ==
  ASSUME StreamInv, server # "closed", opts' = opts, downFin => downFin',
         reader = "eof" => resp' = resp,
         UNCHANGED << client, reader, toSend, received, outcome, cutoff >>
  PROVE  Checked' /\ ClientInv' /\ SuccessIsExact' /\ FailureHasCause'
<1>1. outcome # "ok"  BY Zenon DEF StreamInv, ClientInv
<1>2. Checked'  BY KeepChecked, Zenon DEF StreamInv
<1>3. ClientInv'  BY <1>1, Zenon DEF StreamInv, ClientInv
<1>4. SuccessIsExact' /\ FailureHasCause'
  BY <1>1, KeepSuccess, KeepCause, Zenon DEF StreamInv
<1> QED BY <1>2, <1>3, <1>4, Zenon

(* One read of the server keeps the invariant. *)
LEMMA ServerReadInv == ASSUME StreamInv, ServerRead PROVE StreamInv'
<1>1. /\ server \in {"idle", "read"} /\ req # << >> /\ Len(payload) <= maxReadBytes
      /\ payload' = Append(payload, Head(req)) /\ req' = Tail(req) /\ server' = "read"
      /\ opts' = opts
      /\ UNCHANGED << client, reader, toSend, received, outcome, upFin, resp, downFin,
                      offset, cutoff >>
  BY Zenon DEF ServerRead, clientVars
<1>2. Carried  BY <1>1, Zenon DEF StreamInv, UpInv, Unopened
<1>t. /\ payload \in Seq(Symbols) /\ req \in Seq(Symbols) /\ toSend \in Seq(Symbols)
      /\ Len(req) <= Credit
  BY Zenon DEF StreamInv, StreamTypes
<1>n. /\ Len(payload) \in Nat /\ Len(req) \in Nat /\ Len(toSend) \in Nat /\ Len(req) # 0
      /\ 0 + Len(payload) + 1 = Len(payload) + 1 /\ 0 \in Nat
  BY <1>t, <1>1, SMT
<1>3. /\ Head(req) \in Symbols /\ Head(req) = Request[Len(payload) + 1]
      /\ Tail(req) \in Seq(Symbols) /\ Len(Tail(req)) = Len(req) - 1
      /\ Agree(Tail(req), Len(payload) + 1, Request)
  BY <1>1, <1>2, <1>t, <1>n, AgreeTail, Zenon DEF Carried
<1>4. /\ payload' \in Seq(Symbols) /\ Len(payload') = Len(payload) + 1
      /\ Agree(payload', 0, Request)
  BY <1>1, <1>2, <1>3, <1>t, <1>n, AgreeAppend, ZenonT(30) DEF Carried
<1>5. /\ Len(payload') + Len(req') = Len(payload) + Len(req) /\ Len(req') <= Credit
  BY <1>1, <1>3, <1>4, <1>t, <1>n, Sizes, SMT
<1>6. StreamTypes'  BY <1>1, <1>3, <1>4, <1>5, Zenon DEF StreamInv, StreamTypes
<1>f. Request' = Request /\ AnswerDue' = AnswerDue  BY <1>1, Fixed, Zenon
<1>7. UpInv'
  <2>1. Agree(payload, 0, Request)'  BY <1>4, <1>f, Zenon DEF Agree
  <2>2. Agree(req, Len(payload), Request)'  BY <1>1, <1>3, <1>4, <1>f, Zenon DEF Agree
  <2>3. Agree(toSend, Len(payload) + Len(req), Request)'
    BY <1>1, <1>2, <1>5, <1>f, Zenon DEF Agree, Carried
  <2>4. Carried'  BY <1>1, <1>2, <1>5, <1>f, <2>1, <2>2, <2>3, Zenon DEF Carried
  <2> QED BY <2>4, <1>1, Zenon DEF StreamInv, UpInv
<1>8. DownInv'
  <2>1. Agree(resp, received, AnswerDue)'  BY <1>1, <1>f, Zenon DEF StreamInv, DownInv, Agree
  <2>2. offset = 0 /\ ~downFin  BY <1>1, Zenon DEF StreamInv, DownInv
  <2> QED BY <1>1, <1>f, <2>1, <2>2, Zenon DEF StreamInv, DownInv
<1>9. Checked' /\ ClientInv' /\ SuccessIsExact' /\ FailureHasCause'
  BY <1>1, ServerKeepsClient, Zenon
<1> QED BY <1>6, <1>7, <1>8, <1>9, Zenon DEF StreamInv

(* The server has read to the end, or to its limit: the invariant is kept. *)
LEMMA ServerReadAllInv == ASSUME StreamInv, ServerReadAll PROVE StreamInv'
<1>1. /\ server \in {"idle", "read"} /\ opts' = opts
      /\ UNCHANGED << client, reader, toSend, received, outcome, req, upFin, resp, downFin,
                      payload, offset, cutoff >>
  BY Zenon DEF ServerReadAll, clientVars
<1>2. \/ Len(payload) > maxReadBytes /\ server' = "close"
      \/ Len(payload) <= maxReadBytes /\ req = << >> /\ upFin /\ server' = "answer"
  BY Zenon DEF ServerReadAll
<1>3. StreamTypes'  BY <1>1, <1>2, Zenon DEF StreamInv, StreamTypes
<1>4. Carried
  <2>1. ~(Len(payload) > maxReadBytes) \/ payload # << >>  BY EmptySeqs, Sizes, SMT
  <2> QED BY <2>1, <1>2, Zenon DEF StreamInv, UpInv, Unopened
<1>5. UpInv'
  <2>1. Carried'
    <3>1. client' # "open"  BY <1>1, <1>4, Zenon DEF Carried
    <3> QED BY <1>1, <1>4, <3>1, KeepCarried, Zenon
  <2> QED BY <2>1, <1>1, Zenon DEF StreamInv, UpInv
<1>6. server' = "answer" => payload = Request
  <2>1. SUFFICES ASSUME server' = "answer" PROVE payload = Request  OBVIOUS
  <2>2. req = << >> /\ toSend = << >>  BY <2>1, <1>2, Zenon DEF StreamInv, UpInv
  <2>3. payload \in Seq(Symbols) /\ Request \in Seq(Symbols) /\ Len(Request) \in Nat
    BY WholeType, Zenon DEF StreamInv, StreamTypes
  <2>4. Len(payload) = Len(Request)
    <3>1. Len(payload) + 0 + 0 = Len(Request)  BY <1>4, <2>2, EmptySeqs, Zenon DEF Carried
    <3> QED BY <3>1, <2>3, SMT
  <2>5. \A i \in 1..Len(payload) : payload[i] = Request[i]
    <3>1. \A i \in 1..Len(payload) : payload[i] = Request[0 + i]
      BY <1>4, Zenon DEF Carried, Agree
    <3>2. \A i \in 1..Len(payload) : 0 + i = i  BY <2>3, SMT
    <3> QED BY <3>1, <3>2, Zenon
  <2> QED BY <2>3, <2>4, <2>5, SameItems, Zenon
<1>7. DownInv'
  <2>f. Request' = Request /\ AnswerDue' = AnswerDue  BY <1>1, Fixed, Zenon
  <2>1. Agree(resp, received, AnswerDue)'  BY <1>1, <2>f, Zenon DEF StreamInv, DownInv, Agree
  <2>2. offset = 0 /\ ~downFin  BY <1>1, Zenon DEF StreamInv, DownInv
  <2> QED BY <1>1, <1>2, <1>6, <2>f, <2>1, <2>2, Zenon DEF StreamInv, DownInv
<1>8. Checked' /\ ClientInv' /\ SuccessIsExact' /\ FailureHasCause'
  BY <1>1, ServerKeepsClient, Zenon
<1> QED BY <1>3, <1>5, <1>7, <1>8, Zenon DEF StreamInv

(* The upload is untouched by what the server does after reading. *)
LEMMA KeepUp ==
  ASSUME UpInv, opts' = opts, server \notin {"idle"},
         UNCHANGED << client, reader, outcome, toSend, req, upFin, payload >>
  PROVE  UpInv'
<1>1. Carried  BY Zenon DEF UpInv, Unopened
<1>2. client' # "open"  BY <1>1, Zenon DEF Carried
<1>3. Carried'  BY <1>1, <1>2, KeepCarried, Zenon
<1> QED BY <1>3, Zenon DEF UpInv

(* One write of the server, limited by the window, keeps the invariant. *)
LEMMA ServerWriteInv == ASSUME StreamInv, ServerWrite PROVE StreamInv'
<1>1. /\ server = "answer" /\ offset < Len(Answer(payload)) /\ Len(resp) < Credit
      /\ resp' = Append(resp, Answer(payload)[offset + 1]) /\ offset' = offset + 1
      /\ opts' = opts
      /\ UNCHANGED << client, reader, toSend, received, outcome, req, upFin, downFin,
                      server, payload, cutoff >>
  BY Zenon DEF ServerWrite, clientVars
<1>2. /\ payload = Request /\ offset \in 0..Len(AnswerDue) /\ received \in Nat
      /\ received + Len(resp) = offset /\ Agree(resp, received, AnswerDue) /\ ~downFin
      /\ Len(payload) <= maxReadBytes
  BY <1>1, Zenon DEF StreamInv, DownInv
<1>3. Answer(payload) = AnswerDue  BY <1>2, Zenon DEF AnswerDue
<1>4. AnswerDue \in Seq(Symbols) /\ resp \in Seq(Symbols)
  BY WholeType, Zenon DEF StreamInv, StreamTypes
<1>5. /\ AnswerDue[offset + 1] \in Symbols /\ offset + 1 \in 0..Len(AnswerDue) /\ offset + 1 # 0
      /\ Len(resp) + 1 <= Credit /\ received + (Len(resp) + 1) = offset + 1
      /\ received + Len(resp) + 1 = offset + 1
  BY <1>1, <1>2, <1>3, <1>4, Sizes, SMT
<1>6. /\ resp' \in Seq(Symbols) /\ Len(resp') = Len(resp) + 1 /\ Agree(resp', received, AnswerDue)
  BY <1>1, <1>2, <1>3, <1>4, <1>5, AgreeAppend, Zenon
<1>7. StreamTypes'  BY <1>1, <1>5, <1>6, Zenon DEF StreamInv, StreamTypes
<1>8. UpInv'  BY <1>1, KeepUp, Zenon DEF StreamInv
<1>9. DownInv'
  <2>f. Request' = Request /\ AnswerDue' = AnswerDue  BY <1>1, Fixed, Zenon
  <2>1. Agree(resp, received, AnswerDue)'  BY <1>1, <1>6, <2>f, Zenon DEF Agree
  <2>2. offset' \in 0..Len(AnswerDue)' /\ (received + Len(resp) = offset)' /\ received' \in Nat
    BY <1>1, <1>2, <1>5, <1>6, <2>f, Zenon
  <2> QED BY <1>1, <1>2, <2>f, <2>1, <2>2, Zenon DEF DownInv
<1>10. Checked' /\ ClientInv' /\ SuccessIsExact' /\ FailureHasCause'
  <2>1. reader # "eof"  BY <1>2, Zenon DEF StreamInv, ClientInv
  <2> QED BY <1>1, <2>1, ServerKeepsClient, Zenon
<1> QED BY <1>7, <1>8, <1>9, <1>10, Zenon DEF StreamInv

(* The end of the server's half keeps the invariant. *)
LEMMA ServerCloseInv == ASSUME StreamInv, ServerClose PROVE StreamInv'
<1>1. /\ \/ server = "answer" /\ offset = Len(Answer(payload))
         \/ server = "close"
      /\ downFin' = TRUE /\ server' = "closed" /\ opts' = opts
      /\ UNCHANGED << client, reader, toSend, received, outcome, req, upFin, resp, payload,
                      offset, cutoff >>
  BY Zenon DEF ServerClose, clientVars
<1>2. StreamTypes'  BY <1>1, Zenon DEF StreamInv, StreamTypes
<1>3. UpInv'  BY <1>1, KeepUp, Zenon DEF StreamInv
<1>4. DownInv'
  <2>f. Request' = Request /\ AnswerDue' = AnswerDue  BY <1>1, Fixed, Zenon
  <2>1. Agree(resp, received, AnswerDue)'  BY <1>1, <2>f, Zenon DEF StreamInv, DownInv, Agree
  <2>2. \/ payload = Request /\ offset = Len(AnswerDue)
        \/ Len(payload) > maxReadBytes /\ offset = 0
    BY <1>1, Zenon DEF StreamInv, DownInv, AnswerDue
  <2> QED BY <1>1, <2>f, <2>1, <2>2, Zenon DEF StreamInv, DownInv
<1>5. Checked' /\ ClientInv' /\ SuccessIsExact' /\ FailureHasCause'
  BY <1>1, ServerKeepsClient, Zenon
<1> QED BY <1>2, <1>3, <1>4, <1>5, Zenon DEF StreamInv

(* The server meets the cut-off: the invariant is kept. *)
LEMMA ServerFailsInv == ASSUME StreamInv, ServerFails PROVE StreamInv'
<1>1. /\ cutoff = "broken" /\ server \in {"read", "answer"} /\ server' = "closed"
      /\ opts' = opts
      /\ UNCHANGED << client, reader, toSend, received, outcome, req, upFin, resp, downFin,
                      payload, offset, cutoff >>
  BY Zenon DEF ServerFails, clientVars
<1>2. StreamTypes'  BY <1>1, Zenon DEF StreamInv, StreamTypes
<1>3. UpInv'  BY <1>1, KeepUp, Zenon DEF StreamInv
<1>4. DownInv'
  <2>f. Request' = Request /\ AnswerDue' = AnswerDue  BY <1>1, Fixed, Zenon
  <2>1. Agree(resp, received, AnswerDue)'  BY <1>1, <2>f, Zenon DEF StreamInv, DownInv, Agree
  <2>2. ~downFin  BY <1>1, Zenon DEF StreamInv, DownInv
  <2> QED BY <1>1, <2>f, <2>1, <2>2, Zenon DEF StreamInv, DownInv
<1>5. Checked' /\ ClientInv' /\ SuccessIsExact' /\ FailureHasCause'
  BY <1>1, ServerKeepsClient, Zenon
<1> QED BY <1>2, <1>3, <1>4, <1>5, Zenon DEF StreamInv

(* A fault, and a step in which nothing changes. *)
LEMMA FaultInv ==
  ASSUME StreamInv, opts' = opts,
         cutoff' = cutoff \/ (cutoff = "none" /\ cutoff' \in {"broken", "deadline"}),
         UNCHANGED << client, reader, toSend, received, outcome, req, upFin, resp, downFin,
                      server, payload, offset >>
  PROVE  StreamInv'
<1>2. StreamTypes'  BY ZenonT(30) DEF StreamInv, StreamTypes
<1>3. UpInv'
  <2>1. Unopened => Unopened'  BY Zenon DEF Unopened
  <2>2. Carried => Carried'
    <3>1. Carried => client' # "open"  BY Zenon DEF Carried
    <3> QED BY <3>1, KeepCarried, Zenon
  <2> QED BY <2>1, <2>2, Zenon DEF StreamInv, UpInv
<1>4. DownInv'  BY KeepDown, Zenon DEF StreamInv
<1>5. Checked'  BY KeepChecked, Zenon DEF StreamInv
<1>c. cutoff # "none" => cutoff' # "none"  BY Zenon
<1>6. ClientInv'  BY <1>c, Zenon DEF StreamInv, ClientInv
<1>7. SuccessIsExact' /\ FailureHasCause'
  BY <1>c, KeepSuccess, KeepCause, Zenon DEF StreamInv
<1> QED BY <1>2, <1>3, <1>4, <1>5, <1>6, <1>7, Zenon DEF StreamInv

(* Every step of the client, the server and the network keeps the           *)
(* invariant.                                                               *)
LEMMA StreamStepInv == ASSUME StreamInv, [StreamNext]_rawVars PROVE StreamInv'
<1>1. CASE Open  BY <1>1, OpenInv, Zenon
<1>2. CASE Write  BY <1>2, WriteInv, Zenon
<1>3. CASE CloseWrites  BY <1>3, CloseWritesInv, Zenon
<1>4. CASE EndOfResponse  BY <1>4, EndOfResponseInv, Zenon
<1>5. CASE DuplexReadEnd  BY <1>5, DuplexReadEndInv, Zenon
<1>6. CASE DuplexResult  BY <1>6, DuplexResultInv, Zenon
<1>7. CASE ClientFails  BY <1>7, ClientFailsInv, Zenon
<1>8. CASE ServerRead  BY <1>8, ServerReadInv, Zenon
<1>9. CASE ServerReadAll  BY <1>9, ServerReadAllInv, Zenon
<1>10. CASE ServerWrite  BY <1>10, ServerWriteInv, Zenon
<1>11. CASE ServerClose  BY <1>11, ServerCloseInv, Zenon
<1>12. CASE ServerFails  BY <1>12, ServerFailsInv, Zenon
<1>13. CASE \E n \in 1..BufferLength : Read(n) \/ DuplexRead(n)
  BY <1>13, ReadInv, DuplexReadInv, Zenon
<1>14. CASE Fault
  <2>1. /\ cutoff = "none" /\ cutoff' \in {"broken", "deadline"} /\ opts' = opts
        /\ UNCHANGED << client, reader, toSend, received, outcome, req, upFin, resp, downFin,
                        server, payload, offset >>
    BY <1>14, Zenon DEF Fault, clientVars, serverVars
  <2>2. cutoff' = cutoff \/ (cutoff = "none" /\ cutoff' \in {"broken", "deadline"})
    BY <2>1, Zenon
  <2> QED BY <2>1, <2>2, FaultInv, Zenon
<1>15. CASE UNCHANGED rawVars
  <2>1. /\ cutoff' = cutoff /\ opts' = opts
        /\ UNCHANGED << client, reader, toSend, received, outcome, req, upFin, resp, downFin,
                        server, payload, offset >>
    BY <1>15, Zenon DEF rawVars
  <2>2. cutoff' = cutoff \/ (cutoff = "none" /\ cutoff' \in {"broken", "deadline"})
    BY <2>1, Zenon
  <2> QED BY <2>1, <2>2, FaultInv, Zenon
<1> QED
  BY <1>1, <1>2, <1>3, <1>4, <1>5, <1>6, <1>7, <1>8, <1>9, <1>10, <1>11, <1>12, <1>13,
     <1>14, <1>15, Zenon DEF StreamNext, Progress

(* The invariant says that the outcome is exact. *)
LEMMA StreamInvImplies == StreamInv => OutcomeIsExact
<1> SUFFICES ASSUME StreamInv PROVE OutcomeIsExact  OBVIOUS
<1>1. received \in 0..MaxLength /\ offset \in 0..MaxLength
  <2>1. /\ offset \in 0..Len(AnswerDue) /\ received \in Nat /\ received + Len(resp) = offset
        /\ resp \in Seq(Symbols)
    BY Zenon DEF StreamInv, DownInv, StreamTypes
  <2>2. Len(AnswerDue) \in 0..MaxLength  BY WholeType, Zenon DEF StreamInv
  <2> QED BY <2>1, <2>2, Sizes, SMT
<1>2. StreamTypeOK
  <2>1. \A s \in {toSend, req, resp, payload} : s \in Seq(Symbols)
    BY Zenon DEF StreamInv, StreamTypes
  <2> QED BY <1>1, <2>1, Zenon DEF StreamInv, StreamTypes, StreamTypeOK
<1> QED BY <1>2, Zenon DEF StreamInv, OutcomeIsExact

(* OutcomeIsExact holds for every payload size, read size, window and       *)
(* modulus that StreamAssumption admits: a success transferred exactly the  *)
(* bytes the options ask for, a mismatch means that client and server were  *)
(* set up for different payloads, and a failure or timeout that the stream  *)
(* was cut off.                                                             *)
THEOREM StreamOutcomeIsExact == StreamSpec => []OutcomeIsExact
<1>1. StreamInit => StreamInv  BY StreamInitInv
<1>2. StreamInv /\ [StreamNext]_rawVars => StreamInv'  BY StreamStepInv
<1>3. StreamInv => OutcomeIsExact  BY StreamInvImplies
<1> QED BY <1>1, <1>2, <1>3, PTL DEF StreamSpec

=============================================================================
