------------------------ MODULE H2WebSocketInvariant ------------------------
(***************************************************************************)
(* The inductive invariant of H2WebSocketSession, in two parts. WorkInv is *)
(* about main, its workers and its closers: where each may be, how the     *)
(* competing updates of peak stand, and who holds an error. StreamInv is   *)
(* about the connection: the bytes of every stream, from the wire through  *)
(* the reader and the channel to the goroutine's buffer, in order, and how *)
(* they pair up with the messages that were written.                       *)
(***************************************************************************)
EXTENDS H2WebSocketSession

-----------------------------------------------------------------------------

(* What a stream of the wire carries: the halves of a frame, HEADERS,       *)
(* RST_STREAM.                                                              *)
Cells == Units \cup Controls

(* An event of the reader: one HEADERS or RST_STREAM, or a piece of data. *)
Event(e) == e # << >> /\ (e \in Seq(Units) \/ \E c \in Controls : e = << c >>)

(* The reader's channels hold events, a goroutine's buffer holds data       *)
(* only, and the reader holds an event exactly while it dispatches it.      *)
Channels ==
  /\ queue \in [Streams -> Seq(Seq(Cells))] /\ pending \in [Streams -> Seq(Units)]
  /\ surplus \in [Streams -> Int]
  /\ reader # "dispatching" => held = NoEvent
  /\ reader = "dispatching" => held.stream \in Streams /\ Event(held.event)
  /\ \A s \in Streams : \A i \in 1..Len(queue[s]) : Event(queue[s][i])

(* The places of main, of a worker and of a closer. *)
Opening == {"dialing", "opening", "headers"}

Working == {"enter", "load", "swap", "loop", "write", "read", "send", "sent", "left"}

Rest == {"absent", "sent", "left"}

Closing == {"closeWrite", "closeRead", "closed"}

(* Where the goroutines of the streams are while main is where it is. *)
Stages ==
  /\ results \subseteq Streams
  /\ main \in Opening => opened < StreamCount /\ \A s \in Streams : pc[s] = "absent"
  /\ main \in {"phase", "collecting", "closing"} => opened = StreamCount
  /\ main = "phase" => \A s \in Streams : pc[s] \in Rest
  /\ main = "collecting" =>
       /\ \A s \in Streams : pc[s] \in Working
       /\ \A s \in results : pc[s] \in {"sent", "left"}
  /\ main = "closing" => \A s \in Streams : pc[s] \in Closing
  /\ main = "returned" => \A s \in Streams : pc[s] \in Rest \cup {"closed"}
  /\ \A s \in Streams : pc[s] \in {"write", "read"} =>
       index[s] < MessageCount /\ ops[s] < MaxGroups
  /\ main = "returned" /\ err = "none" =>
       /\ opened = StreamCount
       /\ \A s \in Streams : pc[s] = "closed" /\ failure[s] = "none"

(* The workers that active counts. *)
Inside == {s \in Streams : pc[s] \in {"load", "swap", "loop", "write", "read", "send", "sent"}}

(* The largest value of active is peak, or a worker is about to store it. *)
Maximum ==
  /\ current \in [Streams -> 0..StreamCount] /\ seen \in [Streams -> 0..StreamCount]
  /\ most \in 0..StreamCount
  /\ main # "collecting" => active = 0 /\ peak = 0 /\ most = 0
  /\ main = "collecting" =>
       /\ active = Cardinality(Inside) /\ peak <= most
       /\ \A s \in Streams : pc[s] \in {"load", "swap"} => current[s] <= most
       /\ \A s \in Streams : pc[s] = "swap" => seen[s] < current[s]
       /\ \/ peak = most
          \/ \E s \in Streams : pc[s] \in {"load", "swap"} /\ current[s] = most

(* An error is held by a worker or a closer nobody has asked yet, or by err. *)
Reported ==
  /\ \A s \in Streams : failure[s] # "none" => failed
  /\ main \in Opening \cup {"phase"} => ~failed
  /\ main \notin {"collecting", "returned"} => err = "none"
  /\ main = "collecting" /\ failed =>
       err # "none" \/ \E s \in Streams \ results : failure[s] # "none"
  /\ main = "closing" /\ failed => \E s \in Streams : failure[s] # "none"
  /\ main = "returned" /\ failed => err # "none"
  /\ exit # "none" \/ validation # "none" => main = "returned"
  /\ exit = "0" \/ validation = "passed" => err = "none"

-----------------------------------------------------------------------------
(* The bytes of a stream, in order: what its goroutine holds (p), the       *)
(* channel's events (q), the event the reader holds (h), the wire (w). The   *)
(* event q[i] lies between the positions c[i - 1] and c[i] of f.            *)
Cut(p, q, h, w, f, c) ==
  /\ c[0] = Len(p)
  /\ \A i, j \in 0..Len(q) : i <= j => c[i] <= c[j]
  /\ \A j \in 1..Len(p) : f[j] = p[j]
  /\ \A i \in 1..Len(q) : /\ c[i] = c[i - 1] + Len(q[i])
                          /\ \A j \in 1..Len(q[i]) : f[c[i - 1] + j] = q[i][j]
  /\ \A j \in 1..Len(h) : f[c[Len(q)] + j] = h[j]
  /\ \A j \in 1..Len(w) : f[c[Len(q)] + Len(h) + j] = w[j]
  /\ Len(f) = c[Len(q)] + Len(h) + Len(w)

(* The same for some cut. *)
Flows(p, q, h, w, f) == \E c \in [0..Len(q) -> Nat] : Cut(p, q, h, w, f, c)

(* The event the reader holds, if it is for stream s. *)
carried(s) == IF held.stream = s THEN held.event ELSE << >>

(* k texts, then nothing, a close, or what no goroutine takes for an answer. *)
Texts(f, k) ==
  2 * k <= Len(f) /\ \A j \in 1..k : f[2 * j - 1] = "text" /\ f[2 * j] = "tail"

(* After k texts there is nothing, the peer's close, or a frame or reset    *)
(* that fails the goroutine that reads it.                                  *)
Ended(f, k) == Len(f) = 2 * k

Closed(f, k) == Len(f) >= 2 * k + 2 /\ f[2 * k + 1] = "close" /\ f[2 * k + 2] = "tail"

Spoiled(f, k) ==
  \/ Len(f) >= 2 * k + 1 /\ f[2 * k + 1] = "reset"
  \/ Len(f) >= 2 * k + 2 /\ f[2 * k + 1] \in {"other", "masked", "rsv"} /\ f[2 * k + 2] = "tail"

(* A worker that reads has written a message whose answer it has not        *)
(* taken.                                                                   *)
waiting(s) == IF pc[s] = "read" THEN 1 ELSE 0

(* k texts are under way: those the peer sent in excess of the messages     *)
(* written, and the one that a waiting worker has yet to take. Then comes   *)
(* nothing, the close the peer has sent, or what fails a goroutine.         *)
Paired(s, f, k) ==
  /\ Texts(f, k)
  /\ \/ Ended(f, k) /\ s \notin peerClosed /\ surplus[s] = k - waiting(s)
     \/ Closed(f, k) /\ s \in peerClosed /\ surplus[s] = k - waiting(s)
     \/ Spoiled(f, k)

(* The bytes of a stream, wherever they are, pair up with what was          *)
(* written. A closer that is done has met the peer's close with nothing in  *)
(* excess before it.                                                        *)
Matched(s) ==
  IF pc[s] = "closed" THEN surplus[s] = 0 /\ s \in peerClosed
  ELSE \E f \in Seq(Cells) : /\ Flows(pending[s], queue[s], carried(s), wire[s], f)
                             /\ \E k \in Nat : Paired(s, f, k)

(* No HEADERS among the first n bytes. *)
Headless(f, n) == \A i \in 1..n : f[i] # "headers"

(* The first HEADERS are at position d, and e is what follows them. *)
Headed(f, d, e) ==
  /\ d \in 1..Len(f) /\ f[d] = "headers" /\ Headless(f, d - 1)
  /\ Len(f) = d + Len(e) /\ \A j \in 1..Len(e) : e[j] = f[d + j]

(* A stream whose HEADERS main has not read: the peer has not sent them, or *)
(* they are under way and what follows them pairs up. What is in front of   *)
(* them is dropped.                                                         *)
Awaits(s, f) ==
  \/ s \notin answered /\ surplus[s] = 0 /\ s \notin peerClosed /\ Headless(f, Len(f))
  \/ /\ s \in answered
     /\ \E d \in Nat, e \in Seq(Cells) : Headed(f, d, e) /\ \E k \in Nat : Paired(s, e, k)

Awaited(s) ==
  \E f \in Seq(Cells) :
    Flows(pending[s], queue[s], carried(s), wire[s], f) /\ Awaits(s, f)

(* The reader starts when the session is open. *)
Dialing == main = "dialing" => reader = "absent"

-----------------------------------------------------------------------------
(* The invariant in three parts: the connection, the goroutines, the streams. *)
LinkTypes ==
  /\ peer \in Peers /\ faults \in 0..MaxFaults /\ validationOnly \in BOOLEAN
  /\ wire \in [Streams -> Seq(Cells)]
  /\ credit \in [0..StreamCount -> 0..Window] /\ broken \in BOOLEAN
  /\ reader \in {"absent", "reading", "dispatching", "done"} /\ held \in Events
  /\ \A s \in Streams : Len(queue[s]) <= Capacity

(* The variables of main and of the goroutines keep their types. *)
MainTypes ==
  /\ main \in {"dialing", "opening", "headers", "phase", "collecting", "closing", "returned"}
  /\ opened \in 0..StreamCount /\ phase \in {"preflight", "warmup", "measured"}
  /\ pc \in [Streams -> Working \cup Closing \cup {"absent"}]
  /\ index \in [Streams -> 0..MessageCount] /\ ops \in [Streams -> 0..MaxGroups]
  /\ failure \in [Streams -> {"none", "failed", "timeout"}]
  /\ active \in 0..StreamCount /\ peak \in 0..StreamCount
  /\ err \in {"none", "failed", "timeout", "concurrency"}
  /\ validation \in {"none", "passed", "failed"} /\ exit \in {"none", "0", "1"}

(* The connection, the reader and its channels. *)
LinkInv == LinkTypes /\ Channels

(* main and its goroutines. This part does not depend on the other. *)
WorkInv == MainTypes /\ Stages /\ Maximum /\ Reported

(* An open stream that has not failed pairs up; one that is not open yet    *)
(* does so from its HEADERS on, and before the request the peer has sent    *)
(* none.                                                                    *)
StreamAt(s) ==
  /\ s <= opened => s \in answered
  /\ s <= opened /\ failure[s] = "none" => Matched(s)
  /\ s > opened /\ main \in Opening =>
       /\ pending[s] = << >> /\ Awaited(s)
       /\ ~registered(s) => queue[s] = << >> /\ s \notin answered

(* The connection and all its streams. *)
StreamInv == LinkInv /\ Dialing /\ \A s \in Streams : StreamAt(s)

(* The inductive invariant. *)
SessionInv == WorkInv /\ StreamInv

(* The three outcomes of an event that arrives before the headers did. *)
HeadersCome ==
  opened' = Next1 /\ main' = (IF Next1 = StreamCount THEN "phase" ELSE "opening")
  /\ UNCHANGED err

HeadersRefused == main' = "returned" /\ err' = "failed" /\ UNCHANGED opened

HeadersLater == UNCHANGED << main, opened, err >>

(* What readWebSocketFrame's caller does with the frame. *)
TextTaken(s) ==
  LET last == index[s] + 1 = MessageCount
  IN /\ index' = [index EXCEPT ![s] = @ + 1]
     /\ ops' = IF last THEN [ops EXCEPT ![s] = @ + 1] ELSE ops
     /\ pc' = [pc EXCEPT ![s] = IF ~last THEN "write"
                                ELSE IF exactlyOne THEN "send" ELSE "loop"]
     /\ UNCHANGED << failure, failed >>

CloseTaken(s) ==
  pc' = [pc EXCEPT ![s] = "closed"] /\ UNCHANGED << index, ops, failure, failed >>

=============================================================================
