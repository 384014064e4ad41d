---------------------- MODULE H2WebSocketSessionProofs ----------------------
(***************************************************************************)
(* Proofs for H2WebSocketSession, for every number of streams, messages,   *)
(* groups and faults, every window and channel capacity, and whatever the  *)
(* peer sends.                                                             *)
(*                                                                         *)
(* WorkInv is inductive by itself. Of the peak it says that the largest    *)
(* number of active workers is stored already or is about to be stored by  *)
(* a worker that is between its load and its compare-and-swap; of an       *)
(* error, that a goroutine nobody has asked yet holds it, or err does.     *)
(* With the streams' part (H2WebSocketStreamProofs) it is the invariant    *)
(* from which the two properties follow.                                   *)
(***************************************************************************)
EXTENDS H2WebSocketStreamProofs, FiniteSetTheorems

-----------------------------------------------------------------------------

(* No error appears or is reported. *)
LEMMA ReportedKept ==
  ASSUME Reported, UNCHANGED << main, results, err, validation, exit, failure, failed >>
  PROVE  Reported'
BY Zenon DEF Reported

(* Steps of the reader and of the peer leave main and its goroutines        *)
(* alone.                                                                   *)
LEMMA WorkKept ==
  ASSUME WorkInv, UNCHANGED << peakVars, mainVars >>,
         UNCHANGED << pc, index, ops, failure, failed >>
  PROVE  WorkInv'
<1>1. /\ UNCHANGED << active, peak, current, seen, most, main, opened, phase, results >>
      /\ UNCHANGED << err, validation, exit, pc, index, ops, failure, failed >>
  BY Zenon DEF peakVars, mainVars
<1>2. MainTypes'  BY <1>1, ZenonT(30) DEF WorkInv, MainTypes
<1>3. Stages'  BY <1>1, Zenon DEF WorkInv, Stages
<1>4. Inside' = Inside  BY <1>1, Zenon DEF Inside
<1>5. Maximum'  BY <1>1, <1>4, Zenon DEF WorkInv, Maximum
<1>6. Reported /\ UNCHANGED << main, results, err, validation, exit, failure, failed >>
  BY <1>1, Zenon DEF WorkInv
<1>7. Reported'  BY <1>6, ReportedKept, Zenon
<1> QED BY <1>2, <1>3, <1>5, <1>7, Zenon DEF WorkInv

(* Outside a phase nobody counts. *)
LEMMA MaximumIdle ==
  ASSUME Maximum, main # "collecting", main' # "collecting", UNCHANGED peakVars
  PROVE  Maximum'
BY Zenon DEF Maximum, peakVars

(* A worker past its update of the peak. *)
Late == {"loop", "write", "read", "send", "sent"}

(* A worker that is not about to touch peak moves on. *)
LEMMA MaximumKept ==
  ASSUME Maximum, NEW s \in Streams, NEW v \in Late, pc[s] \in Late,
         pc \in [Streams -> Working \cup Closing \cup {"absent"}],
         pc' = [pc EXCEPT ![s] = v], UNCHANGED << peakVars, main >>
  PROVE  Maximum'
<1>1. UNCHANGED << active, peak, current, seen, most, main >>  BY Zenon DEF peakVars
<1>2. \A t \in Streams : IF t = s THEN pc'[t] = v ELSE pc'[t] = pc[t]  BY Zenon
<1>3. \A t \in Streams : /\ (pc'[t] \in {"load", "swap"}) <=> (pc[t] \in {"load", "swap"})
                         /\ (pc'[t] = "swap") <=> (pc[t] = "swap")
  BY <1>2, Zenon DEF Late
<1>4. Inside' = Inside
  <2>1. \A t \in Streams : t \in Inside' <=> t \in Inside  BY <1>2, Zenon DEF Inside, Late
  <2>2. Inside' \subseteq Streams /\ Inside \subseteq Streams  BY Zenon DEF Inside
  <2> QED BY <2>1, <2>2, Zenon
<1> QED BY <1>1, <1>3, <1>4, ZenonT(30) DEF Maximum

(* A worker of the phase moves on, or a closer does. *)
LEMMA WorkerMoves ==
  ASSUME WorkInv, NEW s \in Streams, NEW v \in Working, main = "collecting",
         s \notin results \/ v \in {"sent", "left"},
         pc' = [pc EXCEPT ![s] = v], UNCHANGED << main, opened, results, err >>,
         v \in {"write", "read"} => index'[s] < MessageCount /\ ops'[s] < MaxGroups,
         \A t \in Streams \ {s} : index'[t] = index[t] /\ ops'[t] = ops[t]
  PROVE  pc' \in [Streams -> Working \cup Closing \cup {"absent"}] /\ Stages'
<1>1. pc \in [Streams -> Working \cup Closing \cup {"absent"}]  BY Zenon DEF WorkInv, MainTypes
<1>2. pc' \in [Streams -> Working \cup Closing \cup {"absent"}]  BY <1>1, Zenon
<1>3. \A t \in Streams : IF t = s THEN pc'[t] = v ELSE pc'[t] = pc[t]  BY <1>1, Zenon
<1>4. /\ results \subseteq Streams /\ opened = StreamCount
      /\ \A t \in Streams : pc[t] \in Working
      /\ \A t \in results : pc[t] \in {"sent", "left"}
      /\ \A t \in Streams : pc[t] \in {"write", "read"} =>
           index[t] < MessageCount /\ ops[t] < MaxGroups
  BY Zenon DEF WorkInv, Stages
<1>5. /\ \A t \in Streams : pc'[t] \in Working
      /\ \A t \in results : pc'[t] \in {"sent", "left"}
      /\ \A t \in Streams : pc'[t] \in {"write", "read"} =>
           index'[t] < MessageCount /\ ops'[t] < MaxGroups
  BY <1>3, <1>4, Zenon
<1>6. main' \notin Opening /\ main' = "collecting"  BY Zenon DEF Opening
<1>7. Stages'  BY <1>4, <1>5, <1>6, Zenon DEF Stages
<1> QED BY <1>2, <1>7, Zenon

(* A closer moves on: where everybody is stays consistent. *)
LEMMA CloserMoves ==
  ASSUME WorkInv, NEW s \in Streams, NEW v \in Closing, main = "closing",
         pc' = [pc EXCEPT ![s] = v], UNCHANGED << main, opened, results, err >>,
         UNCHANGED << index, ops >>
  PROVE  pc' \in [Streams -> Working \cup Closing \cup {"absent"}] /\ Stages'
<1>1. pc \in [Streams -> Working \cup Closing \cup {"absent"}]  BY Zenon DEF WorkInv, MainTypes
<1>2. pc' \in [Streams -> Working \cup Closing \cup {"absent"}]  BY <1>1, Zenon
<1>3. \A t \in Streams : IF t = s THEN pc'[t] = v ELSE pc'[t] = pc[t]  BY <1>1, Zenon
<1>4. /\ results \subseteq Streams /\ opened = StreamCount
      /\ \A t \in Streams : pc[t] \in Closing
  BY Zenon DEF WorkInv, Stages
<1>5. \A t \in Streams : pc'[t] \in Closing  BY <1>3, <1>4, Zenon
<1>6. main' \notin Opening /\ main' = "closing"  BY Zenon DEF Opening
<1>7. \A t \in Streams : pc'[t] \notin {"write", "read"}  BY <1>5, Zenon DEF Closing
<1>8. Stages'  BY <1>4, <1>5, <1>6, <1>7, ZenonT(30) DEF Stages
<1> QED BY <1>2, <1>8, Zenon

-----------------------------------------------------------------------------
(* The main goroutine. *)
LEMMA OpeningGoesOn ==
  ASSUME WorkInv, main \in Opening, main' \in Opening, UNCHANGED peakVars,
         UNCHANGED << opened, phase, results, err, validation, exit >>,
         UNCHANGED << pc, index, ops, failure, failed >>
  PROVE  WorkInv'
<1>1. UNCHANGED << active, peak, current, seen, most >>  BY Zenon DEF peakVars
<1>2. /\ main \notin {"phase", "collecting", "closing", "returned"}
      /\ main' \notin {"phase", "collecting", "closing", "returned"}
      /\ main' \in {"dialing", "opening", "headers"}
  BY Zenon DEF Opening
<1>3. MainTypes'  BY <1>1, <1>2, ZenonT(30) DEF WorkInv, MainTypes
<1>4. Stages'  BY <1>2, Zenon DEF WorkInv, Stages
<1>5. Maximum'  BY <1>2, MaximumIdle, Zenon DEF WorkInv
<1>6. Reported'  BY <1>2, Zenon DEF WorkInv, Reported
<1> QED BY <1>3, <1>4, <1>5, <1>6, Zenon DEF WorkInv

(* openWebSocket fails and main returns: the invariant is kept. *)
LEMMA OpeningEnds ==
  ASSUME WorkInv, main \in Opening, main' = "returned", err' \in {"failed", "timeout"},
         UNCHANGED peakVars, UNCHANGED << opened, phase, results, validation, exit >>,
         UNCHANGED << pc, index, ops, failure, failed >>
  PROVE  WorkInv'
<1>1. UNCHANGED << active, peak, current, seen, most >>  BY Zenon DEF peakVars
<1>2. /\ main \notin {"phase", "collecting", "closing", "returned"} /\ main' \notin Opening
      /\ err' # "none"
  BY Zenon DEF Opening
<1>3. MainTypes'  BY <1>1, Zenon DEF WorkInv, MainTypes
<1>4. /\ results \subseteq Streams /\ \A s \in Streams : pc[s] = "absent"
      /\ \A s \in Streams : pc[s] \in {"write", "read"} =>
           index[s] < MessageCount /\ ops[s] < MaxGroups
  BY Zenon DEF WorkInv, Stages
<1>5. Stages'  BY <1>2, <1>4, Zenon DEF Stages, Rest
<1>6. Maximum'  BY <1>2, MaximumIdle, ZenonT(30) DEF WorkInv
<1>7. /\ exit = "none" /\ validation = "none"
      /\ \A s \in Streams : failure[s] # "none" => failed
  BY <1>2, Zenon DEF WorkInv, Reported
<1>8. Reported'  BY <1>2, <1>7, Zenon DEF Reported
<1> QED BY <1>3, <1>5, <1>6, <1>8, Zenon DEF WorkInv

(* openH2Session keeps the invariant. *)
LEMMA OpenSessionWork ==
  ASSUME WorkInv, openH2Session
  PROVE  WorkInv'
<1>1. /\ UNCHANGED << opened, phase, results, validation, exit >> /\ UNCHANGED peakVars
      /\ UNCHANGED << pc, index, ops, failure, failed >> /\ main \in Opening
  BY Zenon DEF openH2Session, workVars, Opening
<1>2. CASE main' = "opening" /\ UNCHANGED err
  <2>1. main' \in Opening  BY <1>2, Zenon DEF Opening
  <2> QED BY <1>1, <1>2, <2>1, OpeningGoesOn, Zenon
<1>3. CASE main' = "returned" /\ err' \in {"failed", "timeout"}
  BY <1>1, <1>3, OpeningEnds, ZenonT(30)
<1> QED BY <1>2, <1>3, Zenon DEF openH2Session

(* openWebSocket writes its request: the invariant is kept. *)
LEMMA OpenWebSocketWork ==
  ASSUME WorkInv, OpenWebSocket
  PROVE  WorkInv'
<1>1. /\ UNCHANGED << opened, phase, results, err, validation, exit >> /\ UNCHANGED peakVars
      /\ UNCHANGED << pc, index, ops, failure, failed >>
      /\ main \in Opening /\ main' \in Opening
  BY Zenon DEF OpenWebSocket, workVars, Opening
<1> QED BY <1>1, OpeningGoesOn, Zenon

(* Opening a stream fails: the invariant is kept. *)
LEMMA OpenFailsWork ==
  ASSUME WorkInv, OpenFails
  PROVE  WorkInv'
<1>1. /\ UNCHANGED << opened, phase, results, validation, exit >> /\ UNCHANGED peakVars
      /\ UNCHANGED << pc, index, ops, failure, failed >>
      /\ main \in Opening /\ main' = "returned" /\ err' \in {"failed", "timeout"}
  BY Zenon DEF OpenFails, workVars, Opening
<1> QED BY <1>1, OpeningEnds, Zenon

(* The response headers, or what comes in their place, keep the invariant. *)
LEMMA ResponseHeadersWork ==
  ASSUME WorkInv, ResponseHeaders
  PROVE  WorkInv'
<1>1. /\ UNCHANGED << phase, results, validation, exit >> /\ UNCHANGED peakVars
      /\ UNCHANGED << pc, index, ops, failure, failed >>
      /\ main = "headers" /\ main \in Opening
  BY Zenon DEF ResponseHeaders, workVars, Opening
<1>2. CASE HeadersCome
  <2>1. UNCHANGED << active, peak, current, seen, most, err >>
    BY <1>1, <1>2, Zenon DEF peakVars, HeadersCome
  <2>2. /\ opened' = opened + 1
        /\ \/ opened + 1 = StreamCount /\ main' = "phase"
           \/ opened + 1 # StreamCount /\ main' = "opening"
    BY <1>2, Zenon DEF HeadersCome, Next1
  <2>3. /\ opened \in 0..StreamCount /\ opened < StreamCount /\ results \subseteq Streams
        /\ \A s \in Streams : pc[s] = "absent"
    BY <1>1, Zenon DEF WorkInv, MainTypes, Stages
  <2>4. /\ opened' \in 0..StreamCount
        /\ main' = "opening" => opened' < StreamCount
        /\ main' = "phase" => opened' = StreamCount
    BY <2>2, <2>3, SessionAssumption, SMT
  <2>5. /\ main' \in {"opening", "phase"} /\ main' \notin {"collecting", "closing", "returned"}
        /\ main' \in Opening <=> main' = "opening"
    BY <2>2, Zenon DEF Opening
  <2>6. MainTypes'  BY <1>1, <2>1, <2>4, <2>5, Zenon DEF WorkInv, MainTypes
  <2>10. results' \subseteq Streams /\ \A s \in Streams : pc'[s] = "absent"
    BY <1>1, <2>3, Zenon
  <2>7. Stages'  BY <2>4, <2>5, <2>10, Zenon DEF Stages, Rest
  <2>8. Maximum'  BY <1>1, <2>5, MaximumIdle, ZenonT(30) DEF WorkInv
  <2>9. Reported'  BY <1>1, <2>1, <2>5, Zenon DEF WorkInv, Reported
  <2> QED BY <2>6, <2>7, <2>8, <2>9, Zenon DEF WorkInv
<1>3. CASE HeadersRefused  BY <1>1, <1>3, OpeningEnds, Zenon DEF HeadersRefused
<1>4. CASE HeadersLater  BY <1>1, <1>4, OpeningGoesOn, Zenon DEF HeadersLater
<1> QED BY <1>2, <1>3, <1>4, HeadersTaken, ZenonT(30)

(* main starts the workers of a phase: the invariant is kept. *)
LEMMA StartPhaseWork ==
  ASSUME WorkInv, StartPhase
  PROVE  WorkInv'
<1>1. /\ UNCHANGED << active, peak, current, seen, most, opened, phase, err, validation >>
      /\ UNCHANGED << exit, index, failure, failed >>
      /\ main = "phase" /\ main' = "collecting" /\ results' = {}
      /\ pc' = [s \in Streams |-> "enter"] /\ ops' = [s \in Streams |-> 0]
  BY Zenon DEF StartPhase, peakVars
<1>2. \A s \in Streams : pc'[s] = "enter"  BY <1>1, Zenon
<1>3. MainTypes'
  <2>1. pc' \in [Streams -> Working \cup Closing \cup {"absent"}]  BY <1>1, Zenon DEF Working
  <2>2. 0 \in 0..MaxGroups  BY SessionAssumption, SMT
  <2>3. ops' \in [Streams -> 0..MaxGroups]  BY <1>1, <2>2, Zenon
  <2> QED BY <1>1, <2>1, <2>3, Zenon DEF WorkInv, MainTypes
<1>4. main' \notin Opening /\ "enter" \in Working /\ "enter" \notin {"write", "read"}
  BY <1>1, Zenon DEF Opening, Working
<1>5. Stages'  BY <1>1, <1>2, <1>4, ZenonT(30) DEF WorkInv, Stages
<1>6. Inside' = {}  BY <1>2, Zenon DEF Inside
<1>7. Cardinality(Inside') = 0  BY <1>6, FS_EmptySet, Zenon
<1>8. active = 0 /\ peak = 0 /\ most = 0  BY <1>1, Zenon DEF WorkInv, Maximum
<1>9. peak <= most  BY <1>8, SMT
<1>10. Maximum'
  BY <1>1, <1>2, <1>7, <1>8, <1>9, Zenon DEF WorkInv, Maximum
<1>11. Reported'  BY <1>1, Zenon DEF WorkInv, Reported
<1> QED BY <1>3, <1>5, <1>10, <1>11, Zenon DEF WorkInv

(* main receives one worker's result: the invariant is kept. *)
LEMMA CollectWork ==
  ASSUME WorkInv, NEW s \in Streams, Collect(s)
  PROVE  WorkInv'
<1>1. /\ UNCHANGED << active, peak, current, seen, most, main, opened, phase, validation >>
      /\ UNCHANGED << exit, pc, index, ops, failure, failed >>
      /\ main = "collecting" /\ pc[s] \in {"sent", "left"} /\ results' = results \cup {s}
      /\ err' = IF err = "none" THEN failure[s] ELSE err
  BY Zenon DEF Collect, peakVars, workVars
<1>2. MainTypes'
  <2>1. failure[s] \in {"none", "failed", "timeout"}  BY Zenon DEF WorkInv, MainTypes
  <2>2. err' \in {"none", "failed", "timeout", "concurrency"}
    BY <1>1, <2>1, ZenonT(30) DEF WorkInv, MainTypes
  <2> QED BY <1>1, <2>2, Zenon DEF WorkInv, MainTypes
<1>3. Stages'  BY <1>1, Zenon DEF WorkInv, Stages
<1>4. Inside' = Inside  BY <1>1, Zenon DEF Inside
<1>5. Maximum'  BY <1>1, <1>4, Zenon DEF WorkInv, Maximum
<1>6. main \notin Opening  BY <1>1, Zenon DEF Opening
<1>7. failed => err' # "none" \/ \E t \in Streams \ results' : failure[t] # "none"
  BY <1>1, Zenon DEF WorkInv, Reported
<1>8. exit = "none" /\ validation = "none" /\ \A t \in Streams : failure[t] # "none" => failed
  BY <1>1, Zenon DEF WorkInv, Reported
<1>9. Reported'  BY <1>1, <1>6, <1>7, <1>8, Zenon DEF Reported
<1> QED BY <1>2, <1>3, <1>5, <1>9, Zenon DEF WorkInv

(* main judges a phase and starts the next one, or the closers: the         *)
(* invariant is kept.                                                       *)
LEMMA EndPhaseWork ==
  ASSUME WorkInv, EndPhase
  PROVE  WorkInv'
<1>1. /\ UNCHANGED << current, seen, opened, results, validation, exit, index, ops >>
      /\ UNCHANGED << failure, failed >>
      /\ main = "collecting" /\ results = Streams
      /\ active' = 0 /\ peak' = 0 /\ most' = 0
  BY Zenon DEF EndPhase
<1>2. err' = IF peak # StreamCount THEN "concurrency" ELSE err  BY Zenon DEF EndPhase
<1>3. \/ err' # "none" /\ main' = "returned" /\ UNCHANGED << phase, pc >>
      \/ /\ err' = "none" /\ main' = "closing" /\ UNCHANGED phase
         /\ pc' = [s \in Streams |-> "closeWrite"]
      \/ /\ err' = "none" /\ main' = "phase" /\ UNCHANGED pc
         /\ phase' = IF phase = "preflight" THEN "warmup" ELSE "measured"
  BY Zenon DEF EndPhase
<1>4. /\ opened = StreamCount /\ \A s \in Streams : pc[s] \in {"sent", "left"}
      /\ \A s \in Streams : failure[s] # "none" => failed
      /\ failed => err # "none"
      /\ exit = "none" /\ validation = "none"
  BY <1>1, Zenon DEF WorkInv, Stages, Reported
<1>5. err' = "none" => ~failed  BY <1>2, <1>4, Zenon
<1>6. /\ main' \in {"returned", "closing", "phase"} /\ main' \notin Opening
      /\ main' # "collecting"
  BY <1>3, Zenon DEF Opening
<1>7. MainTypes'
  <2>1. err' \in {"none", "failed", "timeout", "concurrency"}
    BY <1>2, Zenon DEF WorkInv, MainTypes
  <2>2. phase' \in {"preflight", "warmup", "measured"}
    BY <1>3, Zenon DEF WorkInv, MainTypes
  <2>3. pc' \in [Streams -> Working \cup Closing \cup {"absent"}]
    BY <1>3, Zenon DEF WorkInv, MainTypes, Closing
  <2>4. 0 \in 0..StreamCount  BY SessionAssumption, SMT
  <2> QED BY <1>1, <1>6, <2>1, <2>2, <2>3, <2>4, ZenonT(30) DEF WorkInv, MainTypes
<1>8. \A s \in Streams : IF main' = "closing" THEN pc'[s] = "closeWrite"
                         ELSE pc'[s] \in {"sent", "left"}
  BY <1>3, <1>4, Zenon
<1>9. \A s \in Streams : pc'[s] \notin {"write", "read"}  BY <1>8, Zenon
<1>10. main' = "returned" => err' # "none"  BY <1>3, Zenon
<1>11. \A s \in Streams : IF main' = "closing" THEN pc'[s] \in Closing ELSE pc'[s] \in Rest
  BY <1>8, Zenon DEF Closing, Rest
<1>12. Stages'  BY <1>1, <1>4, <1>6, <1>9, <1>10, <1>11, Zenon DEF Stages
<1>13. Maximum'
  <2>1. 0 \in 0..StreamCount  BY SessionAssumption, SMT
  <2> QED BY <1>1, <1>6, <2>1, Zenon DEF WorkInv, Maximum
<1>14. main' # "returned" => err' = "none"  BY <1>3, Zenon
<1>15. Reported'  BY <1>1, <1>4, <1>5, <1>6, <1>10, <1>14, ZenonT(30) DEF Reported
<1> QED BY <1>7, <1>12, <1>13, <1>15, Zenon DEF WorkInv

(* main joins the closers: the invariant is kept. *)
LEMMA EndCloseWork ==
  ASSUME WorkInv, EndClose
  PROVE  WorkInv'
<1> DEFINE errors == {failure[s] : s \in Streams} \ {"none"}
<1>1. /\ UNCHANGED peakVars /\ UNCHANGED << active, peak, current, seen, most >>
      /\ UNCHANGED << opened, phase, results, validation, exit, pc, index, ops >>
      /\ UNCHANGED << failure, failed >>
      /\ main = "closing" /\ main' = "returned" /\ \A s \in Streams : pc[s] = "closed"
  BY Zenon DEF EndClose, peakVars, workVars
<1>2. IF errors = {} THEN err' = err ELSE err' \in errors  BY Zenon DEF EndClose
<1>3. /\ opened = StreamCount /\ err = "none" /\ exit = "none" /\ validation = "none"
      /\ \A s \in Streams : failure[s] # "none" => failed
      /\ failed => \E s \in Streams : failure[s] # "none"
      /\ results \subseteq Streams
  BY <1>1, Zenon DEF WorkInv, Stages, Reported
<1>4. \A s \in Streams : failure[s] \in {"none", "failed", "timeout"}
  BY Zenon DEF WorkInv, MainTypes
<1>5. /\ err' \in {"none", "failed", "timeout", "concurrency"}
      /\ failed => err' # "none"
      /\ err' = "none" => \A s \in Streams : failure[s] = "none"
  BY <1>2, <1>3, <1>4, Zenon
<1>6. main' \notin Opening /\ main' = "returned"  BY <1>1, Zenon DEF Opening
<1>7. MainTypes'  BY <1>1, <1>5, Zenon DEF WorkInv, MainTypes
<1>8. Stages'  BY <1>1, <1>3, <1>5, <1>6, Zenon DEF Stages
<1>9. Maximum'  BY <1>1, MaximumIdle, Zenon DEF WorkInv
<1>10. Reported'  BY <1>1, <1>3, <1>5, <1>6, Zenon DEF Reported
<1> QED BY <1>7, <1>8, <1>9, <1>10, Zenon DEF WorkInv

(* main writes its validation and exits: the invariant is kept. *)
LEMMA ReportWork ==
  ASSUME WorkInv, Report
  PROVE  WorkInv'
<1>1. /\ UNCHANGED peakVars /\ UNCHANGED << active, peak, current, seen, most >>
      /\ UNCHANGED << main, opened, phase, results, err, pc, index, ops, failure, failed >>
      /\ main = "returned"
      /\ validation' = IF err = "none" THEN "passed" ELSE "failed"
  BY Zenon DEF Report, peakVars, workVars
<1>2. exit' \in {"0", "1"} /\ (exit' = "0" => err = "none")  BY Zenon DEF Report
<1>3. validation' \in {"passed", "failed"} /\ (validation' = "passed" => err = "none")
  BY <1>1, Zenon
<1>4. MainTypes'  BY <1>1, <1>2, <1>3, Zenon DEF WorkInv, MainTypes
<1>5. Stages'  BY <1>1, Zenon DEF WorkInv, Stages
<1>6. Maximum'  BY <1>1, MaximumIdle, Zenon DEF WorkInv
<1>7. Reported'  BY <1>1, <1>2, <1>3, Zenon DEF WorkInv, Reported
<1> QED BY <1>4, <1>5, <1>6, <1>7, Zenon DEF WorkInv

-----------------------------------------------------------------------------
(* The goroutines of the streams. *)
LEMMA LateMove ==
  ASSUME WorkInv, NEW s \in Streams, NEW v \in Late, pc[s] \in Late \ {"sent"},
         pc' = [pc EXCEPT ![s] = v], UNCHANGED << peakVars, mainVars >>,
         index' \in [Streams -> 0..MessageCount], ops' \in [Streams -> 0..MaxGroups],
         failure' \in [Streams -> {"none", "failed", "timeout"}], Reported',
         v \in {"write", "read"} => index'[s] < MessageCount /\ ops'[s] < MaxGroups,
         \A t \in Streams \ {s} : index'[t] = index[t] /\ ops'[t] = ops[t]
  PROVE  WorkInv'
<1>1. UNCHANGED << active, peak, main, opened, phase, results, err, validation, exit >>
  BY Zenon DEF peakVars, mainVars
<1>2. pc[s] \in {"enter", "load", "swap", "loop", "write", "read", "send"}
      /\ v \in Working /\ pc[s] \in Late
  BY Zenon DEF Late, Working
<1>3. main = "collecting" /\ s \notin results  BY <1>2, Places, Zenon
<1>4. s \notin results \/ v \in {"sent", "left"}  BY <1>3, Zenon
<1>5. pc' \in [Streams -> Working \cup Closing \cup {"absent"}] /\ Stages'
  BY <1>1, <1>2, <1>3, <1>4, WorkerMoves, Zenon
<1>6. pc \in [Streams -> Working \cup Closing \cup {"absent"}] /\ Maximum
  BY Zenon DEF WorkInv, MainTypes
<1>7. Maximum'  BY <1>1, <1>2, <1>6, MaximumKept, Zenon
<1>8. MainTypes'  BY <1>1, <1>5, Zenon DEF WorkInv, MainTypes
<1> QED BY <1>5, <1>7, <1>8, Zenon DEF WorkInv

(* A closer writes its frame, reads the peer's, or fails: the invariant is  *)
(* kept.                                                                    *)
LEMMA CloseMove ==
  ASSUME WorkInv, NEW s \in Streams, NEW v \in Closing, pc[s] \in {"closeWrite", "closeRead"},
         pc' = [pc EXCEPT ![s] = v], UNCHANGED << peakVars, mainVars >>,
         UNCHANGED << index, ops >>,
         failure' \in [Streams -> {"none", "failed", "timeout"}], Reported'
  PROVE  WorkInv'
<1>1. UNCHANGED << active, peak, main, opened, phase, results, err, validation, exit >>
  BY Zenon DEF peakVars, mainVars
<1>2. main = "closing"  BY Places, Zenon
<1>3. pc' \in [Streams -> Working \cup Closing \cup {"absent"}] /\ Stages'
  BY <1>1, <1>2, CloserMoves, Zenon
<1>4. Maximum'  BY <1>1, <1>2, MaximumIdle, Zenon DEF WorkInv
<1>5. MainTypes'  BY <1>1, <1>3, Zenon DEF WorkInv, MainTypes
<1> QED BY <1>3, <1>4, <1>5, Zenon DEF WorkInv

(* A goroutine fails and records its error: the invariant is kept. *)
LEMMA FailWork ==
  ASSUME WorkInv, NEW s \in Streams, NEW e \in {"failed", "timeout"}, Fail(s, e),
         pc[s] \in {"write", "read", "closeWrite", "closeRead"},
         UNCHANGED << peakVars, mainVars >>
  PROVE  WorkInv'
<1>1. /\ UNCHANGED << main, results, err, validation, exit, index, ops >>
      /\ failure' = [failure EXCEPT ![s] = e] /\ failed' = TRUE
      /\ pc' = [pc EXCEPT ![s] = IF @ \in {"write", "read"} THEN "send" ELSE "closed"]
  BY Zenon DEF Fail, mainVars
<1>2. /\ index \in [Streams -> 0..MessageCount] /\ ops \in [Streams -> 0..MaxGroups]
      /\ failure \in [Streams -> {"none", "failed", "timeout"}]
      /\ pc \in [Streams -> Working \cup Closing \cup {"absent"}]
  BY Zenon DEF WorkInv, MainTypes
<1>3. failure' \in [Streams -> {"none", "failed", "timeout"}] /\ failure'[s] = e /\ e # "none"
  BY <1>1, <1>2, Zenon
<1>4. pc[s] \in {"write", "read"} => main = "collecting" /\ s \notin results
  BY Places, Zenon
<1>5. pc[s] \in {"closeWrite", "closeRead"} => main = "closing"  BY Places, Zenon
<1>6. main \in {"collecting", "closing"} /\ (main = "collecting" => s \notin results)
  BY <1>4, <1>5, Zenon
<1>7. Reported'
  <2>1. main \notin Opening \cup {"phase", "returned"}  BY <1>6, Zenon DEF Opening
  <2>2. exit = "none" /\ validation = "none" /\ (main # "collecting" => err = "none")
    BY <2>1, Zenon DEF WorkInv, Reported
  <2> QED BY <1>1, <1>3, <1>6, <2>1, <2>2, Zenon DEF Reported
<1>8. CASE pc[s] \in {"write", "read"}
  <2>1. pc' = [pc EXCEPT ![s] = "send"] /\ "send" \in Late /\ pc[s] \in Late \ {"sent"}
    BY <1>1, <1>2, <1>8, Zenon DEF Late
  <2>2. /\ index' \in [Streams -> 0..MessageCount] /\ ops' \in [Streams -> 0..MaxGroups]
        /\ "send" \notin {"write", "read"}
        /\ \A t \in Streams \ {s} : index'[t] = index[t] /\ ops'[t] = ops[t]
    BY <1>1, <1>2, Zenon
  <2> QED BY <1>3, <1>7, <2>1, <2>2, LateMove, Zenon
<1>9. CASE pc[s] \in {"closeWrite", "closeRead"}
  <2>1. pc' = [pc EXCEPT ![s] = "closed"] /\ "closed" \in Closing
    BY <1>1, <1>2, <1>9, Zenon DEF Closing
  <2> QED BY <1>1, <1>3, <1>7, <1>9, <2>1, CloseMove, Zenon
<1> QED BY <1>8, <1>9, Zenon

(* A write fails: the invariant is kept. *)
LEMMA WriteFailsWork ==
  ASSUME WorkInv, NEW s \in Streams, WriteFails(s)
  PROVE  WorkInv'
BY FailWork, Zenon DEF WriteFails

(* A read fails: the invariant is kept. *)
LEMMA ReadFailsWork ==
  ASSUME WorkInv, NEW s \in Streams, ReadFails(s)
  PROVE  WorkInv'
BY FailWork, Zenon DEF ReadFails, Reading

(* A goroutine takes an event from its channel: the invariant is kept. *)
LEMMA TakeEventWork ==
  ASSUME WorkInv, NEW s \in Streams, TakeEvent(s)
  PROVE  WorkInv'
<1>1. /\ UNCHANGED << peakVars, mainVars >>
      /\ pc[s] \in {"write", "read", "closeWrite", "closeRead"}
  BY Zenon DEF TakeEvent, Reading
<1>2. CASE Fail(s, "failed")  BY <1>1, <1>2, FailWork, Zenon
<1>3. CASE UNCHANGED << pc, index, ops, failure, failed >>  BY <1>1, <1>3, WorkKept, Zenon
<1> QED BY <1>2, <1>3, Zenon DEF TakeEvent

(* A step within the loop of a worker, without an error. *)
LEMMA LoopMove ==
  ASSUME WorkInv, NEW s \in Streams, NEW v \in Late, pc[s] \in Late \ {"sent"},
         pc' = [pc EXCEPT ![s] = v], UNCHANGED << peakVars, mainVars >>,
         UNCHANGED << failure, failed >>,
         index' \in [Streams -> 0..MessageCount], ops' \in [Streams -> 0..MaxGroups],
         v \in {"write", "read"} => index'[s] < MessageCount /\ ops'[s] < MaxGroups,
         \A t \in Streams \ {s} : index'[t] = index[t] /\ ops'[t] = ops[t]
  PROVE  WorkInv'
<1>1. UNCHANGED << main, results, err, validation, exit, failure, failed >>
  BY Zenon DEF mainVars
<1>2. Reported'  BY <1>1, ReportedKept, Zenon DEF WorkInv
<1>3. failure' \in [Streams -> {"none", "failed", "timeout"}]
  BY <1>1, Zenon DEF WorkInv, MainTypes
<1> QED BY <1>2, <1>3, LateMove, Zenon

(* A worker begins a group of messages: the invariant is kept. *)
LEMMA BeginGroupWork ==
  ASSUME WorkInv, NEW s \in Streams, BeginGroup(s)
  PROVE  WorkInv'
<1>1. /\ UNCHANGED << peakVars, mainVars >> /\ UNCHANGED << failure, failed >>
      /\ pc[s] = "loop" /\ pc' = [pc EXCEPT ![s] = "write"] /\ ops' = ops
      /\ index' = [index EXCEPT ![s] = 0] /\ ops[s] < MaxGroups
  BY Zenon DEF BeginGroup
<1>2. index \in [Streams -> 0..MessageCount] /\ ops \in [Streams -> 0..MaxGroups]
  BY Zenon DEF WorkInv, MainTypes
<1>3. 0 \in 0..MessageCount /\ 0 < MessageCount  BY SessionAssumption, SMT
<1>4. /\ index' \in [Streams -> 0..MessageCount] /\ index'[s] < MessageCount
      /\ \A t \in Streams \ {s} : index'[t] = index[t]
  BY <1>1, <1>2, <1>3, Zenon
<1>5. "write" \in Late /\ pc[s] \in Late \ {"sent"}  BY <1>1, Zenon DEF Late
<1> QED BY <1>1, <1>2, <1>4, <1>5, LoopMove, Zenon

(* A worker leaves its loop: the invariant is kept. *)
LEMMA EndLoopWork ==
  ASSUME WorkInv, NEW s \in Streams, EndLoop(s)
  PROVE  WorkInv'
<1>1. /\ UNCHANGED << peakVars, mainVars >> /\ UNCHANGED << failure, failed, index, ops >>
      /\ pc[s] = "loop" /\ pc' = [pc EXCEPT ![s] = "send"]
  BY Zenon DEF EndLoop
<1>2. index \in [Streams -> 0..MessageCount] /\ ops \in [Streams -> 0..MaxGroups]
  BY Zenon DEF WorkInv, MainTypes
<1>3. "send" \in Late /\ pc[s] \in Late \ {"sent"} /\ "send" \notin {"write", "read"}
  BY <1>1, Zenon DEF Late
<1> QED BY <1>1, <1>2, <1>3, LoopMove, Zenon

(* A worker sends its result: the invariant is kept. *)
LEMMA SendWork ==
  ASSUME WorkInv, NEW s \in Streams, Send(s)
  PROVE  WorkInv'
<1>1. /\ UNCHANGED << peakVars, mainVars >> /\ UNCHANGED << failure, failed, ops >>
      /\ pc[s] = "send" /\ pc' = [pc EXCEPT ![s] = "sent"]
      /\ index' = [index EXCEPT ![s] = 0]
  BY Zenon DEF Send
<1>2. index \in [Streams -> 0..MessageCount] /\ ops \in [Streams -> 0..MaxGroups]
  BY Zenon DEF WorkInv, MainTypes
<1>3. 0 \in 0..MessageCount  BY SessionAssumption, SMT
<1>4. /\ index' \in [Streams -> 0..MessageCount]
      /\ \A t \in Streams \ {s} : index'[t] = index[t]
  BY <1>1, <1>2, <1>3, Zenon
<1>5. "sent" \in Late /\ pc[s] \in Late \ {"sent"} /\ "sent" \notin {"write", "read"}
  BY <1>1, Zenon DEF Late
<1> QED BY <1>1, <1>2, <1>4, <1>5, LoopMove, Zenon

(* A goroutine writes a frame: the invariant is kept. *)
LEMMA WriteFrameWork ==
  ASSUME WorkInv, NEW s \in Streams, WriteFrame(s)
  PROVE  WorkInv'
<1>1. /\ UNCHANGED << peakVars, mainVars >> /\ UNCHANGED << failure, failed, index, ops >>
      /\ \/ pc[s] = "write" /\ pc' = [pc EXCEPT ![s] = "read"]
         \/ pc[s] = "closeWrite" /\ pc' = [pc EXCEPT ![s] = "closeRead"]
  BY Zenon DEF WriteFrame
<1>2. /\ index \in [Streams -> 0..MessageCount] /\ ops \in [Streams -> 0..MaxGroups]
      /\ failure \in [Streams -> {"none", "failed", "timeout"}] /\ Reported
  BY Zenon DEF WorkInv, MainTypes
<1>3. CASE pc[s] = "write" /\ pc' = [pc EXCEPT ![s] = "read"]
  <2>1. "read" \in Late /\ pc[s] \in Late \ {"sent"}  BY <1>3, Zenon DEF Late
  <2>2. index[s] < MessageCount /\ ops[s] < MaxGroups  BY <1>3, Places, Zenon
  <2> QED BY <1>1, <1>2, <1>3, <2>1, <2>2, LoopMove, Zenon
<1>4. CASE pc[s] = "closeWrite" /\ pc' = [pc EXCEPT ![s] = "closeRead"]
  <2>1. "closeRead" \in Closing /\ pc[s] \in {"closeWrite", "closeRead"}
    BY <1>4, Zenon DEF Closing
  <2>2. UNCHANGED << main, results, err, validation, exit, failure, failed >>
    BY <1>1, Zenon DEF mainVars
  <2>3. Reported'  BY <1>2, <2>2, ReportedKept, Zenon
  <2> QED BY <1>1, <1>2, <1>4, <2>1, <2>3, CloseMove, Zenon
<1> QED BY <1>1, <1>3, <1>4, Zenon

(* A goroutine takes a frame off its buffer: the invariant is kept. *)
LEMMA TakeFrameWork ==
  ASSUME WorkInv, NEW s \in Streams, TakeFrame(s)
  PROVE  WorkInv'
<1>1. UNCHANGED << peakVars, mainVars >> /\ pc[s] \in {"read", "closeRead"}
  BY Zenon DEF TakeFrame, Reading
<1>2. /\ index \in [Streams -> 0..MessageCount] /\ ops \in [Streams -> 0..MaxGroups]
      /\ failure \in [Streams -> {"none", "failed", "timeout"}] /\ Reported
      /\ pc \in [Streams -> Working \cup Closing \cup {"absent"}]
  BY Zenon DEF WorkInv, MainTypes
<1>3. CASE pc[s] = "read" /\ TextTaken(s)
  <2> DEFINE last == index[s] + 1 = MessageCount
             v == IF ~last THEN "write" ELSE IF exactlyOne THEN "send" ELSE "loop"
  <2>1. index[s] < MessageCount /\ ops[s] < MaxGroups  BY <1>3, Places, Zenon
  <2>2. index[s] \in 0..MessageCount /\ ops[s] \in 0..MaxGroups  BY <1>2, Zenon
  <2>3. /\ index[s] + 1 \in 0..MessageCount /\ ops[s] + 1 \in 0..MaxGroups
        /\ ~last => index[s] + 1 < MessageCount
    BY <2>1, <2>2, SessionAssumption, SMT
  <2>4. /\ index' = [index EXCEPT ![s] = index[s] + 1] /\ UNCHANGED << failure, failed >>
        /\ ops' = IF last THEN [ops EXCEPT ![s] = ops[s] + 1] ELSE ops
        /\ pc' = [pc EXCEPT ![s] = v]
    BY <1>2, <1>3, Zenon DEF TextTaken
  <2> HIDE DEF last
  <2>5. /\ index' \in [Streams -> 0..MessageCount] /\ index'[s] = index[s] + 1
        /\ \A t \in Streams \ {s} : index'[t] = index[t]
    BY <1>2, <2>3, <2>4, Zenon
  <2>6. /\ ops' \in [Streams -> 0..MaxGroups] /\ (~last => ops'[s] = ops[s])
        /\ \A t \in Streams \ {s} : ops'[t] = ops[t]
    <3>1. CASE last  BY <1>2, <2>3, <2>4, <3>1, Zenon
    <3>2. CASE ~last  BY <1>2, <2>4, <3>2, Zenon
    <3> QED BY <3>1, <3>2, Zenon
  <2>7. v \in Late /\ (v \in {"write", "read"} => ~last) /\ pc[s] \in Late \ {"sent"}
    BY <1>3, Zenon DEF Late
  <2>8. v \in {"write", "read"} => index'[s] < MessageCount /\ ops'[s] < MaxGroups
    BY <2>1, <2>3, <2>5, <2>6, <2>7, Zenon
  <2> HIDE DEF v
  <2> QED BY <1>1, <2>4, <2>5, <2>6, <2>7, <2>8, LoopMove, Zenon
<1>4. CASE pc[s] = "closeRead" /\ CloseTaken(s)
  <2>1. /\ pc' = [pc EXCEPT ![s] = "closed"] /\ UNCHANGED << index, ops, failure, failed >>
        /\ "closed" \in Closing /\ pc[s] \in {"closeWrite", "closeRead"}
    BY <1>4, Zenon DEF CloseTaken, Closing
  <2>2. UNCHANGED << main, results, err, validation, exit, failure, failed >>
    BY <1>1, <2>1, Zenon DEF mainVars
  <2>3. Reported'  BY <1>2, <2>2, ReportedKept, Zenon
  <2> QED BY <1>1, <1>2, <2>1, <2>3, CloseMove, Zenon
<1>5. CASE Fail(s, "failed")
  <2>1. pc[s] \in {"write", "read", "closeWrite", "closeRead"}  BY <1>1, Zenon
  <2> QED BY <1>1, <1>5, <2>1, FailWork, Zenon
<1> QED BY <1>3, <1>4, <1>5, FrameTaken, Zenon

-----------------------------------------------------------------------------
(* active.Add and the loop that raises peak. *)
LEMMA StreamsFinite == IsFiniteSet(Streams) /\ Cardinality(Streams) = StreamCount
<1>1. StreamCount \in Nat /\ 1 \in Int /\ StreamCount \in Int  BY SessionAssumption, SMT
<1>2. IsFiniteSet(1..StreamCount) /\
      Cardinality(1..StreamCount) = (IF 1 > StreamCount THEN 0 ELSE StreamCount - 1 + 1)
  BY <1>1, FS_Interval, SMT
<1>3. Cardinality(1..StreamCount) = StreamCount  BY <1>1, <1>2, SMT
<1> QED BY <1>2, <1>3, Zenon DEF Streams

(* The workers inside are finitely many, and one more or fewer changes      *)
(* their number by one.                                                     *)
LEMMA Insiders ==
  /\ IsFiniteSet(Inside) /\ Cardinality(Inside) \in 0..StreamCount
  /\ \A s \in Streams : s \notin Inside =>
       Cardinality(Inside \cup {s}) = Cardinality(Inside) + 1
  /\ \A s \in Streams : s \in Inside => Cardinality(Inside \ {s}) = Cardinality(Inside) - 1
<1>1. StreamCount \in Nat  BY SessionAssumption, SMT
<1>2. IsFiniteSet(Streams) /\ Cardinality(Streams) = StreamCount  BY StreamsFinite, Zenon
<1>3. Inside \subseteq Streams  BY Zenon DEF Inside
<1>4. IsFiniteSet(Inside) /\ Cardinality(Inside) <= StreamCount
  BY <1>2, <1>3, FS_Subset, Zenon
<1>5. Cardinality(Inside) \in Nat  BY <1>4, FS_CardinalityType, Zenon
<1>6. Cardinality(Inside) \in 0..StreamCount  BY <1>1, <1>4, <1>5, SMT
<1>7. \A s \in Streams : s \notin Inside =>
        Cardinality(Inside \cup {s}) = Cardinality(Inside) + 1
  BY <1>4, FS_AddElement, Zenon
<1>8. \A s \in Streams : s \in Inside => Cardinality(Inside \ {s}) = Cardinality(Inside) - 1
  BY <1>4, FS_RemoveElement, Zenon
<1> QED BY <1>4, <1>6, <1>7, <1>8, Zenon

(* So they are after a step. *)
LEMMA InsidersNext == Cardinality(Inside') \in 0..StreamCount
<1>1. StreamCount \in Nat  BY SessionAssumption, SMT
<1>2. IsFiniteSet(Streams) /\ Cardinality(Streams) = StreamCount  BY StreamsFinite, Zenon
<1>3. Inside' \subseteq Streams  BY Zenon DEF Inside
<1>4. IsFiniteSet(Inside') /\ Cardinality(Inside') <= StreamCount
  BY <1>2, <1>3, FS_Subset, Zenon
<1>5. Cardinality(Inside') \in Nat  BY <1>4, FS_CardinalityType, Zenon
<1> QED BY <1>1, <1>4, <1>5, SMTT(30)

(* A step of a worker that changes nothing but its place and the atomics. *)
LEMMA PeakMove ==
  ASSUME WorkInv, NEW s \in Streams, NEW v \in Working, main = "collecting",
         s \notin results \/ v \in {"sent", "left"}, v \notin {"write", "read"},
         pc' = [pc EXCEPT ![s] = v], UNCHANGED mainVars,
         UNCHANGED << index, ops, failure, failed >>, Maximum', peak' \in 0..StreamCount
  PROVE  WorkInv'
<1>1. UNCHANGED << main, opened, phase, results, err, validation, exit >>
  BY Zenon DEF mainVars
<1>2. pc' \in [Streams -> Working \cup Closing \cup {"absent"}] /\ Stages'
  BY <1>1, WorkerMoves, Zenon
<1>3. active' \in 0..StreamCount
  BY <1>1, InsidersNext, Zenon DEF Maximum
<1>4. MainTypes'  BY <1>1, <1>2, <1>3, Zenon DEF WorkInv, MainTypes
<1>5. Reported'  BY <1>1, ReportedKept, Zenon DEF WorkInv
<1> QED BY <1>2, <1>4, <1>5, Zenon DEF WorkInv

(* A worker adds itself to active: the invariant is kept. *)
LEMMA EnterWork ==
  ASSUME WorkInv, NEW s \in Streams, Enter(s)
  PROVE  WorkInv'
<1>1. /\ UNCHANGED << peak, seen, main >> /\ UNCHANGED mainVars
      /\ UNCHANGED << index, ops, failure, failed >>
      /\ pc[s] = "enter" /\ pc' = [pc EXCEPT ![s] = "load"]
      /\ active' = active + 1 /\ current' = [current EXCEPT ![s] = active + 1]
      /\ most' = IF active + 1 > most THEN active + 1 ELSE most
  BY Zenon DEF Enter, mainVars
<1>2. main = "collecting" /\ s \notin results  BY <1>1, Places, Zenon
<1>3. /\ pc \in [Streams -> Working \cup Closing \cup {"absent"}]
      /\ peak \in 0..StreamCount /\ active \in 0..StreamCount
  BY Zenon DEF WorkInv, MainTypes
<1>4. /\ current \in [Streams -> 0..StreamCount] /\ seen \in [Streams -> 0..StreamCount]
      /\ most \in 0..StreamCount /\ active = Cardinality(Inside) /\ peak <= most
      /\ \A t \in Streams : pc[t] \in {"load", "swap"} => current[t] <= most
      /\ \A t \in Streams : pc[t] = "swap" => seen[t] < current[t]
      /\ \/ peak = most
         \/ \E t \in Streams : pc[t] \in {"load", "swap"} /\ current[t] = most
  BY <1>2, Zenon DEF WorkInv, Maximum
<1>5. \A t \in Streams : IF t = s THEN pc'[t] = "load" ELSE pc'[t] = pc[t]
  BY <1>1, <1>3, Zenon
<1>6. active' = Cardinality(Inside')
  <2>1. s \notin Inside  BY <1>1, Zenon DEF Inside
  <2>2. \A t \in Streams : t \in Inside' <=> t \in Inside \cup {s}
    BY <1>5, Zenon DEF Inside
  <2>3. Inside' \subseteq Streams /\ Inside \cup {s} \subseteq Streams  BY Zenon DEF Inside
  <2>4. Inside' = Inside \cup {s}  BY <2>2, <2>3, Zenon
  <2> QED BY <1>1, <1>4, <2>1, <2>4, Insiders, Zenon
<1>7. active + 1 \in 0..StreamCount  BY <1>1, <1>6, InsidersNext, Zenon
<1>8. /\ current' \in [Streams -> 0..StreamCount] /\ current'[s] = active + 1
      /\ \A t \in Streams \ {s} : current'[t] = current[t]
  BY <1>1, <1>4, <1>7, Zenon
<1>9. /\ most' \in 0..StreamCount /\ active + 1 <= most' /\ most <= most'
      /\ most' = active + 1 \/ most' = most
  <2>1. \/ most' = active + 1 /\ active + 1 > most
        \/ most' = most /\ ~(active + 1 > most)
    BY <1>1, Zenon
  <2>2. \A a, b \in 0..StreamCount : /\ a > b => b <= a /\ a <= a
                                     /\ ~(a > b) => a <= b /\ b <= b
    BY SessionAssumption, SMT
  <2> QED BY <1>4, <1>7, <2>1, <2>2, Zenon
<1>10. \A a, b, c \in 0..StreamCount : a <= b /\ b <= c => a <= c
  BY SessionAssumption, SMT
<1>11. peak' <= most'  BY <1>1, <1>3, <1>4, <1>9, <1>10, Zenon
<1>12. \A t \in Streams : pc'[t] \in {"load", "swap"} => current'[t] <= most'
  <2>1. ASSUME NEW t \in Streams \ {s}, pc'[t] \in {"load", "swap"} PROVE current'[t] <= most'
    <3>1. current'[t] = current[t] /\ current[t] \in 0..StreamCount /\ current[t] <= most
      BY <1>4, <1>5, <1>8, <2>1, Zenon
    <3> QED BY <1>4, <1>9, <1>10, <3>1, Zenon
  <2> QED BY <1>8, <1>9, <2>1, Zenon
<1>13. \A t \in Streams : pc'[t] = "swap" => seen'[t] < current'[t]
  BY <1>1, <1>4, <1>5, <1>8, Zenon
<1>14. \/ peak' = most'
       \/ \E t \in Streams : pc'[t] \in {"load", "swap"} /\ current'[t] = most'
  <2>1. CASE most' = active + 1  BY <1>5, <1>8, <2>1, Zenon
  <2>2. CASE most' = most
    <3>1. CASE peak = most  BY <1>1, <2>2, <3>1, Zenon
    <3>2. CASE \E t \in Streams : pc[t] \in {"load", "swap"} /\ current[t] = most
      <4>1. PICK t \in Streams : pc[t] \in {"load", "swap"} /\ current[t] = most
        BY <3>2, Zenon
      <4>2. t # s  BY <1>1, <4>1, Zenon
      <4> QED BY <1>5, <1>8, <2>2, <4>1, <4>2, Zenon
    <3> QED BY <1>4, <3>1, <3>2, Zenon
  <2> QED BY <1>9, <2>1, <2>2, Zenon
<1>15. Maximum'
  BY <1>1, <1>2, <1>4, <1>6, <1>8, <1>9, <1>11, <1>12, <1>13, <1>14, ZenonT(30) DEF Maximum
<1>16. "load" \in Working /\ "load" \notin {"write", "read"}
       /\ (s \notin results \/ "load" \in {"sent", "left"})
  BY <1>2, Zenon DEF Working
<1> QED BY <1>1, <1>2, <1>3, <1>15, <1>16, PeakMove, Zenon

(* A worker loads the peak: the invariant is kept. *)
LEMMA LoadPeakWork ==
  ASSUME WorkInv, NEW s \in Streams, LoadPeak(s)
  PROVE  WorkInv'
<1> DEFINE done == current[s] <= peak
           v == IF done THEN "loop" ELSE "swap"
<1>1. /\ UNCHANGED << active, peak, most, main >> /\ UNCHANGED mainVars
      /\ UNCHANGED << index, ops, failure, failed >>
      /\ pc[s] = "load" /\ pc' = [pc EXCEPT ![s] = v]
      /\ seen' = [seen EXCEPT ![s] = IF done THEN 0 ELSE peak]
      /\ current' = [current EXCEPT ![s] = IF done THEN 0 ELSE current[s]]
  BY Zenon DEF LoadPeak, mainVars, WorkInv, Maximum
<1>2. main = "collecting" /\ s \notin results  BY <1>1, Places, Zenon
<1>3. /\ pc \in [Streams -> Working \cup Closing \cup {"absent"}]
      /\ peak \in 0..StreamCount
  BY Zenon DEF WorkInv, MainTypes
<1>4. /\ current \in [Streams -> 0..StreamCount] /\ seen \in [Streams -> 0..StreamCount]
      /\ most \in 0..StreamCount /\ active = Cardinality(Inside) /\ peak <= most
      /\ \A t \in Streams : pc[t] \in {"load", "swap"} => current[t] <= most
      /\ \A t \in Streams : pc[t] = "swap" => seen[t] < current[t]
      /\ \/ peak = most
         \/ \E t \in Streams : pc[t] \in {"load", "swap"} /\ current[t] = most
  BY <1>2, Zenon DEF WorkInv, Maximum
<1> HIDE DEF done
<1>5. \A t \in Streams : IF t = s THEN pc'[t] = v ELSE pc'[t] = pc[t]
  BY <1>1, <1>3, Zenon
<1>6. Inside' = Inside
  <2>1. \A t \in Streams : t \in Inside' <=> t \in Inside  BY <1>1, <1>5, Zenon DEF Inside
  <2>2. Inside' \subseteq Streams /\ Inside \subseteq Streams  BY Zenon DEF Inside
  <2> QED BY <2>1, <2>2, Zenon
<1>7. 0 \in 0..StreamCount  BY SessionAssumption, SMT
<1>8. /\ current' \in [Streams -> 0..StreamCount] /\ seen' \in [Streams -> 0..StreamCount]
      /\ seen'[s] = (IF done THEN 0 ELSE peak)
      /\ current'[s] = (IF done THEN 0 ELSE current[s])
      /\ \A t \in Streams \ {s} : current'[t] = current[t] /\ seen'[t] = seen[t]
  BY <1>1, <1>3, <1>4, <1>7, Zenon
<1>9. \A a, b \in 0..StreamCount : (a <= b /\ b <= a => a = b) /\ (~(a <= b) => b < a)
  BY SessionAssumption, SMT
<1>10. current[s] \in 0..StreamCount /\ current[s] <= most  BY <1>1, <1>4, Zenon
<1>11. \A t \in Streams : pc'[t] \in {"load", "swap"} => current'[t] <= most'
  <2>1. \A t \in Streams \ {s} : pc'[t] \in {"load", "swap"} => current'[t] <= most'
    BY <1>1, <1>4, <1>5, <1>8, Zenon
  <2>2. pc'[s] \in {"load", "swap"} => ~done  BY <1>5, Zenon
  <2>3. ~done => current'[s] <= most'  BY <1>1, <1>8, <1>10, Zenon
  <2> QED BY <2>1, <2>2, <2>3, Zenon
<1>12. \A t \in Streams : pc'[t] = "swap" => seen'[t] < current'[t]
  <2>1. ~done => peak < current[s]  BY <1>3, <1>9, <1>10, Zenon DEF done
  <2>2. pc'[s] = "swap" => seen'[s] < current'[s]
    <3>1. pc'[s] = "swap" => ~done  BY <1>5, Zenon
    <3> QED BY <1>8, <2>1, <3>1, Zenon
  <2>3. \A t \in Streams \ {s} : pc'[t] = "swap" => seen'[t] < current'[t]
    BY <1>4, <1>5, <1>8, Zenon
  <2> QED BY <2>2, <2>3, Zenon
<1>13. \/ peak' = most'
       \/ \E t \in Streams : pc'[t] \in {"load", "swap"} /\ current'[t] = most'
  <2>1. CASE peak = most  BY <1>1, <2>1, Zenon
  <2>2. CASE \E t \in Streams : pc[t] \in {"load", "swap"} /\ current[t] = most
    <3>1. PICK t \in Streams : pc[t] \in {"load", "swap"} /\ current[t] = most
      BY <2>2, Zenon
    <3>2. CASE t # s  BY <1>1, <1>5, <1>8, <3>1, <3>2, ZenonT(30)
    <3>3. CASE t = s /\ done
      <4>1. most <= peak  BY <3>1, <3>3, Zenon DEF done
      <4> QED BY <1>1, <1>3, <1>4, <1>9, <4>1, Zenon
    <3>4. CASE t = s /\ ~done  BY <1>1, <1>5, <1>8, <3>1, <3>4, ZenonT(30)
    <3> QED BY <3>2, <3>3, <3>4, Zenon
  <2> QED BY <1>4, <2>1, <2>2, Zenon
<1>14. Maximum'
  BY <1>1, <1>2, <1>4, <1>6, <1>8, <1>11, <1>12, <1>13, ZenonT(30) DEF Maximum
<1>15. v \in Working /\ v \notin {"write", "read"}
  BY Zenon DEF Working
<1>16. s \notin results \/ v \in {"sent", "left"}  BY <1>2, Zenon
<1> HIDE DEF v
<1> QED BY <1>1, <1>2, <1>3, <1>14, <1>15, <1>16, PeakMove, ZenonT(30)

(* A worker's compare-and-swap succeeds or is tried again: the invariant    *)
(* is kept.                                                                 *)
LEMMA SwapPeakWork ==
  ASSUME WorkInv, NEW s \in Streams, SwapPeak(s)
  PROVE  WorkInv'
<1> DEFINE won == peak = seen[s]
           v == IF won THEN "loop" ELSE "load"
<1>1. /\ UNCHANGED << active, most, main >> /\ UNCHANGED mainVars
      /\ UNCHANGED << index, ops, failure, failed >>
      /\ pc[s] = "swap" /\ pc' = [pc EXCEPT ![s] = v] /\ seen' = [seen EXCEPT ![s] = 0]
      /\ won => peak' = current[s] /\ current' = [current EXCEPT ![s] = 0]
      /\ ~won => peak' = peak /\ current' = current
  BY Zenon DEF SwapPeak, mainVars
<1>2. main = "collecting" /\ s \notin results  BY <1>1, Places, ZenonT(30)
<1>3. /\ pc \in [Streams -> Working \cup Closing \cup {"absent"}]
      /\ peak \in 0..StreamCount
  BY Zenon DEF WorkInv, MainTypes
<1>4. /\ current \in [Streams -> 0..StreamCount] /\ seen \in [Streams -> 0..StreamCount]
      /\ most \in 0..StreamCount /\ active = Cardinality(Inside) /\ peak <= most
      /\ \A t \in Streams : pc[t] \in {"load", "swap"} => current[t] <= most
      /\ \A t \in Streams : pc[t] = "swap" => seen[t] < current[t]
      /\ \/ peak = most
         \/ \E t \in Streams : pc[t] \in {"load", "swap"} /\ current[t] = most
  BY <1>2, Zenon DEF WorkInv, Maximum
<1>5. seen[s] < current[s] /\ current[s] <= most /\ current[s] \in 0..StreamCount
  BY <1>1, <1>4, Zenon
<1>6. won => peak # most
  <2>1. \A a, b, c \in 0..StreamCount : a < b /\ b <= c => a # c  BY SessionAssumption, SMT
  <2>2. seen[s] \in 0..StreamCount  BY <1>4, Zenon
  <2> QED BY <1>4, <1>5, <2>1, <2>2, Zenon
<1> HIDE DEF won
<1>7. \A t \in Streams : IF t = s THEN pc'[t] = v ELSE pc'[t] = pc[t]
  BY <1>1, <1>3, Zenon
<1>8. Inside' = Inside
  <2>1. \A t \in Streams : t \in Inside' <=> t \in Inside  BY <1>1, <1>7, Zenon DEF Inside
  <2>2. Inside' \subseteq Streams /\ Inside \subseteq Streams  BY Zenon DEF Inside
  <2> QED BY <2>1, <2>2, Zenon
<1>9. 0 \in 0..StreamCount  BY SessionAssumption, SMT
<1>10. /\ seen' \in [Streams -> 0..StreamCount]
       /\ \A t \in Streams \ {s} : seen'[t] = seen[t]
  BY <1>1, <1>4, <1>9, Zenon
<1>11. /\ current' \in [Streams -> 0..StreamCount] /\ (~won => current'[s] = current[s])
       /\ \A t \in Streams \ {s} : current'[t] = current[t]
  <2>1. CASE won  BY <1>1, <1>4, <1>9, <2>1, Zenon
  <2>2. CASE ~won  BY <1>1, <1>4, <2>2, Zenon
  <2> QED BY <2>1, <2>2, Zenon
<1>12. peak' \in 0..StreamCount /\ peak' <= most'
  BY <1>1, <1>3, <1>4, <1>5, Zenon
<1>13. \A t \in Streams : pc'[t] \in {"load", "swap"} => current'[t] <= most'
  <2>1. \A t \in Streams \ {s} : pc'[t] \in {"load", "swap"} => current'[t] <= most'
    BY <1>1, <1>4, <1>7, <1>11, Zenon
  <2>2. pc'[s] \in {"load", "swap"} => ~won  BY <1>7, Zenon
  <2>3. ~won => current'[s] <= most'  BY <1>1, <1>5, <1>11, Zenon
  <2> QED BY <2>1, <2>2, <2>3, Zenon
<1>14. \A t \in Streams : pc'[t] = "swap" => seen'[t] < current'[t]
  <2>1. pc'[s] # "swap"  BY <1>7, Zenon
  <2>2. \A t \in Streams \ {s} : pc'[t] = "swap" => seen'[t] < current'[t]
    BY <1>4, <1>7, <1>10, <1>11, ZenonT(30)
  <2> QED BY <2>1, <2>2, Zenon
<1>15. \/ peak' = most'
       \/ \E t \in Streams : pc'[t] \in {"load", "swap"} /\ current'[t] = most'
  <2>1. CASE peak = most  BY <1>1, <1>6, <2>1, ZenonT(30)
  <2>2. CASE \E t \in Streams : pc[t] \in {"load", "swap"} /\ current[t] = most
    <3>1. PICK t \in Streams : pc[t] \in {"load", "swap"} /\ current[t] = most
      BY <2>2, Zenon
    <3>2. CASE t # s  BY <1>1, <1>7, <1>11, <3>1, <3>2, Zenon
    <3>3. CASE t = s /\ won  BY <1>1, <3>1, <3>3, Zenon
    <3>4. CASE t = s /\ ~won  BY <1>1, <1>7, <1>11, <3>1, <3>4, Zenon
    <3> QED BY <3>2, <3>3, <3>4, Zenon
  <2> QED BY <1>4, <2>1, <2>2, Zenon
<1>16. Maximum'
  BY <1>1, <1>2, <1>4, <1>8, <1>10, <1>11, <1>12, <1>13, <1>14, <1>15, Zenon DEF Maximum
<1>17. v \in Working /\ v \notin {"write", "read"}
  BY Zenon DEF Working
<1>18. s \notin results \/ v \in {"sent", "left"}  BY <1>2, Zenon
<1> HIDE DEF v
<1> QED BY <1>1, <1>2, <1>12, <1>16, <1>17, <1>18, PeakMove, Zenon

(* A worker takes itself off active: the invariant is kept. *)
LEMMA LeaveWork ==
  ASSUME WorkInv, NEW s \in Streams, Leave(s)
  PROVE  WorkInv'
<1>1. /\ UNCHANGED << peak, current, seen, most, main >> /\ UNCHANGED mainVars
      /\ UNCHANGED << index, ops, failure, failed >> /\ main = "collecting"
      /\ pc[s] = "sent" /\ pc' = [pc EXCEPT ![s] = "left"] /\ active' = active - 1
  BY Zenon DEF Leave, mainVars
<1>2. /\ pc \in [Streams -> Working \cup Closing \cup {"absent"}]
      /\ peak \in 0..StreamCount
  BY Zenon DEF WorkInv, MainTypes
<1>3. \A t \in Streams : IF t = s THEN pc'[t] = "left" ELSE pc'[t] = pc[t]
  BY <1>1, <1>2, Zenon
<1>4. active' = Cardinality(Inside')
  <2>1. s \in Inside  BY <1>1, Zenon DEF Inside
  <2>2. \A t \in Streams : t \in Inside' <=> t \in Inside \ {s}
    BY <1>3, Zenon DEF Inside
  <2>3. Inside' \subseteq Streams /\ Inside \ {s} \subseteq Streams  BY Zenon DEF Inside
  <2>4. Inside' = Inside \ {s}  BY <2>2, <2>3, Zenon
  <2>5. active = Cardinality(Inside)  BY <1>1, Zenon DEF WorkInv, Maximum
  <2> QED BY <1>1, <2>1, <2>4, <2>5, Insiders, Zenon
<1>5. \A t \in Streams : /\ (pc'[t] \in {"load", "swap"}) <=> (pc[t] \in {"load", "swap"})
                         /\ (pc'[t] = "swap") <=> (pc[t] = "swap")
  BY <1>1, <1>3, Zenon
<1>6. Maximum'  BY <1>1, <1>4, <1>5, ZenonT(30) DEF WorkInv, Maximum
<1>7. "left" \in Working /\ "left" \notin {"write", "read"}
      /\ (s \notin results \/ "left" \in {"sent", "left"})
  BY Zenon DEF Working
<1> QED BY <1>1, <1>2, <1>6, <1>7, PeakMove, Zenon

-----------------------------------------------------------------------------
(* Every step keeps the part of the goroutines. *)
LEMMA WorkUntouched ==
  ASSUME WorkInv, ReaderStep \/ PeerStep \/ Expire
  PROVE  WorkInv'
<1>1. UNCHANGED << peakVars, mainVars >> /\ UNCHANGED << pc, index, ops, failure, failed >>
  BY Zenon DEF ReaderStep, dispatch, ReadControl, ReadData, PeerStep, Break, ReaderStops,
               Unsolicited, LateHeaders, Expire, workVars
<1> QED BY <1>1, WorkKept, Zenon

(* Every step of main keeps the invariant. *)
LEMMA WorkOfMain ==
  ASSUME WorkInv, openH2Session \/ MainStep
  PROVE  WorkInv'
BY OpenSessionWork, OpenWebSocketWork, ResponseHeadersWork, OpenFailsWork, StartPhaseWork,
   CollectWork, EndPhaseWork, EndCloseWork, ReportWork, Zenon DEF MainStep

(* Every step of a goroutine keeps the invariant. *)
LEMMA WorkOfStream ==
  ASSUME WorkInv, NEW s \in Streams, StreamStep(s)
  PROVE  WorkInv'
<1>1. CASE \/ Enter(s) \/ LoadPeak(s) \/ SwapPeak(s) \/ BeginGroup(s) \/ EndLoop(s)
           \/ Send(s) \/ Leave(s)
  BY <1>1, EnterWork, LoadPeakWork, SwapPeakWork, BeginGroupWork, EndLoopWork, SendWork,
     LeaveWork, Zenon
<1>2. CASE WriteFrame(s) \/ WriteFails(s) \/ TakeFrame(s) \/ TakeEvent(s) \/ ReadFails(s)
  BY <1>2, WriteFrameWork, WriteFailsWork, TakeFrameWork, TakeEventWork, ReadFailsWork, Zenon
<1> QED BY <1>1, <1>2, Zenon DEF StreamStep

(* The invariant holds before the session is opened. *)
LEMMA WorkInit ==
  ASSUME SessionInit
  PROVE  WorkInv
<1>1. 0 \in 0..StreamCount /\ 0 \in 0..MessageCount /\ 0 \in 0..MaxGroups /\ 0 < StreamCount
  BY SessionAssumption, SMT
<1>2. /\ main = "dialing" /\ opened = 0 /\ results = {} /\ err = "none"
      /\ validation = "none" /\ exit = "none" /\ ~failed
      /\ \A s \in Streams : pc[s] = "absent" /\ failure[s] = "none"
  BY Zenon DEF SessionInit
<1>3. MainTypes
  <2>1. /\ pc \in [Streams -> Working \cup Closing \cup {"absent"}]
        /\ index \in [Streams -> 0..MessageCount] /\ ops \in [Streams -> 0..MaxGroups]
        /\ failure \in [Streams -> {"none", "failed", "timeout"}]
    BY <1>1, Zenon DEF SessionInit
  <2>2. active \in 0..StreamCount /\ peak \in 0..StreamCount /\ opened \in 0..StreamCount
    BY <1>1, Zenon DEF SessionInit
  <2>3. phase \in {"preflight", "warmup", "measured"}  BY Zenon DEF SessionInit
  <2> QED BY <1>2, <2>1, <2>2, <2>3, Zenon DEF MainTypes
<1>4. Stages  BY <1>1, <1>2, Zenon DEF Stages
<1>5. Maximum
  <2>1. current \in [Streams -> 0..StreamCount] /\ seen \in [Streams -> 0..StreamCount]
    BY <1>1, Zenon DEF SessionInit
  <2>2. most \in 0..StreamCount /\ active = 0 /\ peak = 0 /\ most = 0
    BY <1>1, Zenon DEF SessionInit
  <2> QED BY <1>2, <2>1, <2>2, Zenon DEF Maximum
<1>6. Reported  BY <1>2, Zenon DEF Reported, Opening
<1> QED BY <1>3, <1>4, <1>5, <1>6, Zenon DEF WorkInv

(* The phases, their atomics and their results are in order in every state. *)
THEOREM WorkersAreSound == SessionSpec => []WorkInv
<1>1. SessionInit => WorkInv  BY WorkInit
<1>2. WorkInv /\ [SessionNext]_sessionVars => WorkInv'
  <2> SUFFICES ASSUME WorkInv, [SessionNext]_sessionVars PROVE WorkInv'  BY Zenon
  <2>1. CASE SessionNext  BY <2>1, WorkUntouched, WorkOfMain, WorkOfStream, Zenon DEF SessionNext
  <2>2. CASE UNCHANGED sessionVars
    <3>1. UNCHANGED << peakVars, mainVars >> /\ UNCHANGED << pc, index, ops, failure, failed >>
      BY <2>2, Zenon DEF sessionVars, workVars
    <3> QED BY <3>1, WorkKept, Zenon
  <2> QED BY <2>1, <2>2, Zenon
<1> QED BY <1>1, <1>2, PTL DEF SessionSpec

-----------------------------------------------------------------------------
(* The invariant contains the type invariant. *)
LEMMA TypesHold == SessionInv => SessionTypeOK
<1>1. Working \cup Closing \cup {"absent"} =
        {"absent", "enter", "load", "swap", "loop", "write", "read",
         "send", "sent", "left", "closeWrite", "closeRead", "closed"}
  BY Zenon DEF Working, Closing
<1>2. Channels => \A s \in Streams : pending[s] \in Seq(Units)
  BY Zenon DEF Channels
<1>3. LinkTypes /\ MainTypes /\ Channels => SessionTypeOK
  BY <1>1, <1>2, Zenon DEF SessionTypeOK, LinkTypes, MainTypes, Cells
<1> QED BY <1>3, Zenon DEF SessionInv, StreamInv, LinkInv, WorkInv

(* The inductive invariant holds: its two parts together. *)
LEMMA SessionInvariant == SessionSpec => []SessionInv
BY WorkersAreSound, StreamsAreSound, PTL DEF SessionInv

(* SessionReportIsTrue holds for every number of streams, messages, groups  *)
(* and faults, every window and channel capacity, and whatever the peer     *)
(* sends: no goroutine's error is lost between its result, the join and     *)
(* the exit code, and the peak that a phase compares with the number of     *)
(* streams is the largest number of workers that were ever active at once,  *)
(* although it is stored by competing compare-and-swap loops.               *)
THEOREM SessionReportsAreTrue == SessionSpec => []SessionReportIsTrue
<1>1. SessionInv => SessionReportIsTrue
  <2> SUFFICES ASSUME SessionInv PROVE SessionReportIsTrue  BY Zenon
  <2>1. SessionTypeOK /\ Stages /\ Maximum /\ Reported
    BY TypesHold, Zenon DEF SessionInv, StreamInv, WorkInv
  <2>2. FailureIsNotMasked
    <3>1. failed /\ main = "returned" => err # "none"  BY <2>1, Zenon DEF Reported
    <3>2. exit = "0" \/ validation = "passed" => err = "none" /\ main = "returned"
      BY <2>1, Zenon DEF Reported
    <3> QED BY <3>1, <3>2, Zenon DEF FailureIsNotMasked
  <2>3. PeakIsExact
    <3> SUFFICES ASSUME main = "collecting", results = Streams PROVE peak = most
      BY Zenon DEF PeakIsExact
    <3>1. \A s \in Streams : pc[s] \in {"sent", "left"}  BY <2>1, Zenon DEF Stages
    <3>2. \A s \in Streams : pc[s] \notin {"load", "swap"}  BY <3>1, Zenon
    <3> QED BY <2>1, <3>2, Zenon DEF Maximum
  <2> QED BY <2>1, <2>2, <2>3, Zenon DEF SessionReportIsTrue
<1> QED BY <1>1, SessionInvariant, PTL

(* PassedIsOneToOne holds: when the validation passed, every stream has     *)
(* seen exactly one answer for each message and the peer's close, although  *)
(* the reader cuts the bytes of the streams into events of any size and a   *)
(* peer may send frames nobody asked for.                                   *)
THEOREM SessionPassIsOneToOne == SessionSpec => []PassedIsOneToOne
<1>1. SessionInv => PassedIsOneToOne
  <2> SUFFICES ASSUME SessionInv, validation = "passed", NEW s \in Streams
               PROVE  surplus[s] = 0 /\ s \in peerClosed
    BY Zenon DEF PassedIsOneToOne
  <2>1. Stages /\ Reported /\ StreamAt(s)  BY Zenon DEF SessionInv, StreamInv, WorkInv
  <2>2. err = "none" /\ main = "returned"  BY <2>1, Zenon DEF Reported
  <2>3. opened = StreamCount /\ pc[s] = "closed" /\ failure[s] = "none"
    BY <2>1, <2>2, Zenon DEF Stages
  <2>4. s <= opened  BY <2>3, SessionAssumption, SMT DEF Streams
  <2> QED BY <2>1, <2>3, <2>4, Zenon DEF StreamAt, Matched
<1> QED BY <1>1, SessionInvariant, PTL

=============================================================================
