-------------------------- MODULE HttpAndTlsProofs --------------------------
(***************************************************************************)
(* Proofs about the processes of the HTTP executors (H2Executor,           *)
(* Http1Executor) and of the TLS executors (TlsSession). They share no     *)
(* state and no lemma.                                                     *)
(***************************************************************************)
EXTENDS H2Executor, Http1Executor, TlsSession, TLAPS

-----------------------------------------------------------------------------
(***************************************************************************)
(* Proofs about the processes of the HTTP executors. H2Executor, for every *)
(* set of scenarios and every number of runs over one output directory:    *)
(* the artifacts stay in order and the envelope and exit code 0 are        *)
(* earned, whenever the process is killed and whichever write fails.       *)
(* Http1Executor, for every number of requests in oha's report: the result *)
(* file and exit code 0 are earned.                                        *)
(***************************************************************************)

(* The order of the artifacts. *)

Names == {"validation.json", "result.json", "protocol-proof.json",
          "executor-identity.json", "http2-load-summary.json", "http2-topology.json",
          "load-generator-identity.json", "http-executor-result.json"}

(* How many artifacts a run that stands at stage s has completed. *)
Done(s) ==
  IF s = "result.json" THEN 1
  ELSE IF s = "protocol-proof.json" THEN 2
  ELSE IF s = "executor-identity.json" THEN 3
  ELSE IF s \in {"verdict", "warmup", Warmup, "warmed", "measured",
                 "http2-load-summary.json"} THEN 4
  ELSE IF s \in {"accept", "http2-topology.json"} THEN 5
  ELSE IF s = "load-generator-identity.json" THEN 6
  ELSE IF s = Envelope THEN 7
  ELSE IF s = "stdout" THEN 8 ELSE 0

(* The stages main reaches only behind a passed gate, and those behind an   *)
(* accepted measurement.                                                    *)
Gated == {"warmup", Warmup, "warmed", "measured", "http2-load-summary.json", "accept",
          "http2-topology.json", "load-generator-identity.json", Envelope, "stdout"}
Accepted == {"http2-topology.json", "load-generator-identity.json", Envelope, "stdout"}

(* An artifact is never of a run to come; a write is under way only where   *)
(* main writes a file.                                                      *)
NotAhead == \A f \in Files : disk[f].run <= run
WritesFile == writing => stage \in Files

(* What a living run has put on disk: the artifacts it has passed are whole *)
(* and its own, the one it is writing is its own, all others are older.     *)
Progressed ==
  stage # "exited" =>
    \A i \in 1..8 :
      /\ i <= Done(stage) => Whole(Evidence[i])
      /\ writing /\ stage = Evidence[i] => Of(Evidence[i])
      /\ i > Done(stage) /\ ~(writing /\ stage = Evidence[i])
           => disk[Evidence[i]].run < run

(* What a living run knows: its gate and measurement passed where main has  *)
(* looked at them, and its validation artifacts say what the gate found.    *)
Knows ==
  stage # "exited" =>
    /\ run > 0 /\ exitCode = "none" /\ stdout = "empty"
    /\ stage \in Gated => summarizeChecks.passed /\ ~env.validationOnly
    /\ stage \in Accepted => measuredAccepted
    /\ \A i \in 1..4 : i <= Done(stage) \/ (writing /\ stage = Evidence[i])
         => disk[Evidence[i]].passed = summarizeChecks.passed

(* The three properties with the lengths of the sequences in numbers. *)
Ordered8 ==
  \A i, j \in 1..8 : i < j =>
    /\ disk[Evidence[j]].run <= disk[Evidence[i]].run
    /\ disk[Evidence[j]].run = disk[Evidence[i]].run /\ disk[Evidence[j]].run > 0
         => disk[Evidence[i]].whole

Earned8 ==
  (run > 0 /\ Of(Evidence[8])) \/ stdout # "empty" =>
    /\ summarizeChecks.passed /\ measuredAccepted
    /\ \A i \in 1..7 : Whole(Evidence[i])
    /\ \A i \in 1..4 : disk[Evidence[i]].passed

Success8 ==
  exitCode = "0" =>
    /\ stage = "exited"
    /\ \A i \in 1..4 : Whole(Evidence[i]) /\ disk[Evidence[i]].passed
    /\ IF env.validationOnly
         THEN stdout = "empty" /\ \A i \in 5..8 : ~Of(Evidence[i])
         ELSE stdout = "whole" /\ \A i \in 5..8 : Whole(Evidence[i])

(* The inductive invariant. *)
ExecutorInv ==
  /\ ExecutorTypeOK /\ NotAhead /\ WritesFile /\ Progressed /\ Knows
  /\ Ordered8 /\ Earned8 /\ Success8

(* A step that ends the process, and one that takes main on without a write.*)
Ends ==
  /\ stage # "exited" /\ stage' = "exited" /\ writing' = FALSE
  /\ UNCHANGED << run, env, disk, dialled, checks, measured >>
  /\ \/ exitCode' # "0" /\ (UNCHANGED stdout \/ stage = "stdout")
     \/ /\ exitCode' = "0" /\ UNCHANGED stdout
        /\ stage = "verdict" /\ summarizeChecks.passed /\ env.validationOnly
     \/ exitCode' = "0" /\ stdout' = "whole" /\ stage = "stdout"

Continues ==
  /\ stage # "exited" /\ stage' # "exited" /\ writing' = FALSE
  /\ UNCHANGED << run, env, disk, stdout, exitCode >>
  /\ stage \notin Names /\ Done(stage') = Done(stage)
  /\ UNCHANGED << dialled, checks >> \/ (Done(stage) = 0 /\ stage' \notin Gated)
  /\ UNCHANGED measured \/ (Done(stage) = 4 /\ stage' \notin Accepted)
  /\ stage' \in Gated => stage \in Gated \/ (summarizeChecks.passed /\ ~env.validationOnly)
  /\ stage' \in Accepted => measuredAccepted

-----------------------------------------------------------------------------
(* What the sequence of artifacts holds. *)
LEMMA EvidenceValues ==
  /\ Len(Evidence) = 8 /\ Len(ValidationFiles) = 4 /\ Len(LoadFiles) = 4
  /\ DOMAIN Evidence = 1..8
  /\ \A i \in 1..4 : ValidationFiles[i] = Evidence[i] /\ LoadFiles[i] = Evidence[i + 4]
<1>1. ValidationFiles \in Seq(Names) /\ Len(ValidationFiles) = 4
  BY DEF ValidationFiles, Names
<1>2. LoadFiles \in Seq(Names) /\ Len(LoadFiles) = 4
  BY DEF LoadFiles, Names
<1>3. /\ Evidence \in Seq(Names) /\ Len(Evidence) = Len(ValidationFiles) + Len(LoadFiles)
      /\ \A i \in 1 .. Len(ValidationFiles) + Len(LoadFiles) :
           Evidence[i] = IF i <= Len(ValidationFiles) THEN ValidationFiles[i]
                         ELSE LoadFiles[i - Len(ValidationFiles)]
  <2>1. ASSUME NEW S, NEW a \in Seq(S), NEW b \in Seq(S)
        PROVE  /\ a \o b \in Seq(S) /\ Len(a \o b) = Len(a) + Len(b)
               /\ \A i \in 1 .. Len(a) + Len(b) :
                    (a \o b)[i] = IF i <= Len(a) THEN a[i] ELSE b[i - Len(a)]
    OBVIOUS
  <2>2. QED
    BY <1>1, <1>2, <2>1, Zenon DEF Evidence
<1>4. QED
  BY <1>1, <1>2, <1>3

(* The artifacts by name, in the order in which they are written. *)
LEMMA EvidenceNames ==
  /\ Evidence[1] = "validation.json" /\ Evidence[2] = "result.json"
  /\ Evidence[3] = "protocol-proof.json" /\ Evidence[4] = "executor-identity.json"
  /\ Evidence[5] = "http2-load-summary.json" /\ Evidence[6] = "http2-topology.json"
  /\ Evidence[7] = "load-generator-identity.json" /\ Evidence[8] = Envelope
<1>1. /\ ValidationFiles[1] = "validation.json" /\ ValidationFiles[2] = "result.json"
      /\ ValidationFiles[3] = "protocol-proof.json"
      /\ ValidationFiles[4] = "executor-identity.json"
  BY Zenon DEF ValidationFiles
<1>2. /\ LoadFiles[1] = "http2-load-summary.json" /\ LoadFiles[2] = "http2-topology.json"
      /\ LoadFiles[3] = "load-generator-identity.json" /\ LoadFiles[4] = Envelope
  BY Zenon DEF LoadFiles, Envelope
<1>3. /\ ValidationFiles[1] = Evidence[1] /\ ValidationFiles[2] = Evidence[2]
      /\ ValidationFiles[3] = Evidence[3] /\ ValidationFiles[4] = Evidence[4]
  BY EvidenceValues
<1>4. /\ LoadFiles[1] = Evidence[5] /\ LoadFiles[2] = Evidence[6]
      /\ LoadFiles[3] = Evidence[7] /\ LoadFiles[4] = Evidence[8]
  BY EvidenceValues
<1>5. QED
  BY <1>1, <1>2, <1>3, <1>4, Zenon

(* The files are the eight artifacts and the warm-up's summary. *)
LEMMA FilesValues ==
  /\ Files = Names \cup {Warmup}
  /\ \A f \in Files : f = Warmup \/ \E k \in 1..8 : f = Evidence[k]
  /\ \A k \in 1..8 : Evidence[k] \in Files
<1>1. \A k \in 1..8 : Evidence[k] \in Names
  BY EvidenceNames DEF Names, Envelope
<1>2. \A f \in Names : \E k \in 1..8 : f = Evidence[k]
  BY EvidenceNames DEF Names, Envelope
<1>3. QED
  BY <1>1, <1>2, EvidenceValues DEF Files

(* No artifact is written twice by a run, and writing the k-th one is what  *)
(* takes the run from k - 1 artifacts to k.                                 *)
LEMMA Order ==
  ASSUME NEW k \in 1..8
  PROVE  /\ Done(Evidence[k]) = k - 1 /\ Done(After(Evidence[k])) = k
         /\ Evidence[k] \notin {Warmup, "exited", "arguments", "dial", "check", "verdict",
                               "warmup", "warmed", "measured", "accept", "stdout"}
         /\ After(Evidence[k]) \in Stages \ {"exited"}
         /\ \A i \in 1..8 : Evidence[i] = Evidence[k] => i = k
         /\ After(Evidence[k]) \in Gated => Evidence[k] \in Gated
         /\ After(Evidence[k]) \in Accepted => Evidence[k] \in Accepted
<1>0. \/ k = 1 \/ k = 2 \/ k = 3 \/ k = 4 \/ k = 5 \/ k = 6 \/ k = 7 \/ k = 8
  OBVIOUS
<1> USE EvidenceNames, FilesValues DEF Done, After, Warmup, Envelope, Stages, Names,
                                            Gated, Accepted
<1>1. CASE k = 1 BY <1>1
<1>2. CASE k = 2 BY <1>2
<1>3. CASE k = 3 BY <1>3
<1>4. CASE k = 4 BY <1>4
<1>5. CASE k = 5 BY <1>5
<1>6. CASE k = 6 BY <1>6
<1>7. CASE k = 7 BY <1>7
<1>8. CASE k = 8 BY <1>8
<1> HIDE EvidenceNames, FilesValues DEF Done, After, Warmup, Envelope, Stages, Names,
                                        Gated, Accepted
<1>9. QED BY <1>0, <1>1, <1>2, <1>3, <1>4, <1>5, <1>6, <1>7, <1>8, Zenon

-----------------------------------------------------------------------------
(* Where main stands: the stages, by name. *)
LEMMA StageValues ==
  /\ Stages = Names \cup {Warmup, "arguments", "dial", "check", "verdict", "warmup",
                         "warmed", "measured", "accept", "stdout", "exited"}
  /\ \A f \in Files : After(f) \in Stages \ {"exited"}
<1>1. After(Warmup) = "warmed"
  BY Zenon DEF After, Warmup, Envelope
<1>2. QED
  BY <1>1, FilesValues, Order, Zenon DEF Stages

(* The gate's verdict is a Boolean. *)
LEMMA SummaryType == summarizeChecks.passed \in BOOLEAN
BY Zenon DEF summarizeChecks

(* Every step of the process keeps the types. *)
LEMMA TypeStep == ExecutorTypeOK /\ [ExecutorNext]_execVars => ExecutorTypeOK'
<1> SUFFICES ASSUME ExecutorTypeOK, [ExecutorNext]_execVars PROVE ExecutorTypeOK'
  BY Zenon
<1> USE DEF ExecutorTypeOK
<1>v. Names \subseteq Stages /\ Warmup \in Stages
      /\ {"arguments", "dial", "check", "verdict", "warmup", "warmed", "measured",
          "accept", "stdout", "exited"} \subseteq Stages
      /\ ValidationFiles[1] \in Stages
  BY StageValues, EvidenceValues, EvidenceNames DEF Names
<1>1. CASE Launch
  <2>1. run' \in 0..MaxRuns
    <3>1. MaxRuns \in Nat /\ run \in 0..MaxRuns /\ run < MaxRuns /\ run' = run + 1
      BY Zenon, <1>1, ExecutorAssumption DEF Launch
    <3> HIDE DEF ExecutorTypeOK
    <3>2. QED
      BY ONLY <3>1
  <2>2. measured' \in Summary
    BY <1>1 DEF Launch, NoSummary, Summary
  <2>3. DOMAIN checks' = {}
    BY <1>1 DEF Launch
  <2>4. QED
    BY Zenon, <1>1, <1>v, <2>1, <2>2, <2>3 DEF Launch
<1>2. CASE Arguments
  BY <1>2, <1>v, Zenon DEF Arguments, Exit, Goto
<1>3. CASE Dial
  <2>1. CASE UNCHANGED checks
    BY ZenonT(30), <1>3, <1>v, <2>1 DEF Dial, Exit, Goto
  <2>2. CASE \E timedOut \in BOOLEAN :
               /\ checks' = [s \in selectedExpectations |-> failedDialCheck(timedOut)]
               /\ Goto(ValidationFiles[1]) /\ UNCHANGED dialled
    <3>1. selectedExpectations \subseteq Scenarios
      BY Zenon DEF selectedExpectations
    <3>2. \A timedOut \in BOOLEAN : failedDialCheck(timedOut) \in CheckResult
      BY Zenon DEF failedDialCheck, CheckResult
    <3>3. DOMAIN checks' \subseteq Scenarios
          /\ \A s \in DOMAIN checks' : checks'[s] \in CheckResult
      BY <2>2, <3>1, <3>2, Zenon
    <3>4. QED
      BY <1>3, <1>v, <2>2, <3>3, Zenon DEF Dial, Goto
  <2>3. QED
    BY <1>3, <2>1, <2>2, Zenon DEF Dial
<1>4. CASE Verdict
  BY <1>4, <1>v, Zenon DEF Verdict, Exit, Goto
<1>5. CASE Warmed
  BY <1>5, <1>v, Zenon DEF Warmed, Exit, Goto
<1>6. CASE Accept
  BY <1>6, <1>v, Zenon DEF Accept, Exit, Goto, Names
<1>7. CASE Stdout
  BY <1>7, <1>v, Zenon DEF Stdout, Exit, Goto
<1>8. CASE Kill
  BY Zenon, <1>8, <1>v DEF Kill, Exit
<1>9. ASSUME NEW s \in Scenarios, NEW r \in Responses, Check(s, r) PROVE ExecutorTypeOK'
  <2>1. runCheck(r) \in CheckResult
    BY Zenon DEF runCheck, CheckResult, Responses
  <2>2. DOMAIN checks' \subseteq Scenarios
        /\ \A t \in DOMAIN checks' : checks'[t] \in CheckResult
    BY <1>9, <2>1, Zenon DEF Check
  <2>3. QED
    BY <1>9, <1>v, <2>2, Zenon DEF Check, Goto
<1>10. ASSUME NEW f \in Files, Truncate(f) PROVE ExecutorTypeOK'
  <2>1. [run |-> run, whole |-> FALSE, passed |-> summarizeChecks.passed]
          \in [run : 0..MaxRuns, whole : BOOLEAN, passed : BOOLEAN]
    BY SummaryType, Zenon
  <2>2. QED
    BY <1>10, <2>1, Zenon DEF Truncate
<1>11. ASSUME NEW f \in Files, Written(f) PROVE ExecutorTypeOK'
  BY Zenon, <1>11, StageValues DEF Written, Goto
<1>12. ASSUME NEW f \in Files, WriteFailed(f) PROVE ExecutorTypeOK'
  BY Zenon, <1>12, <1>v, StageValues DEF WriteFailed, Exit, Goto
<1>13. ASSUME NEW s \in PhaseResults, WarmupPhase(s) PROVE ExecutorTypeOK'
  BY <1>13, <1>v DEF WarmupPhase, Goto, PhaseResults, Summary
<1>14. ASSUME NEW s \in PhaseResults, MeasuredPhase(s) PROVE ExecutorTypeOK'
  BY <1>14, <1>v, Zenon DEF MeasuredPhase, Goto, PhaseResults, Names
<1>15. CASE UNCHANGED execVars
  BY <1>15, Zenon DEF execVars
<1>16. QED
  BY <1>1, <1>2, <1>3, <1>4, <1>5, <1>6, <1>7, <1>8, <1>9, <1>10, <1>11, <1>12, <1>13,
     <1>14, <1>15, Zenon DEF ExecutorNext

(* Every step starts the process, begins or completes a write, ends the     *)
(* process or takes it on.                                                  *)
LEMMA StepKinds ==
  ASSUME ExecutorTypeOK, WritesFile, ExecutorNext
  PROVE  \/ Launch \/ Ends \/ Continues
         \/ \E f \in Files : Truncate(f) \/ Written(f)
<1>w. stage \notin Names \cup {Warmup} => writing = FALSE
  BY FilesValues, Zenon DEF ExecutorTypeOK, WritesFile
<1>v. ValidationFiles[1] = "validation.json"
  BY EvidenceValues, EvidenceNames
<1>2. CASE Arguments
  <2>1. CASE Exit("1") \/ Exit("2")
    BY <1>2, <1>w, <2>1, Zenon DEF Arguments, Exit, Ends, Names, Warmup
  <2>2. CASE Goto("dial")
    BY <1>2, <1>w, <2>2, Zenon DEF Arguments, Goto, Continues, Names, Warmup, Done, Envelope,
                            Gated, Accepted
  <2>3. QED
    BY <1>2, <2>1, <2>2, Zenon DEF Arguments
<1>3. CASE Dial
  BY <1>3, <1>w, <1>v, Zenon DEF Dial, Goto, Continues, Names, Warmup, Done, Envelope, Gated,
                          Accepted
<1>4. CASE Verdict
  <2>1. CASE stage' = "exited"
    BY <1>4, <1>w, <2>1, Zenon DEF Verdict, Exit, Goto, Ends, Names, Warmup
  <2>2. CASE stage' # "exited"
    BY <1>4, <1>w, <2>2, Zenon DEF Verdict, Exit, Goto, Continues, Names, Warmup, Done, Envelope,
                            Gated, Accepted
  <2>3. QED
    BY <2>1, <2>2, Zenon
<1>5. CASE Warmed
  <2>1. CASE stage' = "exited"
    BY <1>5, <1>w, <2>1, Zenon DEF Warmed, Exit, Goto, Ends, Names, Warmup
  <2>2. CASE stage' # "exited"
    BY <1>5, <1>w, <2>2, Zenon DEF Warmed, Exit, Goto, Continues, Names, Warmup, Done, Envelope,
                            Gated, Accepted
  <2>3. QED
    BY <2>1, <2>2, Zenon
<1>6. CASE Accept
  <2>1. CASE stage' = "exited"
    BY <1>6, <1>w, <2>1, Zenon DEF Accept, Exit, Goto, Ends, Names, Warmup
  <2>2. CASE stage' # "exited"
    BY <1>6, <1>w, <2>2, Zenon DEF Accept, Exit, Goto, Continues, Names, Warmup, Done, Envelope,
                            Gated, Accepted
  <2>3. QED
    BY <2>1, <2>2, Zenon
<1>7. CASE Stdout
  BY <1>7, <1>w, Zenon DEF Stdout, Exit, Ends, Names, Warmup
<1>8. CASE Kill
  BY <1>8, Zenon DEF Kill, Exit, Ends
<1>9. ASSUME NEW s \in Scenarios, NEW r \in Responses, Check(s, r) PROVE Continues
  BY <1>9, <1>w, <1>v, Zenon DEF Check, Goto, Continues, Names, Warmup, Done, Envelope, Gated,
                          Accepted
<1>12. ASSUME NEW f \in Files, WriteFailed(f) PROVE Ends \/ Continues
  <2>1. CASE f = Warmup
    <3>1. After(Warmup) = "warmed"
      BY Zenon DEF After, Warmup, Envelope
    <3>2. QED
      BY <1>12, <2>1, <3>1, Zenon DEF WriteFailed, Goto, Continues, Names, Warmup, Done, Envelope,
                               Gated, Accepted
  <2>2. CASE f # Warmup
    BY <1>12, <2>2, FilesValues, Zenon DEF WriteFailed, Exit, Ends, Names
  <2>3. QED
    BY <2>1, <2>2, Zenon
<1>13. ASSUME NEW s \in PhaseResults, WarmupPhase(s) PROVE Continues
  BY <1>13, <1>w, Zenon DEF WarmupPhase, Goto, Continues, Names, Warmup, Done, Envelope, Gated,
                     Accepted
<1>14. ASSUME NEW s \in PhaseResults, MeasuredPhase(s) PROVE Continues
  BY <1>14, <1>w, Zenon DEF MeasuredPhase, Goto, Continues, Names, Warmup, Done, Envelope, Gated,
                     Accepted
<1>16. QED
  BY <1>2, <1>3, <1>4, <1>5, <1>6, <1>7, <1>8, <1>9, <1>12, <1>13, <1>14, Zenon DEF ExecutorNext

-----------------------------------------------------------------------------
(* The properties are what the invariant says in numbers. *)
LEMMA OrderedIn8 == Ordered8 => EvidenceIsOrdered
BY EvidenceValues, Zenon DEF EvidenceIsOrdered, Ordered8

(* The same of the envelope. *)
LEMMA EarnedIn8 == Earned8 => EnvelopeIsEarned
<1>1. /\ 1..(Len(Evidence) - 1) = 1..7 /\ 1..Len(ValidationFiles) = 1..4
      /\ Envelope = Evidence[8]
  BY EvidenceValues, EvidenceNames
<1>2. (\A i \in 1..4 : disk[ValidationFiles[i]].passed)
        <=> \A i \in 1..4 : disk[Evidence[i]].passed
  BY EvidenceValues, Zenon
<1>3. QED
  BY Zenon, <1>1, <1>2 DEF EnvelopeIsEarned, Earned8

(* The same of exit code 0. *)
LEMMA SuccessIn8 == Success8 => SuccessIsComplete
<1>1. 1..Len(ValidationFiles) = 1..4 /\ 1..Len(LoadFiles) = 1..4
  BY EvidenceValues, Zenon
<1>2. \A i \in 1..4 : ValidationFiles[i] = Evidence[i]
  BY EvidenceValues, Zenon
<1>3. \A i \in 1..4 : i + 4 \in 5..8 /\ LoadFiles[i] = Evidence[i + 4]
  BY EvidenceValues
<1>4. QED
  BY Zenon, <1>1, <1>2, <1>3 DEF SuccessIsComplete, Success8

(* What a run reads off its own checks and measurement stays as it is while *)
(* those do.                                                                *)
LEMMA SummaryKept == UNCHANGED << dialled, checks >> => summarizeChecks' = summarizeChecks
BY DEF summarizeChecks

(* The same of the measurement. *)
LEMMA AcceptedKept == UNCHANGED measured => measuredAccepted' = measuredAccepted
BY Zenon DEF measuredAccepted

(* A new run finds only older artifacts. *)
LEMMA LaunchInv ==
  ASSUME ExecutorInv, ExecutorTypeOK', Launch
  PROVE  ExecutorInv'
<1>1. run \in Nat /\ run' = run + 1 /\ disk' = disk
  BY DEF Launch, ExecutorInv, ExecutorTypeOK
<1>2. \A f \in Files : disk[f].run \in Nat /\ disk[f].run <= run
  BY DEF ExecutorInv, ExecutorTypeOK, NotAhead
<1>3. \A f \in Files : disk'[f].run < run'
  BY <1>1, <1>2
<1>4. \A i \in 1..8 : disk'[Evidence[i]].run < run' /\ disk'[Evidence[i]].run \in Nat
  BY <1>1, <1>2, <1>3, FilesValues, Zenon
<1>5. /\ stage' = "arguments" /\ Done(stage') = 0 /\ stage' \notin Gated
      /\ stage' \notin Accepted
  BY Zenon DEF Launch, Done, Gated, Accepted, Warmup, Envelope
<1>6. NotAhead' /\ WritesFile'
  BY <1>1, <1>2 DEF NotAhead, WritesFile, Launch
<1>7. Progressed'
  <2>1. writing' = FALSE
    BY Zenon DEF Launch
  <2>2. \A i \in 1..8 : ~(i <= 0)
    BY ONLY SMT
  <2>3. \A i \in 1..8 : ~(i <= Done(stage'))
    BY Zenon, <1>5, <2>2
  <2>4. QED
    BY Zenon, <1>4, <2>1, <2>3 DEF Progressed
<1>8. Knows'
  BY <1>1, <1>5 DEF Knows, Launch
<1>9. Ordered8'
  BY <1>1, Zenon DEF ExecutorInv, Ordered8
<1>10. Earned8' /\ Success8'
  BY <1>1, <1>4 DEF Earned8, Success8, Launch, Of
<1>11. QED
  BY <1>6, <1>7, <1>8, <1>9, <1>10, Zenon DEF ExecutorInv

(* A step that only takes main on. *)
LEMMA ContinuesInv ==
  ASSUME ExecutorInv, ExecutorTypeOK', Continues
  PROVE  ExecutorInv'
<1>1. \A i \in 1..8 : stage # Evidence[i]
  BY EvidenceNames DEF Continues, Names, Envelope
<1>2. NotAhead' /\ WritesFile' /\ Ordered8'
  BY Zenon DEF Continues, ExecutorInv, NotAhead, WritesFile, Ordered8
<1>3. Progressed'
  BY <1>1, Zenon DEF Continues, ExecutorInv, Progressed, Whole, Of
<1>4. Knows'
  <2>1. CASE UNCHANGED << dialled, checks >>
    <3>1. summarizeChecks' = summarizeChecks
      BY <2>1, SummaryKept, Zenon
    <3>2. stage' \in Accepted => measuredAccepted'
      BY Zenon, AcceptedKept DEF Continues
    <3>3. QED
      BY <1>1, <3>1, <3>2, Zenon DEF Continues, ExecutorInv, Knows
  <2>2. CASE Done(stage) = 0 /\ stage' \notin Gated
    BY <1>1, <2>2 DEF Continues, ExecutorInv, Knows, Gated, Accepted
  <2>3. QED
    BY <2>1, <2>2, Zenon DEF Continues
<1>5. Earned8' /\ Success8'
  <2>1. exitCode' = "none" /\ stdout' = "empty"
    BY Zenon DEF Continues, ExecutorInv, Knows
  <2>2. CASE Done(stage) = 0 \/ Done(stage) = 4
    <3>1. disk'[Evidence[8]].run < run'
      BY <1>1, <2>2 DEF Continues, ExecutorInv, Progressed
    <3>2. run' \in Nat /\ disk'[Evidence[8]].run \in Nat
      BY FilesValues DEF Continues, ExecutorInv, ExecutorTypeOK
    <3>3. QED
      BY <2>1, <3>1, <3>2 DEF Earned8, Success8, Of
  <2>3. CASE UNCHANGED << dialled, checks, measured >>
    BY <2>1, <2>3, SummaryKept, AcceptedKept, Zenon
       DEF Continues, ExecutorInv, Earned8, Success8, Of, Whole
  <2>4. QED
    BY <2>2, <2>3, Zenon DEF Continues
<1>6. QED
  BY <1>2, <1>3, <1>4, <1>5, Zenon DEF ExecutorInv

(* A run that ends, however it does, leaves what it had. *)
LEMMA EndsInv ==
  ASSUME ExecutorInv, ExecutorTypeOK', Ends
  PROVE  ExecutorInv'
<1>1. NotAhead' /\ WritesFile' /\ Ordered8' /\ Progressed' /\ Knows'
  BY Zenon DEF Ends, ExecutorInv, NotAhead, WritesFile, Ordered8, Progressed, Knows
<1>2. summarizeChecks' = summarizeChecks /\ measuredAccepted' = measuredAccepted
  BY SummaryKept, AcceptedKept, Zenon DEF Ends
<1>3. stage = "stdout" =>
        /\ summarizeChecks.passed /\ measuredAccepted /\ ~env.validationOnly
        /\ \A i \in 1..8 : Whole(Evidence[i])
        /\ \A i \in 1..4 : disk[Evidence[i]].passed
  <2> HAVE stage = "stdout"
  <2>1. Done(stage) = 8 /\ stage \in Gated /\ stage \in Accepted /\ stage # "exited"
    BY Zenon DEF Done, Gated, Accepted, Warmup, Envelope
  <2>2. QED
    BY <2>1 DEF ExecutorInv, Progressed, Knows
<1>4. stage = "verdict" =>
        /\ \A i \in 1..4 : Whole(Evidence[i])
        /\ \A i \in 1..4 : disk[Evidence[i]].passed = summarizeChecks.passed
        /\ \A i \in 5..8 : ~Of(Evidence[i])
        /\ stdout = "empty"
  <2> HAVE stage = "verdict"
  <2>1. Done(stage) = 4 /\ stage # "exited"
    BY Zenon DEF Done, Warmup, Envelope
  <2>2. \A i \in 1..8 : stage # Evidence[i]
    BY Order, Zenon
  <2>3. \A i \in 5..8 : disk[Evidence[i]].run < run /\ disk[Evidence[i]].run \in Nat
    BY <2>1, <2>2, FilesValues DEF ExecutorInv, ExecutorTypeOK, Progressed
  <2>4. run \in Nat
    BY DEF ExecutorInv, ExecutorTypeOK
  <2>5. \A i \in 5..8 : ~Of(Evidence[i])
    BY <2>3, <2>4, SMTT(30) DEF Of
  <2>6. QED
    BY <2>1, <2>5 DEF ExecutorInv, Progressed, Knows
<1>5. Earned8'
  BY <1>2, <1>3, SMTT(30) DEF Ends, ExecutorInv, Earned8, Of, Whole
<1>6. Success8'
  BY <1>3, <1>4 DEF Ends, Success8, Of, Whole
<1>7. QED
  BY <1>1, <1>5, <1>6, Zenon DEF ExecutorInv

(* A write begins: the artifacts before it are whole, those behind it old. *)
LEMMA TruncateInv ==
  ASSUME ExecutorInv, ExecutorTypeOK', NEW f \in Files, Truncate(f)
  PROVE  ExecutorInv'
<1>1. /\ UNCHANGED << run, env, stage, dialled, checks, measured, stdout, exitCode >>
      /\ stage = f /\ stage # "exited" /\ writing = FALSE /\ writing' = TRUE
  BY StageValues, FilesValues, Zenon DEF Truncate, ExecutorInv, ExecutorTypeOK, Names, Warmup
<1>2. summarizeChecks' = summarizeChecks /\ measuredAccepted' = measuredAccepted
  BY <1>1, SummaryKept, AcceptedKept, Zenon
<1>3. /\ disk'[f].run = run /\ disk'[f].passed = summarizeChecks.passed
      /\ \A g \in Files \ {f} : disk'[g] = disk[g]
  BY Zenon DEF Truncate, ExecutorInv, ExecutorTypeOK
<1>t. run \in Nat /\ \A g \in Files : disk[g].run \in Nat /\ disk[g].run <= run
  BY DEF ExecutorInv, ExecutorTypeOK, NotAhead
<1>4. NotAhead' /\ WritesFile'
  BY <1>1, <1>3, <1>t DEF NotAhead, WritesFile
<1>5. stdout' = "empty" /\ exitCode' = "none"
  BY <1>1, Zenon DEF ExecutorInv, Knows
<1>6. Success8'
  BY <1>5, Zenon DEF Success8
<1>7. CASE f = Warmup
  <2>1. \A i \in 1..8 : Evidence[i] \in Files \ {f} /\ stage # Evidence[i]
    BY <1>1, <1>7, Order, FilesValues, Zenon
  <2>2. \A i \in 1..8 : disk'[Evidence[i]] = disk[Evidence[i]]
    BY <1>3, <2>1, Zenon
  <2>3. Progressed'
    BY <1>1, <2>1, <2>2, Zenon DEF ExecutorInv, Progressed, Of, Whole
  <2>4. Knows'
    BY <1>1, <1>2, <2>1, <2>2 DEF ExecutorInv, Knows
  <2>5. Ordered8'
    BY <2>2, ZenonT(30) DEF ExecutorInv, Ordered8
  <2>6. Earned8'
    BY <1>1, <1>2, <2>2 DEF ExecutorInv, Earned8, Of, Whole
  <2>7. QED
    BY <1>4, <1>6, <2>3, <2>4, <2>5, <2>6, Zenon DEF ExecutorInv
<1>8. ASSUME NEW k \in 1..8, f = Evidence[k] PROVE ExecutorInv'
  <2>1. Done(stage) = k - 1 /\ \A i \in 1..8 : Evidence[i] = f <=> i = k
    BY <1>1, <1>8, Order, Zenon
  <2>2. \A i \in 1..8 \ {k} : disk'[Evidence[i]] = disk[Evidence[i]]
    BY <1>3, <2>1, FilesValues, Zenon
  <2>3. \A i \in 1..8 : i < k => Whole(Evidence[i])
    BY <1>1, <2>1 DEF ExecutorInv, Progressed
  <2>4. \A i \in 1..8 : i > k => disk[Evidence[i]].run < run
    BY <1>1, <2>1 DEF ExecutorInv, Progressed
  <2>5. \A i \in 1..8 : disk[Evidence[i]].run \in Nat
    BY <1>t, FilesValues, ZenonT(30)
  <2>6. Progressed'
    BY <1>1, <1>3, <1>8, <2>1, <2>2, <2>3, <2>4, SMTT(30) DEF Progressed, Of, Whole
  <2>7. Knows'
    BY <1>1, <1>2, <1>3, <1>8, <2>1, <2>2 DEF ExecutorInv, Knows
  <2>8. Ordered8'
    <3> SUFFICES ASSUME NEW i \in 1..8, NEW j \in 1..8, i < j
                 PROVE  (/\ disk[Evidence[j]].run <= disk[Evidence[i]].run
                         /\ disk[Evidence[j]].run = disk[Evidence[i]].run
                              /\ disk[Evidence[j]].run > 0 => disk[Evidence[i]].whole)'
      BY Zenon DEF Ordered8
    <3>1. CASE i # k /\ j # k
      BY <2>2, <3>1, Zenon DEF ExecutorInv, Ordered8
    <3>2. CASE j = k
      BY <1>3, <1>8, <1>t, <2>2, <2>3, <3>2 DEF Of, Whole
    <3>3. CASE i = k
      BY <1>3, <1>8, <1>t, <2>2, <2>4, <2>5, <3>3
    <3>4. QED
      BY <3>1, <3>2, <3>3, Zenon
  <2>9. Earned8'
    <3>1. CASE k = 8
      <4>1. stage \in Gated /\ stage \in Accepted
        BY <1>1, <1>8, <3>1, EvidenceNames, Zenon DEF Gated, Accepted
      <4>2. \A i \in 1..4 : disk[Evidence[i]].passed = summarizeChecks.passed
        BY <1>1, <2>1, <3>1 DEF ExecutorInv, Knows
      <4>3. QED
        BY <1>1, <1>2, <2>2, <2>3, <3>1, <4>1, <4>2
           DEF ExecutorInv, Knows, Earned8, Of, Whole
    <3>2. CASE k # 8
      BY <1>1, <1>5, <1>t, <2>2, <2>4, <2>5, <3>2 DEF Earned8, Of
    <3>3. QED
      BY <3>1, <3>2, ZenonT(30)
  <2>10. QED
    BY <1>4, <1>6, <2>6, <2>7, <2>8, <2>9, Zenon DEF ExecutorInv
<1>9. QED
  BY <1>7, <1>8, FilesValues, Zenon

(* A write is completed. *)
LEMMA WrittenInv ==
  ASSUME ExecutorInv, ExecutorTypeOK', NEW f \in Files, Written(f)
  PROVE  ExecutorInv'
<1>1. /\ UNCHANGED << run, env, dialled, checks, measured, stdout, exitCode >>
      /\ stage = f /\ stage # "exited" /\ writing = TRUE /\ writing' = FALSE
      /\ stage' = After(f) /\ stage' # "exited"
  BY StageValues, FilesValues, Zenon DEF Written, Goto, ExecutorInv, ExecutorTypeOK, Names, Warmup
<1>2. summarizeChecks' = summarizeChecks /\ measuredAccepted' = measuredAccepted
  BY <1>1, SummaryKept, AcceptedKept, Zenon
<1>3. /\ disk'[f].run = disk[f].run /\ disk'[f].passed = disk[f].passed /\ disk'[f].whole
      /\ \A g \in Files \ {f} : disk'[g] = disk[g]
  BY Zenon DEF Written, ExecutorInv, ExecutorTypeOK
<1>t. run \in Nat /\ \A g \in Files : disk[g].run \in Nat /\ disk[g].run <= run
  BY DEF ExecutorInv, ExecutorTypeOK, NotAhead
<1>4. NotAhead' /\ WritesFile'
  BY <1>1, <1>3, <1>t, Zenon DEF NotAhead, WritesFile
<1>5. stdout' = "empty" /\ exitCode' = "none" /\ run > 0
  BY <1>1, Zenon DEF ExecutorInv, Knows
<1>6. Success8'
  BY <1>5, Zenon DEF Success8
<1>7. CASE f = Warmup
  <2>1. \A i \in 1..8 : Evidence[i] \in Files \ {f} /\ stage # Evidence[i]
    BY <1>1, <1>7, Order, FilesValues, Zenon
  <2>2. \A i \in 1..8 : disk'[Evidence[i]] = disk[Evidence[i]]
    BY <1>3, <2>1, Zenon
  <2>3. /\ Done(stage) = 4 /\ Done(stage') = 4 /\ stage \in Gated
        /\ stage' \notin Accepted
    BY <1>1, <1>7, Zenon DEF After, Done, Gated, Accepted, Warmup, Envelope
  <2>4. Progressed'
    BY <1>1, <2>1, <2>2, <2>3, Zenon DEF ExecutorInv, Progressed, Of, Whole
  <2>5. Knows'
    BY <1>1, <1>2, <2>1, <2>2, <2>3, SMTT(30) DEF ExecutorInv, Knows
  <2>6. Ordered8'
    BY <2>2, Zenon DEF ExecutorInv, Ordered8
  <2>7. Earned8'
    BY <1>1, <1>2, <2>2 DEF ExecutorInv, Earned8, Of, Whole
  <2>8. QED
    BY <1>4, <1>6, <2>4, <2>5, <2>6, <2>7, Zenon DEF ExecutorInv
<1>8. ASSUME NEW k \in 1..8, f = Evidence[k] PROVE ExecutorInv'
  <2>1. /\ Done(stage) = k - 1 /\ Done(stage') = k
        /\ \A i \in 1..8 : Evidence[i] = f <=> i = k
    BY <1>1, <1>8, Order, Zenon
  <2>2. \A i \in 1..8 \ {k} : disk'[Evidence[i]] = disk[Evidence[i]]
    BY <1>3, <2>1, FilesValues, Zenon
  <2>3. disk[f].run = run /\ \A i \in 1..8 : i < k => Whole(Evidence[i])
    BY <1>1, <1>8, <2>1 DEF ExecutorInv, Progressed, Of
  <2>4. \A i \in 1..8 : i > k => disk[Evidence[i]].run < run
    BY <1>1, <2>1 DEF ExecutorInv, Progressed
  <2>5. \A i \in 1..8 : disk[Evidence[i]].run \in Nat
    BY <1>t, FilesValues, Zenon
  <2>6. Progressed'
    BY SMTT(30), <1>1, <1>3, <1>8, <2>1, <2>2, <2>3, <2>4 DEF Progressed, Of, Whole
  <2>7. Knows'
    <3>1. /\ stage' \in Gated => stage \in Gated
          /\ stage' \in Accepted => stage \in Accepted
      BY SMTT(30), <1>1, <1>8, Order
    <3>2. \A i \in 1..4 : i <= k => disk[Evidence[i]].passed = summarizeChecks.passed
      BY <1>1, <1>8, <2>1 DEF ExecutorInv, Knows
    <3>3. \A i \in 1..4 : disk'[Evidence[i]].passed = disk[Evidence[i]].passed
      BY SMTT(30), <1>3, <1>8, <2>2
    <3>4. QED
      BY <1>1, <1>2, <2>1, <3>1, <3>2, <3>3, Zenon DEF ExecutorInv, Knows
  <2>8. Ordered8'
    <3> SUFFICES ASSUME NEW i \in 1..8, NEW j \in 1..8, i < j
                 PROVE  (/\ disk[Evidence[j]].run <= disk[Evidence[i]].run
                         /\ disk[Evidence[j]].run = disk[Evidence[i]].run
                              /\ disk[Evidence[j]].run > 0 => disk[Evidence[i]].whole)'
      BY Zenon DEF Ordered8
    <3>1. /\ disk[Evidence[j]].run <= disk[Evidence[i]].run
          /\ disk[Evidence[j]].run = disk[Evidence[i]].run /\ disk[Evidence[j]].run > 0
               => disk[Evidence[i]].whole
      BY Zenon DEF ExecutorInv, Ordered8
    <3>2. ASSUME NEW h \in 1..8
          PROVE  /\ disk'[Evidence[h]].run = disk[Evidence[h]].run
                 /\ disk[Evidence[h]].whole => disk'[Evidence[h]].whole
      <4>1. CASE h = k
        BY Zenon, <1>3, <1>8, <4>1
      <4>2. CASE h # k
        <5>1. h \in 1..8 \ {k}
          BY ZenonT(30), <4>2
        <5>2. QED
          BY Zenon, <2>2, <5>1
      <4>3. QED
        BY <4>1, <4>2, Zenon
    <3>3. QED
      BY Zenon, <3>1, <3>2
  <2>9. Earned8'
    <3>1. CASE k = 8
      BY <1>1, <1>2, <1>3, <1>5, <1>8, <2>2, <2>3, <3>1
         DEF ExecutorInv, Earned8, Of, Whole
    <3>2. CASE k # 8
      BY <1>1, <1>5, <1>t, <2>2, <2>4, <2>5, <3>2 DEF Earned8, Of
    <3>3. QED
      BY <3>1, <3>2, Zenon
  <2>10. QED
    BY <1>4, <1>6, <2>6, <2>7, <2>8, <2>9, Zenon DEF ExecutorInv
<1>9. QED
  BY <1>7, <1>8, FilesValues, Zenon

-----------------------------------------------------------------------------
(* An empty directory and no run. *)
LEMMA ExecutorInvInit == ExecutorInit => ExecutorInv
<1> SUFFICES ASSUME ExecutorInit PROVE ExecutorInv
  BY Zenon
<1>0. /\ run = 0 /\ stage = "exited" /\ writing = FALSE /\ dialled = FALSE
      /\ warmupErr = FALSE /\ load = "none" /\ stdout = "empty" /\ exitCode = "none"
      /\ measured = NoSummary /\ env \in Environment
      /\ disk = [f \in Files |-> NoFile]
  BY Zenon DEF ExecutorInit
<1>c. DOMAIN checks = {}
  <2>1. checks = << >>
    BY Zenon DEF ExecutorInit
  <2>2. QED
    BY ONLY <2>1
<1>n. MaxRuns \in Nat /\ 0 \in 0..MaxRuns
  <2>1. MaxRuns \in Nat
    BY Zenon, ExecutorAssumption
  <2>2. QED
    BY ONLY <2>1
<1>1. ExecutorTypeOK
  <2>1. NoFile \in [run : 0..MaxRuns, whole : BOOLEAN, passed : BOOLEAN]
    BY <1>n, Zenon DEF NoFile
  <2>2. NoSummary \in Summary
    BY DEF NoSummary, Summary
  <2>3. "exited" \in Stages
    BY Zenon DEF Stages
  <2>4. disk \in [Files -> [run : 0..MaxRuns, whole : BOOLEAN, passed : BOOLEAN]]
    BY <1>0, <2>1, Zenon
  <2>5. QED
    BY Zenon, <1>0, <1>n, <1>c, <2>2, <2>3, <2>4 DEF ExecutorTypeOK
<1>2. \A f \in Files : disk[f].run = 0
  BY <1>0, Zenon DEF NoFile
<1>3. NotAhead /\ WritesFile /\ Progressed /\ Knows
  BY <1>0, <1>2 DEF NotAhead, WritesFile, Progressed, Knows
<1>4. \A i \in 1..8 : disk[Evidence[i]].run = 0
  BY <1>2, FilesValues, Zenon
<1>5. Ordered8
  BY <1>4 DEF Ordered8
<1>6. Earned8 /\ Success8
  BY <1>0 DEF Earned8, Success8
<1>7. QED
  BY <1>1, <1>3, <1>5, <1>6, Zenon DEF ExecutorInv

(* Every step of main, of the runner and of a write keeps the invariant. *)
LEMMA ExecutorInvStep == ExecutorInv /\ [ExecutorNext]_execVars => ExecutorInv'
<1> SUFFICES ASSUME ExecutorInv, [ExecutorNext]_execVars PROVE ExecutorInv'
  BY Zenon
<1>1. ExecutorTypeOK'
  BY TypeStep, Zenon DEF ExecutorInv
<1>2. CASE ExecutorNext
  BY <1>1, <1>2, StepKinds, LaunchInv, EndsInv, ContinuesInv, TruncateInv, WrittenInv, Zenon
     DEF ExecutorInv
<1>3. CASE UNCHANGED execVars
  <2>1. summarizeChecks' = summarizeChecks /\ measuredAccepted' = measuredAccepted
    BY <1>3, SummaryKept, AcceptedKept, Zenon DEF execVars
  <2>2. QED
    BY Zenon, <1>1, <1>3, <2>1 DEF execVars, ExecutorInv, NotAhead, WritesFile, Progressed, Knows,
                            Ordered8, Earned8, Success8, Of, Whole
<1>4. QED
  BY <1>2, <1>3, Zenon

(* The inductive invariant holds in every behaviour of the executor. *)
THEOREM ExecutorInvariant == ExecutorSpec => []ExecutorInv
BY ExecutorInvInit, ExecutorInvStep, PTL DEF ExecutorSpec

(* For every number of runs over one directory, killed anywhere and with    *)
(* any write failing, no artifact is from a later run than one written      *)
(* before it, and only the last one of a run may be incomplete.             *)
THEOREM ArtifactsStayOrdered == ExecutorSpec => []EvidenceIsOrdered
<1>1. ExecutorInv => EvidenceIsOrdered
  BY OrderedIn8, Zenon DEF ExecutorInv
<1>2. QED
  BY <1>1, ExecutorInvariant, PTL

(* An envelope, on disk or on standard output, and exit code 0 are earned   *)
(* by the run they belong to (main, runH2CLoad, writeExecutorResult).       *)
THEOREM ResultIsEarned == ExecutorSpec => []ExecutorResultIsEarned
<1>1. ExecutorInv => ExecutorResultIsEarned
  BY EarnedIn8, SuccessIn8, Zenon DEF ExecutorInv, ExecutorResultIsEarned
<1>2. QED
  BY <1>1, ExecutorInvariant, PTL

-----------------------------------------------------------------------------
(* The HTTP/1.1 executor. *)

(* Both checks were exact, and the documents of the gate are on disk. *)
BothExact == checked = << "exact", "exact" >>
GateWritten == Range(ValidationArtifacts) \subseteq files

(* What is settled at each point main can have reached. *)
Http1Known ==
  /\ h1At \notin {"start", "checks", "exited"} => BothExact /\ GateWritten
  /\ h1At \in {"measured", "parse", "write"} => (job.warmup => warmups = "done")
  /\ h1At \in {"parse", "write"} => loads = "done" /\ Range(OhaArtifacts) \subseteq files
  /\ h1At = "write" => /\ report.whole /\ report.expected > 0
                       /\ report.unexpected + report.timeouts + report.errors = 0
  /\ h1At # "exited" => h1Exit # 0 /\ "http-executor-result" \notin files

(* The inductive invariant of the HTTP/1.1 executor. *)
Http1Inv ==
  /\ h1At \in {"start", "checks", "config", "verify", "warmup", "measured", "parse", "write",
               "exited"}
  /\ checked \in Seq(CheckOutcomes)
  /\ report \in [expected : Nat, unexpected : Nat, timeouts : Nat, errors : Nat,
                 whole : BOOLEAN]
  /\ Http1Known /\ Http1ResultIsEarned

(* The artifacts, by name. *)
LEMMA ArtifactNames ==
  /\ Len(ValidationArtifacts) = 4 /\ Len(OhaArtifacts) = 4 /\ Len(ResultArtifacts) = 2
  /\ Range(ValidationArtifacts) = {"validation", "result", "protocol-proof", "executor-identity"}
  /\ Range(OhaArtifacts) = {"oha.stdout", "oha.stderr", "oha.command", "oha.version"}
  /\ Range(ResultArtifacts) = {"load-generator-identity", "http-executor-result"}
  /\ Range(ValidationArtifacts \o OhaArtifacts)
       = Range(ValidationArtifacts) \cup Range(OhaArtifacts)
  <1>1. /\ DOMAIN ValidationArtifacts = 1..4 /\ DOMAIN OhaArtifacts = 1..4
        /\ DOMAIN ResultArtifacts = 1..2 /\ Len(ValidationArtifacts) = 4
        /\ Len(OhaArtifacts) = 4 /\ Len(ResultArtifacts) = 2
    BY DEF ValidationArtifacts, OhaArtifacts, ResultArtifacts
  <1>2. Range(ValidationArtifacts) = {"validation", "result", "protocol-proof", "executor-identity"}
    BY <1>1 DEF Range, ValidationArtifacts
  <1>3. Range(OhaArtifacts) = {"oha.stdout", "oha.stderr", "oha.command", "oha.version"}
    BY <1>1 DEF Range, OhaArtifacts
  <1>4. Range(ResultArtifacts) = {"load-generator-identity", "http-executor-result"}
    BY <1>1 DEF Range, ResultArtifacts
  <1>5. Range(ValidationArtifacts \o OhaArtifacts)
          = Range(ValidationArtifacts) \cup Range(OhaArtifacts)
    <2>1. /\ DOMAIN (ValidationArtifacts \o OhaArtifacts) = 1..8
          /\ \A i \in 1..4 : (ValidationArtifacts \o OhaArtifacts)[i] = ValidationArtifacts[i]
          /\ \A i \in 1..4 : (ValidationArtifacts \o OhaArtifacts)[4 + i] = OhaArtifacts[i]
      BY DEF ValidationArtifacts, OhaArtifacts
    <2>2. \A i \in 1..8 : i \in 1..4 \/ \E j \in 1..4 : i = 4 + j
      OBVIOUS
    <2>3. \A j \in 1..4 : j \in 1..8 /\ 4 + j \in 1..8
      OBVIOUS
    <2> QED  BY <1>1, <2>1, <2>2, <2>3 DEF Range
  <1> QED  BY <1>1, <1>2, <1>3, <1>4, <1>5, ZenonT(30)

(* A sequence of writes adds its files, all of them if none fails. *)
LEMMA ArtifactsWritten ==
  ASSUME NEW names, NEW n \in Nat, DOMAIN names = 1..n, NEW k \in 0..n, WrittenUpTo(names, k)
  PROVE  /\ files \subseteq files' /\ files' \subseteq files \cup Range(names)
         /\ k = n => Range(names) \subseteq files'
  <1>1. {names[i] : i \in 1..k} \subseteq Range(names)
    BY DEF Range
  <1>2. k = n => {names[i] : i \in 1..k} = Range(names)
    BY Zenon DEF Range
  <1>3. files' = files \cup {names[i] : i \in 1..k}
    BY Zenon DEF WrittenUpTo
  <1> QED  BY <1>1, <1>2, <1>3, Zenon

(* The verdict is a pass only if both checks were exact. *)
LEMMA BothPassed ==
  ASSUME checked \in Seq(CheckOutcomes), Len(checked) = Len(defaultExpectations), passed
  PROVE  BothExact
  <1>1. Len(checked) = 2 /\ DOMAIN checked = 1..2
    BY DEF defaultExpectations
  <1>2. checked[1] \in Range(checked) /\ checked[2] \in Range(checked)
    BY <1>1 DEF Range
  <1>3. checked[1] = "exact" /\ checked[2] = "exact"
    BY <1>2, Zenon DEF passed
  <1>4. << "exact", "exact" >> \in Seq(CheckOutcomes)
    BY DEF CheckOutcomes
  <1> QED  BY <1>1, <1>3, <1>4 DEF BothExact

(* The executor starts in the invariant. *)
LEMMA Http1InitInv == ASSUME Http1Init PROVE Http1Inv
  <1>1. report \in [expected : Nat, unexpected : Nat, timeouts : Nat, errors : Nat,
                    whole : BOOLEAN]
    BY Zenon DEF Http1Init, noReport
  <1>2. /\ h1At = "start" /\ checked = << >> /\ files = {} /\ h1Exit # 0
    BY DEF Http1Init, NoStatus
  <1>3. Http1Known
    BY <1>2, Zenon DEF Http1Known
  <1>4. Http1ResultIsEarned
    BY <1>2, Zenon DEF Http1ResultIsEarned
  <1> QED  BY <1>1, <1>2, <1>3, <1>4 DEF Http1Inv

(* A step that ends the run with an error. *)
LEMMA Http1Refused ==
  ASSUME Http1Inv, h1At # "exited", h1At' = "exited", h1Exit' \in {1, 2},
         "http-executor-result" \notin files',
         checked' \in Seq(CheckOutcomes),
         report' \in [expected : Nat, unexpected : Nat, timeouts : Nat, errors : Nat,
                      whole : BOOLEAN]
  PROVE  Http1Inv'
  <1>1. h1Exit' # 0
    OBVIOUS
  <1>2. Http1Known' /\ Http1ResultIsEarned'
    BY <1>1, Zenon DEF Http1Known, Http1ResultIsEarned
  <1> QED  BY <1>2, Zenon DEF Http1Inv

(* A step that goes on. *)
LEMMA Http1Continues ==
  ASSUME Http1Inv, h1At # "exited", h1At' # "exited", UNCHANGED h1Exit, Http1Known',
         h1At' \in {"start", "checks", "config", "verify", "warmup", "measured", "parse", "write"},
         checked' \in Seq(CheckOutcomes),
         report' \in [expected : Nat, unexpected : Nat, timeouts : Nat, errors : Nat,
                      whole : BOOLEAN]
  PROVE  Http1Inv'
  <1>1. h1Exit' # 0 /\ "http-executor-result" \notin files'
    BY Zenon DEF Http1Known
  <1>2. Http1ResultIsEarned'
    BY <1>1, Zenon DEF Http1ResultIsEarned
  <1> QED  BY <1>2, Zenon DEF Http1Inv

(* main reads its flags. *)
LEMMA CheckArgumentsInv == ASSUME Http1Inv, CheckArguments PROVE Http1Inv'
  <1>1. /\ h1At = "start" /\ UNCHANGED << job, checked, report, files, warmups, loads >>
    BY Zenon DEF CheckArguments
  <1>2. Http1Known /\ "http-executor-result" \notin files' /\ checked' \in Seq(CheckOutcomes)
        /\ report' \in [expected : Nat, unexpected : Nat, timeouts : Nat, errors : Nat,
                        whole : BOOLEAN]
    BY <1>1, Zenon DEF Http1Inv, Http1Known
  <1>3. CASE h1At' = "checks" /\ UNCHANGED h1Exit
    <2>1. Http1Known'
      BY <1>1, <1>2, <1>3, Zenon DEF Http1Known
    <2> QED  BY <1>1, <1>2, <1>3, <2>1, Http1Continues, Zenon
  <1>4. CASE Stop(2)
    BY <1>1, <1>2, <1>4, Http1Refused, Zenon DEF Stop
  <1> QED  BY <1>3, <1>4, Zenon DEF CheckArguments

(* A check is run. *)
LEMMA RunHttp1CheckInv == ASSUME Http1Inv, RunHttp1Check PROVE Http1Inv'
  <1>1. /\ h1At = "checks" /\ UNCHANGED << job, h1At, report, files, h1Exit, warmups, loads >>
    BY Zenon DEF RunHttp1Check
  <1>2. Http1Known
        /\ report' \in [expected : Nat, unexpected : Nat, timeouts : Nat, errors : Nat,
                        whole : BOOLEAN]
    BY <1>1, Zenon DEF Http1Inv
  <1>3. checked' \in Seq(CheckOutcomes)
    BY DEF RunHttp1Check, Http1Inv
  <1>4. Http1Known'
    BY <1>1, <1>2, Zenon DEF Http1Known
  <1> QED  BY <1>1, <1>2, <1>3, <1>4, Http1Continues, Zenon

(* The documents of the gate are written, then the verdict decides. *)
LEMMA WriteValidationInv == ASSUME Http1Inv, WriteValidation PROVE Http1Inv'
  <1>1. /\ h1At = "checks" /\ Len(checked) = Len(defaultExpectations)
        /\ UNCHANGED << job, checked, report, warmups, loads >>
    BY Zenon DEF WriteValidation
  <1>2. Http1Known /\ checked' \in Seq(CheckOutcomes) /\ checked \in Seq(CheckOutcomes)
        /\ report' \in [expected : Nat, unexpected : Nat, timeouts : Nat, errors : Nat,
                        whole : BOOLEAN]
    BY <1>1, Zenon DEF Http1Inv
  <1>3. PICK k \in 0..4 :
          /\ WrittenUpTo(ValidationArtifacts, k)
          /\ CASE k < 4 \/ ~passed -> Stop(1)
               [] k = 4 /\ passed /\ job.validationOnly -> Stop(0)
               [] OTHER -> h1At' = "config" /\ UNCHANGED h1Exit
    BY ArtifactNames, Zenon DEF WriteValidation
  <1>4. /\ files \subseteq files' /\ files' \subseteq files \cup Range(ValidationArtifacts)
        /\ k = 4 => Range(ValidationArtifacts) \subseteq files'
    <2>1. DOMAIN ValidationArtifacts = 1..4 /\ 4 \in Nat
      BY DEF ValidationArtifacts
    <2> QED  BY <1>3, <2>1, ArtifactsWritten, Zenon
  <1>5. "http-executor-result" \notin files'
    BY <1>1, <1>2, <1>4, ArtifactNames, Zenon DEF Http1Known
  <1>6. CASE k < 4 \/ ~passed
    <2>1. ~(k = 4 /\ passed)
      BY <1>6
    <2>2. Stop(1)
      BY <1>3, <1>6, <2>1, Zenon
    <2> QED  BY <1>1, <1>2, <1>5, <2>2, Http1Refused, Zenon DEF Stop
  <1>7. CASE k = 4 /\ passed
    <2>1. BothExact /\ BothExact'
      BY <1>1, <1>2, <1>7, BothPassed, Zenon DEF BothExact
    <2>2. GateWritten'
      BY <1>4, <1>7, Zenon DEF GateWritten
    <2>3. CASE job.validationOnly
      <3>0. ~(k < 4)
        BY <1>7
      <3>1. Stop(0)
        BY <1>3, <1>7, <2>3, <3>0, Zenon
      <3>2. h1At' = "exited" /\ job'.validationOnly
        BY <1>1, <2>3, <3>1, Zenon DEF Stop
      <3>3. Http1Known'
        BY <3>2, Zenon DEF Http1Known
      <3>4. Http1ResultIsEarned'
        BY <1>5, <2>1, <2>2, <3>2, Zenon DEF Http1ResultIsEarned, BothExact, GateWritten
      <3> QED  BY <1>2, <3>2, <3>3, <3>4, Zenon DEF Http1Inv
    <2>4. CASE ~job.validationOnly
      <3>1. ~(k < 4)
        BY <1>7
      <3>2. h1At' = "config" /\ UNCHANGED h1Exit
        BY <1>3, <1>7, <2>4, <3>1, Zenon
      <3>3. Http1Known'
        BY <1>1, <1>2, <1>5, <2>1, <2>2, <3>2, Zenon DEF Http1Known
      <3> QED  BY <1>1, <1>2, <3>2, <3>3, Http1Continues, Zenon
    <2> QED  BY <2>3, <2>4, Zenon
  <1> QED  BY <1>6, <1>7

(* The load configuration is read. *)
LEMMA LoadConfigInv == ASSUME Http1Inv, loadConfigFromEnvironment PROVE Http1Inv'
  <1>1. /\ h1At = "config" /\ UNCHANGED << job, checked, report, files, warmups, loads >>
    BY Zenon DEF loadConfigFromEnvironment
  <1>2. Http1Known /\ "http-executor-result" \notin files' /\ checked' \in Seq(CheckOutcomes)
        /\ report' \in [expected : Nat, unexpected : Nat, timeouts : Nat, errors : Nat,
                        whole : BOOLEAN]
    BY <1>1, Zenon DEF Http1Inv, Http1Known
  <1>3. CASE h1At' = "verify" /\ UNCHANGED h1Exit
    <2>1. Http1Known'
      BY <1>1, <1>2, <1>3, Zenon DEF Http1Known, BothExact, GateWritten
    <2> QED  BY <1>1, <1>2, <1>3, <2>1, Http1Continues, Zenon
  <1>4. CASE Stop(2)
    BY <1>1, <1>2, <1>4, Http1Refused, Zenon DEF Stop
  <1> QED  BY <1>3, <1>4, Zenon DEF loadConfigFromEnvironment

(* oha is verified. *)
LEMMA verifyOhaInv == ASSUME Http1Inv, verifyOha PROVE Http1Inv'
  <1>1. /\ h1At = "verify" /\ UNCHANGED << job, checked, report, files, warmups, loads >>
    BY Zenon DEF verifyOha
  <1>2. Http1Known /\ "http-executor-result" \notin files' /\ checked' \in Seq(CheckOutcomes)
        /\ report' \in [expected : Nat, unexpected : Nat, timeouts : Nat, errors : Nat,
                        whole : BOOLEAN]
    BY <1>1, Zenon DEF Http1Inv, Http1Known
  <1>3. CASE h1At' = (IF job.warmup THEN "warmup" ELSE "measured") /\ UNCHANGED h1Exit
    <2>1. Http1Known'
      BY <1>1, <1>2, <1>3, Zenon DEF Http1Known, BothExact, GateWritten
    <2> QED  BY <1>1, <1>2, <1>3, <2>1, Http1Continues, Zenon
  <1>4. CASE Stop(1)
    BY <1>1, <1>2, <1>4, Http1Refused, Zenon DEF Stop
  <1> QED  BY <1>3, <1>4, Zenon DEF verifyOha

(* The warm-up is run. *)
LEMMA RunWarmupInv == ASSUME Http1Inv, RunWarmup PROVE Http1Inv'
  <1>1. /\ h1At = "warmup" /\ UNCHANGED << job, checked, report, loads >>
    BY Zenon DEF RunWarmup
  <1>2. Http1Known /\ checked' \in Seq(CheckOutcomes)
        /\ report' \in [expected : Nat, unexpected : Nat, timeouts : Nat, errors : Nat,
                        whole : BOOLEAN]
    BY <1>1, Zenon DEF Http1Inv
  <1>3. files \subseteq files' /\ "http-executor-result" \notin files'
    BY <1>1, <1>2, Zenon DEF RunWarmup, Http1Known
  <1>4. CASE warmups' = "done" /\ h1At' = "measured" /\ UNCHANGED h1Exit
    <2>1. Http1Known'
      BY <1>1, <1>2, <1>3, <1>4, Zenon DEF Http1Known, BothExact, GateWritten
    <2> QED  BY <1>1, <1>2, <1>4, <2>1, Http1Continues, Zenon
  <1>5. CASE Stop(1)
    BY <1>1, <1>2, <1>3, <1>5, Http1Refused, Zenon DEF Stop
  <1> QED  BY <1>4, <1>5, Zenon DEF RunWarmup

(* So is the measured load. *)
LEMMA RunMeasuredInv == ASSUME Http1Inv, RunMeasured PROVE Http1Inv'
  <1>1. /\ h1At = "measured" /\ UNCHANGED << job, checked, warmups >>
    BY Zenon DEF RunMeasured
  <1>2. Http1Known /\ checked' \in Seq(CheckOutcomes)
    BY <1>1, Zenon DEF Http1Inv
  <1>3. PICK end \in ohaEnds, r \in ohaReports, k \in 0..4 :
          /\ loads' = end /\ report' = r /\ WrittenUpTo(OhaArtifacts, k)
          /\ IF end = "done" /\ k = 4
             THEN h1At' = "parse" /\ UNCHANGED h1Exit ELSE Stop(1)
    BY ArtifactNames, Zenon DEF RunMeasured
  <1>4. /\ files \subseteq files' /\ files' \subseteq files \cup Range(OhaArtifacts)
        /\ k = 4 => Range(OhaArtifacts) \subseteq files'
    <2>1. DOMAIN OhaArtifacts = 1..4 /\ 4 \in Nat
      BY DEF OhaArtifacts
    <2> QED  BY <1>3, <2>1, ArtifactsWritten, Zenon
  <1>5. "http-executor-result" \notin files'
    BY <1>1, <1>2, <1>4, ArtifactNames, Zenon DEF Http1Known
  <1>6. report' \in [expected : Nat, unexpected : Nat, timeouts : Nat, errors : Nat,
                     whole : BOOLEAN]
    <2>1. 0..Requests \subseteq Nat
      BY Http1Assumption
    <2> QED  BY <1>3, <2>1, Zenon DEF ohaReports
  <1>7. CASE end = "done" /\ k = 4
    <2>1. h1At' = "parse" /\ UNCHANGED h1Exit /\ loads' = "done"
      BY <1>3, <1>7, Zenon
    <2>2. Http1Known'
      BY <1>1, <1>2, <1>4, <1>5, <1>7, <2>1, Zenon DEF Http1Known, BothExact, GateWritten
    <2> QED  BY <1>1, <1>2, <1>6, <2>1, <2>2, Http1Continues, Zenon
  <1>8. CASE ~(end = "done" /\ k = 4)
    <2>1. Stop(1)
      BY <1>3, <1>8, Zenon
    <2> QED  BY <1>1, <1>2, <1>5, <1>6, <2>1, Http1Refused, Zenon DEF Stop
  <1> QED  BY <1>7, <1>8, Zenon

(* Its report is parsed and judged. *)
LEMMA ReadReportInv == ASSUME Http1Inv, ReadReport PROVE Http1Inv'
  <1>1. /\ h1At = "parse" /\ UNCHANGED << job, checked, report, files, warmups, loads >>
    BY Zenon DEF ReadReport
  <1>2. Http1Known /\ "http-executor-result" \notin files' /\ checked' \in Seq(CheckOutcomes)
        /\ report' \in [expected : Nat, unexpected : Nat, timeouts : Nat, errors : Nat,
                        whole : BOOLEAN]
    BY <1>1, Zenon DEF Http1Inv, Http1Known
  <1>3. CASE /\ parseOhaJSON(report) /\ acceptable(normalizeOhaMetrics(report))
             /\ h1At' = "write" /\ UNCHANGED h1Exit
    <2>1. /\ report.whole /\ report.expected > 0
          /\ report.unexpected + report.errors = 0 /\ report.timeouts = 0
      BY <1>3, Zenon DEF parseOhaJSON, listed, acceptable, normalizeOhaMetrics
    <2>2. report.unexpected + report.timeouts + report.errors = 0
      <3>1. report.unexpected \in Nat /\ report.errors \in Nat
        BY <1>1, <1>2, Zenon
      <3> QED  BY <2>1, <3>1
    <2>3. Http1Known'
      BY Zenon, <1>1, <1>2, <1>3, <2>1, <2>2 DEF Http1Known, BothExact, GateWritten
    <2> QED  BY <1>1, <1>2, <1>3, <2>3, Http1Continues, Zenon
  <1>4. CASE Stop(1)
    BY <1>1, <1>2, <1>4, Http1Refused, Zenon DEF Stop
  <1> QED  BY <1>3, <1>4, Zenon DEF ReadReport

(* The result is written. *)
LEMMA WriteResultInv == ASSUME Http1Inv, writeExecutorResult PROVE Http1Inv'
  <1>1. /\ h1At = "write" /\ UNCHANGED << job, checked, report, warmups, loads >>
    BY Zenon DEF writeExecutorResult
  <1>2. Http1Known /\ checked' \in Seq(CheckOutcomes)
        /\ report' \in [expected : Nat, unexpected : Nat, timeouts : Nat, errors : Nat,
                        whole : BOOLEAN]
    BY <1>1, Zenon DEF Http1Inv
  <1>3. PICK k \in 0..2, printed \in BOOLEAN :
          /\ WrittenUpTo(ResultArtifacts, k)
          /\ Stop(IF k = 2 /\ printed THEN 0 ELSE 1)
    BY ArtifactNames, Zenon DEF writeExecutorResult
  <1>4. files \subseteq files' /\ (k = 2 => Range(ResultArtifacts) \subseteq files')
    <2>1. DOMAIN ResultArtifacts = 1..2 /\ 2 \in Nat
      BY DEF ResultArtifacts
    <2> QED  BY <1>3, <2>1, ArtifactsWritten, Zenon
  <1>5. /\ h1At' = "exited" /\ (h1Exit' = 0 => k = 2)
    BY <1>3 DEF Stop
  <1>6. /\ checked' = << "exact", "exact" >> /\ loads' = "done"
        /\ job'.warmup => warmups' = "done"
        /\ report'.whole /\ report'.expected > 0
        /\ report'.unexpected + report'.timeouts + report'.errors = 0
        /\ Range(ValidationArtifacts \o OhaArtifacts) \subseteq files'
    BY <1>1, <1>2, <1>4, ArtifactNames, Zenon DEF Http1Known, BothExact, GateWritten
  <1>7. h1Exit' = 0 => "http-executor-result" \in files'
    BY <1>4, <1>5, ArtifactNames, Zenon
  <1>8. Http1ResultIsEarned'
    BY <1>6, <1>7, Zenon DEF Http1ResultIsEarned
  <1>9. Http1Known'
    BY <1>5, Zenon DEF Http1Known
  <1> QED  BY <1>2, <1>5, <1>8, <1>9, Zenon DEF Http1Inv

(* The invariant holds of the HTTP/1.1 executor. *)
THEOREM Http1Invariant == Http1Spec => []Http1Inv
  <1>1. Http1Init => Http1Inv
    BY Http1InitInv, Zenon
  <1>2. Http1Inv /\ [Http1Next]_http1Vars => Http1Inv'
    <2> SUFFICES ASSUME Http1Inv, [Http1Next]_http1Vars  PROVE Http1Inv'
      BY Zenon
    <2>1. CASE Http1Next
      BY <2>1, CheckArgumentsInv, RunHttp1CheckInv, WriteValidationInv, LoadConfigInv,
         verifyOhaInv, RunWarmupInv, RunMeasuredInv, ReadReportInv, WriteResultInv, Zenon
      DEF Http1Next
    <2>2. CASE UNCHANGED http1Vars
      BY <2>2, Zenon
      DEF Http1Inv, Http1Known, Http1ResultIsEarned, BothExact, GateWritten, http1Vars
    <2> QED  BY <2>1, <2>2, Zenon
  <1> QED  BY <1>1, <1>2, PTL DEF Http1Spec

(* The HTTP/1.1 executor's result file and its exit code 0 are earned,      *)
(* wherever a write fails and however oha ends (main, runLoad,              *)
(* normalizeOhaMetrics, writeExecutorResult).                               *)
THEOREM Http1ResultEarned == Http1Spec => []Http1ResultIsEarned
  <1>1. Http1Inv => Http1ResultIsEarned
    BY Zenon DEF Http1Inv
  <1> QED  BY <1>1, Http1Invariant, PTL

-----------------------------------------------------------------------------
(***************************************************************************)
(* Proofs for TlsSession, for every number of operations in a phase and of *)
(* record cases, every executor, and whatever an implementation under test *)
(* negotiates, sends or withholds.                                         *)
(*                                                                         *)
(* That a pass is earned rests on validateState and on a server resuming   *)
(* only what was offered (Validated). That an executor passes against its  *)
(* packaged target needs the connection itself: which messages are on      *)
(* their way at each step of the executor (OnTrack), and where the ticket  *)
(* is (SingleUse).                                                         *)
(***************************************************************************)

(* The steps of the executor on an open connection. *)
Connecting == {"flight", "await", "validate", "drain", "upload", "transfer"}
TlsTasks == [kind : TlsKinds, peer : {"packaged", "foreign"},
             identity : {"exact", "unsupported", "other"},
             validationOnly : BOOLEAN, config : BOOLEAN, warmup : BOOLEAN, total : -1 .. MaxOps]
States == [right : BOOLEAN, resumed : BOOLEAN]
Tallies == [completed : Nat, failed : Nat, timedOut : Nat]
Caches == [session : BOOLEAN, puts : Nat, gets : Nat, hits : Nat]

(* The variables keep their types. *)
TlsTypeOK ==
  /\ task \in TlsTasks
  /\ step \in {"gate", "phase", "dial", "exit"} \cup Connecting
  /\ period \in {"preflight", "warmup", "measured"} /\ round \in Nat \ {0}
  /\ tally \in Tallies /\ cache \in Caches /\ offered \in BOOLEAN
  /\ hello = << >> \/ \E h \in States : hello = << h >>
  /\ astray \in BOOLEAN /\ fault \in BOOLEAN

(* What the executor knows of its connection: a server resumes only what    *)
(* the client offered, and what follows the handshake comes after           *)
(* validateState.                                                           *)
Validated ==
  /\ ~astray
  /\ hello # << >> /\ hello[1].resumed => offered
  /\ step \in Connecting \ {"flight"} => hello # << >>
  /\ step \in {"drain", "upload", "transfer"} => validateState(hello[1])
  /\ step = "drain" => task.kind = "resumed" /\ round = 1
  /\ step \in {"upload", "transfer"} => task.kind \in RecordKinds
  /\ step = "await" => task.kind = "tls12"
  /\ step = "phase" => period # "preflight"
  /\ step # "exit" => tlsExit = NoCode
  /\ tlsExit = 0 => phaseClean \/ task.validationOnly

(* What the target sends behind its flight. *)
Tickets == IF task.kind \in Tls13Kinds THEN << "ticket" >> ELSE << >>

(* The target has not read Finished yet; these messages are on their way to *)
(* it, and back.                                                            *)
Listening(ms, back) == served = "listening" /\ toServer = ms /\ toClient = back

(* Where a connection to the packaged target stands, as long as it is not   *)
(* cut off: both sides' messages, step by step.                             *)
OnTrack ==
  /\ step = "flight" => Listening(<< >>, IF hello = << >> THEN << >> ELSE Tickets)
  /\ step = "await" =>
       \/ Listening(<< "finished" >>, << >>)
       \/ served = "reading" /\ toServer = << >> /\ toClient = << "finished" >>
  /\ step = "validate" =>
       \/ task.kind # "tls12" /\ Listening(<< "finished" >>, Tickets)
       \/ /\ toServer = << >>
          /\ \/ task.kind \in RecordKinds /\ served = "reading" /\ toClient = << "ticket" >>
             \/ /\ task.kind \in {"full", "resumed"}
                /\ served = "closed" /\ toClient = << "ticket", "close" >>
             \/ task.kind \notin Tls13Kinds /\ served = "reading" /\ toClient = << >>
  /\ step = "drain" =>
       \/ Listening(<< "finished" >>, << "ticket" >>)
       \/ Listening(<< "finished" >>, << >>) /\ cache.session
       \/ /\ toServer = << >> /\ served = "closed"
          /\ \/ toClient = << "ticket", "close" >>
             \/ toClient = << "close" >> /\ cache.session
  /\ step = "upload" =>
       /\ ~fromServer
       /\ \/ Listening(<< "finished", "command" >>, << "ticket" >>)
          \/ /\ served = "reading" /\ toClient = << "ticket" >>
             /\ toServer \in {<< "command" >>, << >>}
  /\ step = "transfer" =>
       \/ /\ fromServer
          /\ \/ Listening(<< "finished", "command" >>, << "ticket" >>)
             \/ Listening(<< "finished", "command" >>, << >>)
       \/ /\ toServer = << IF fromServer THEN "command" ELSE "payload" >>
          /\ served = "reading" /\ toClient \in {<< "ticket" >>, << >>}
       \/ /\ toServer = << >> /\ served = "closed"
          /\ toClient \in {<< "ticket", tlsAwaited, "close" >>, << tlsAwaited, "close" >>}

(* A ticket is put in the source connection and taken by the next one. *)
SingleUse ==
  /\ step \notin {"dial"} \cup Connecting => round = 1 /\ cache = emptyCache
  /\ step = "dial" =>
       IF task.kind = "resumed" /\ round = 2 THEN cache.session /\ cache.gets = 1 /\ cache.hits = 0
       ELSE cache = emptyCache
  /\ step = "dial" /\ task.kind = "resumed" => round \in {1, 2}
  /\ step \in Connecting => (offered <=> expectResume)
  /\ step \in Connecting /\ task.kind # "resumed" => cache = emptyCache
  /\ step \in Connecting /\ task.kind = "resumed" =>
       IF round = 1 THEN cache.gets = 1 /\ cache.hits = 0 /\ (step # "drain" => ~cache.session)
       ELSE round = 2 /\ consumedOnce(cache)

(* Against the packaged target nothing fails without a cause. *)
Faultless ==
  task.peer = "packaged" /\ ~fault =>
    /\ OnTrack /\ SingleUse /\ tlsExit # 1
    /\ hello # << >> => hello[1].right /\ (hello[1].resumed <=> offered)
    /\ tally.failed = 0 /\ tally.timedOut = 0

(* The inductive invariant. *)
TlsInv == TlsTypeOK /\ Validated /\ Faultless
-----------------------------------------------------------------------------
(* The queues between executor and target are short: what is left of one. *)
LEMMA TailOfThree ==
  ASSUME NEW a, NEW b, NEW c
  PROVE  /\ Tail(<< a >>) = << >> /\ Tail(<< a, b >>) = << b >> /\ Tail(<< a, b, c >>) = << b, c >>
         /\ Head(<< a >>) = a /\ Head(<< a, b >>) = a /\ Head(<< a, b, c >>) = a
         /\ << a >> # << >> /\ << a, b >> # << >> /\ << a, b, c >> # << >>
  <1>1. Tail(<< a >>) = << >>
    OBVIOUS
  <1>2. Tail(<< a, b >>) = << b >>
    OBVIOUS
  <1>3. Tail(<< a, b, c >>) = << b, c >>
    OBVIOUS
  <1>4. Head(<< a >>) = a /\ Head(<< a, b >>) = a /\ Head(<< a, b, c >>) = a
    OBVIOUS
  <1>5. << a >> # << >> /\ << a, b >> # << >> /\ << a, b, c >> # << >>
    BY Zenon
  <1> QED  BY <1>1, <1>2, <1>3, <1>4, <1>5, Zenon

(* Sequences of one length that agree everywhere are the same. *)
LEMMA SameItems ==
  ASSUME NEW S, NEW s \in Seq(S), NEW t \in Seq(S), Len(s) = Len(t),
         \A i \in 1..Len(s) : s[i] = t[i]
  PROVE  s = t
OBVIOUS

(* A second message sent. *)
LEMMA AppendSecond == ASSUME NEW a, NEW b PROVE Append(<< a >>, b) = << a, b >>
  <1> DEFINE S == {a, b}  s == Append(<< a >>, b)  t == << a, b >>
  <1>1. s \in Seq(S) /\ t \in Seq(S)
    OBVIOUS
  <1>2. Len(s) = 2 /\ Len(t) = 2
    OBVIOUS
  <1>3. s[1] = a /\ s[2] = b /\ t[1] = a /\ t[2] = b
    OBVIOUS
  <1>4. \A i \in 1 .. Len(s) : s[i] = t[i]
    BY <1>2, <1>3
  <1> HIDE DEF s, t, S
  <1>5. s = t
    BY <1>1, <1>2, <1>4, SameItems, Zenon
  <1> QED  BY <1>5, Zenon DEF s, t

(* A message behind the ticket. *)
LEMMA OneThenOne == ASSUME NEW a, NEW b PROVE << a >> \o << b >> = << a, b >>
  <1> DEFINE S == {a, b}  s == << a >> \o << b >>  t == << a, b >>
  <1>1. s \in Seq(S) /\ t \in Seq(S)
    OBVIOUS
  <1>2. Len(s) = 2 /\ Len(t) = 2
    OBVIOUS
  <1>3. s[1] = a /\ s[2] = b /\ t[1] = a /\ t[2] = b
    OBVIOUS
  <1>4. \A i \in 1 .. Len(s) : s[i] = t[i]
    BY <1>2, <1>3
  <1> HIDE DEF s, t, S
  <1>5. s = t
    BY <1>1, <1>2, <1>4, SameItems, Zenon
  <1> QED  BY <1>5, Zenon DEF s, t

(* Two messages behind it. *)
LEMMA OneThenTwo == ASSUME NEW a, NEW b, NEW c PROVE << a >> \o << b, c >> = << a, b, c >>
  <1> DEFINE S == {a, b, c}  s == << a >> \o << b, c >>  t == << a, b, c >>
  <1>1. s \in Seq(S) /\ t \in Seq(S)
    OBVIOUS
  <1>2. Len(s) = 3 /\ Len(t) = 3
    OBVIOUS
  <1>3. s[1] = a /\ s[2] = b /\ s[3] = c /\ t[1] = a /\ t[2] = b /\ t[3] = c
    OBVIOUS
  <1>4. \A i \in 1 .. Len(s) : s[i] = t[i]
    BY <1>2, <1>3
  <1> HIDE DEF s, t, S
  <1>5. s = t
    BY <1>1, <1>2, <1>4, SameItems, Zenon
  <1> QED  BY <1>5, Zenon DEF s, t

(* Messages put on an empty queue. *)
LEMMA OntoEmpty ==
  ASSUME NEW a, NEW b
  PROVE  /\ Append(<< >>, a) = << a >>
         /\ << >> \o << a >> = << a >> /\ << >> \o << a, b >> = << a, b >>
  <1>1. Append(<< >>, a) = << a >>
    OBVIOUS
  <1>2. << >> \o << a >> = << a >>
    OBVIOUS
  <1>3. << >> \o << a, b >> = << a, b >>
    OBVIOUS
  <1> QED  BY <1>1, <1>2, <1>3, Zenon

(* The executor starts in the invariant. *)
LEMMA TlsInitInv == TlsInit => TlsInv
  <1> SUFFICES ASSUME TlsInit PROVE TlsInv
    BY Zenon
  <1>1. TlsTypeOK
    <2>1. emptyTally \in Tallies /\ emptyCache \in Caches
      BY Zenon DEF Tallies, Caches, emptyTally, emptyCache
    <2>2. 1 \in Nat \ {0}
      OBVIOUS
    <2> QED  BY <2>1, <2>2, Zenon DEF TlsInit, TlsTypeOK, TlsTasks
  <1>2. Validated
    BY DEF TlsInit, Validated, Connecting, NoCode
  <1>3. OnTrack /\ SingleUse /\ tlsExit # 1
    BY DEF TlsInit, OnTrack, SingleUse, Connecting, NoCode
  <1>4. tally.failed = 0 /\ tally.timedOut = 0
    BY Zenon DEF TlsInit, emptyTally
  <1>5. hello = << >>
    BY Zenon DEF TlsInit
  <1> QED  BY <1>1, <1>2, <1>3, <1>4, <1>5, Zenon DEF TlsInv, Faultless

(* What main does after the preflight, by its cases. *)
LEMMA AfterPreflightCases ==
  ASSUME NEW ok \in BOOLEAN, AfterPreflight(ok)
  PROVE  \/ /\ ok /\ step' = "phase" /\ period' \in {"warmup", "measured"}
            /\ tally' = emptyTally /\ tlsExit' = tlsExit
         \/ /\ step' = "exit" /\ period' = period /\ tally' = tally
            /\ \/ ~ok /\ tlsExit' = 1
               \/ ok /\ task.validationOnly /\ tlsExit' = 0
               \/ ok /\ tlsExit' = 2
  <1>1. CASE ok /\ ~task.validationOnly /\ task.config
    BY <1>1, Zenon DEF AfterPreflight, StartStage
  <1>2. CASE ~ok
    BY <1>2, Zenon DEF AfterPreflight, TlsExit
  <1>3. CASE ok /\ task.validationOnly
    BY <1>3, Zenon DEF AfterPreflight, TlsExit
  <1>4. CASE ok /\ ~task.validationOnly /\ ~task.config
    BY <1>4, Zenon DEF AfterPreflight, TlsExit
  <1> QED  BY <1>1, <1>2, <1>3, <1>4, Zenon

(* One more outcome in the phase summary. *)
LEMMA TallyOne ==
  ASSUME tally \in Tallies, NEW outcome \in {"completed", "failed", "timedOut"}
  PROVE  LET t == [tally EXCEPT ![outcome] = @ + 1] IN
         /\ t \in Tallies
         /\ outcome = "completed" => t.failed = tally.failed /\ t.timedOut = tally.timedOut
  <1>1. CASE outcome = "completed"
    BY <1>1 DEF Tallies
  <1>2. CASE outcome = "failed"
    BY <1>2 DEF Tallies
  <1>3. CASE outcome = "timedOut"
    BY <1>3 DEF Tallies
  <1> QED  BY <1>1, <1>2, <1>3, Zenon

(* What the end of an operation changes. *)
LEMMA OpOverCases ==
  ASSUME tally \in Tallies, NEW outcome \in {"completed", "failed", "timedOut"}, OpOver(outcome)
  PROVE  /\ step' \in {"phase", "exit"} /\ period' \in {period, "warmup", "measured"}
         /\ round' = 1 /\ cache' = emptyCache /\ tally' \in Tallies
         /\ step' = "phase" => tlsExit' = tlsExit /\ period' # "preflight"
         /\ step' = "exit" => tlsExit' \in {0, 1, 2}
         /\ step' = "exit" /\ tlsExit' = 0 => task.validationOnly
         /\ step' = "exit" /\ tlsExit' = 1 => outcome # "completed"
         /\ outcome = "completed" /\ tally.failed = 0 /\ tally.timedOut = 0
              => tally'.failed = 0 /\ tally'.timedOut = 0
  <1>1. CASE period = "preflight"
    <2>1. AfterPreflight(outcome = "completed")
      BY <1>1, Zenon DEF OpOver
    <2>2. (outcome = "completed") \in BOOLEAN
      BY Zenon
    <2>3. round' = 1 /\ cache' = emptyCache
      BY Zenon DEF OpOver
    <2>4. emptyTally \in Tallies /\ emptyTally.failed = 0 /\ emptyTally.timedOut = 0
      BY Zenon DEF emptyTally, Tallies
    <2> DEFINE ok == outcome = "completed"
    <2>5. /\ \/ /\ ok /\ step' = "phase" /\ period' \in {"warmup", "measured"}
                /\ tally' = emptyTally /\ tlsExit' = tlsExit
             \/ /\ step' = "exit" /\ period' = period /\ tally' = tally
                /\ \/ ~ok /\ tlsExit' = 1
                   \/ ok /\ task.validationOnly /\ tlsExit' = 0
                   \/ ok /\ tlsExit' = 2
      BY <2>1, <2>2, AfterPreflightCases, Zenon
    <2> QED  BY <2>3, <2>4, <2>5
  <1>2. CASE period # "preflight"
    <2>1. /\ step' = "phase" /\ tally' = [tally EXCEPT ![outcome] = @ + 1]
          /\ period' = period /\ tlsExit' = tlsExit /\ round' = 1 /\ cache' = emptyCache
      BY <1>2, Zenon DEF OpOver
    <2> QED  BY <1>2, <2>1, TallyOne, Zenon
  <1> QED  BY <1>1, <1>2, Zenon

-----------------------------------------------------------------------------
(* An operation is over, and not failed without a cause. *)
LEMMA OpOverInv ==
  ASSUME TlsInv, step # "exit", NEW outcome \in {"completed", "failed", "timedOut"},
         OpOver(outcome), UNCHANGED << task, offered, hello >>,
         ~astray', astray' \in BOOLEAN, fault' \in BOOLEAN,
         task.peer = "packaged" /\ ~fault' => ~fault /\ outcome = "completed"
  PROVE  TlsInv'
  <1>1. /\ step' \in {"phase", "exit"} /\ period' \in {period, "warmup", "measured"}
        /\ round' = 1 /\ cache' = emptyCache /\ tally' \in Tallies
        /\ step' = "phase" => tlsExit' = tlsExit /\ period' # "preflight"
        /\ step' = "exit" => tlsExit' \in {0, 1, 2}
        /\ step' = "exit" /\ tlsExit' = 0 => task.validationOnly
        /\ step' = "exit" /\ tlsExit' = 1 => outcome # "completed"
        /\ outcome = "completed" /\ tally.failed = 0 /\ tally.timedOut = 0
             => tally'.failed = 0 /\ tally'.timedOut = 0
    BY OpOverCases, Zenon DEF TlsInv, TlsTypeOK
  <1>2. TlsTypeOK'
    <2>1. emptyCache \in Caches /\ 1 \in Nat \ {0}
      BY DEF emptyCache, Caches
    <2>2. step' \in {"gate", "phase", "dial", "exit"} \cup Connecting
      BY <1>1, Zenon
    <2>3. period' \in {"preflight", "warmup", "measured"}
      BY <1>1, Zenon DEF TlsInv, TlsTypeOK
    <2> QED  BY <1>1, <2>1, <2>2, <2>3, Zenon DEF TlsInv, TlsTypeOK
  <1>3. step' \notin {"dial"} \cup Connecting /\ step' # "dial" /\ step' \notin Connecting
    BY <1>1, Zenon DEF Connecting
  <1>4. tlsExit = NoCode /\ NoCode \notin {0, 1}
    BY DEF TlsInv, Validated, NoCode
  <1>5. Validated'
    <2>1. hello' # << >> /\ hello'[1].resumed => offered'
      BY Zenon DEF TlsInv, Validated
    <2>2. step' # "exit" => tlsExit' = NoCode
      BY <1>1, <1>4, Zenon
    <2>3. tlsExit' = 0 => task'.validationOnly
      BY <1>1, <1>4, Zenon
    <2> QED  BY <1>1, <2>1, <2>2, <2>3, Zenon DEF Validated, Connecting
  <1>6. Faultless'
    <2> SUFFICES ASSUME task'.peer = "packaged", ~fault'
                 PROVE  /\ OnTrack' /\ SingleUse' /\ tlsExit' # 1
                        /\ hello' # << >> => hello'[1].right /\ (hello'[1].resumed <=> offered')
                        /\ tally'.failed = 0 /\ tally'.timedOut = 0
      BY Zenon DEF Faultless
    <2>1. task.peer = "packaged" /\ ~fault /\ outcome = "completed"
      BY Zenon
    <2>2. /\ hello # << >> => hello[1].right /\ (hello[1].resumed <=> offered)
          /\ tally.failed = 0 /\ tally.timedOut = 0
      BY <2>1, Zenon DEF TlsInv, Faultless
    <2>3. OnTrack'
      BY <1>1, Zenon DEF OnTrack
    <2>4. SingleUse'
      BY <1>1, <1>3, Zenon DEF SingleUse
    <2>5. tlsExit' # 1
      BY <1>1, <1>4, <2>1, Zenon
    <2> QED  BY <1>1, <2>1, <2>2, <2>3, <2>4, <2>5, Zenon
  <1> QED  BY <1>2, <1>5, <1>6, Zenon DEF TlsInv

-----------------------------------------------------------------------------
(* A peer adds its flight or messages; the packaged target stays on track. *)
LEMMA PeerStepInv ==
  ASSUME TlsInv, UNCHANGED clientVars, fault' \in BOOLEAN,
         \/ hello' = hello
         \/ \E h \in States : hello = << >> /\ hello' = << h >> /\ (h.resumed => offered),
         task.peer = "packaged" /\ ~fault' =>
           /\ ~fault /\ OnTrack'
           /\ hello' = hello \/ hello' = Flight(TRUE, offered)
  PROVE  TlsInv'
  <1> USE DEF clientVars
  <1>1. TlsTypeOK'
    <2>1. hello' = << >> \/ \E h \in States : hello' = << h >>
      BY Zenon DEF TlsInv, TlsTypeOK
    <2>2. /\ task' = task /\ step' = step /\ period' = period /\ round' = round /\ tally' = tally
          /\ cache' = cache /\ offered' = offered /\ astray' = astray
      BY Zenon
    <2> HIDE DEF clientVars
    <2> QED  BY <2>1, <2>2, Zenon DEF TlsInv, TlsTypeOK
  <1>2. hello' # << >> /\ hello'[1].resumed => offered'
    <2>1. CASE hello' = hello
      BY <2>1, Zenon DEF TlsInv, Validated
    <2>2. CASE \E h \in States : hello = << >> /\ hello' = << h >> /\ (h.resumed => offered)
      BY <2>2
    <2> QED  BY <2>1, <2>2, Zenon
  <1>3. hello # << >> => hello' = hello
    BY Zenon
  <1>4. Validated'
    <2>1. step' \in Connecting \ {"flight"} => hello' # << >>
      BY <1>3, Zenon DEF TlsInv, Validated
    <2>2. step' \in {"drain", "upload", "transfer"} => validateState(hello[1])'
      <3> SUFFICES ASSUME step \in {"drain", "upload", "transfer"} PROVE validateState(hello[1])'
        BY Zenon
      <3>1. hello # << >> /\ validateState(hello[1])
        BY Zenon DEF TlsInv, Validated, Connecting
      <3>2. hello' = hello
        BY <1>3, <3>1, Zenon
      <3> QED  BY <3>1, <3>2, Zenon DEF validateState, validateState13, validateState12,
                                 validateStateMutual, validateStateChaCha20, expectResume
    <2>3. tlsExit' = 0 => phaseClean' \/ task'.validationOnly
      BY Zenon DEF TlsInv, Validated, phaseClean
    <2> QED  BY <1>2, <2>1, <2>2, <2>3, Zenon DEF TlsInv, Validated
  <1>5. Faultless'
    <2> SUFFICES ASSUME task'.peer = "packaged", ~fault'
                 PROVE  /\ OnTrack' /\ SingleUse' /\ tlsExit' # 1
                        /\ hello' # << >> => hello'[1].right /\ (hello'[1].resumed <=> offered')
                        /\ tally'.failed = 0 /\ tally'.timedOut = 0
      BY Zenon DEF Faultless
    <2>1. task.peer = "packaged" /\ ~fault
      BY Zenon
    <2>2. /\ SingleUse /\ tlsExit # 1
          /\ hello # << >> => hello[1].right /\ (hello[1].resumed <=> offered)
          /\ tally.failed = 0 /\ tally.timedOut = 0
      BY <2>1, Zenon DEF TlsInv, Faultless
    <2>3. hello' # << >> => hello'[1].right /\ (hello'[1].resumed <=> offered')
      BY <2>2 DEF Flight
    <2>4. SingleUse'
      BY <2>2, Zenon DEF SingleUse, expectResume, consumedOnce
    <2> QED  BY <2>2, <2>3, <2>4, Zenon
  <1> QED  BY <1>1, <1>4, <1>5, Zenon DEF TlsInv

(* The packaged target sends its flight, and the TLS 1.3 target a ticket. *)
LEMMA TargetHelloInv == TlsInv /\ task.peer = "packaged" /\ TargetHello => TlsInv'
  <1> SUFFICES ASSUME TlsInv, task.peer = "packaged", TargetHello PROVE TlsInv'
    BY Zenon
  <1>1. UNCHANGED clientVars /\ UNCHANGED << toServer, served, fault >>
        /\ toClient' = toClient \o Tickets
    BY Zenon DEF TargetHello, Reply, Tickets
  <1>2. fault' \in BOOLEAN /\ offered \in BOOLEAN
    BY <1>1, Zenon DEF TlsInv, TlsTypeOK
  <1>3. hello = << >> /\ hello' = Flight(TRUE, offered)
    BY Zenon DEF TargetHello
  <1>4. \E h \in States : hello = << >> /\ hello' = << h >> /\ (h.resumed => offered)
    <2> DEFINE h == [right |-> TRUE, resumed |-> offered]
    <2>1. h \in States
      BY <1>2, Zenon DEF States
    <2> QED  BY <1>3, <2>1, Zenon DEF Flight
  <1>5. ~fault' => OnTrack'
    <2> SUFFICES ASSUME ~fault' PROVE OnTrack'
      BY Zenon
    <2>1. OnTrack
      BY <1>1, Zenon DEF TlsInv, Faultless
    <2>2. CASE step = "flight"
      <3>1. toClient = << >> /\ toServer = << >> /\ served = "listening"
        BY <1>3, <2>1, <2>2, Zenon DEF OnTrack, Listening
      <3>2. << >> \o << >> = << >>
        OBVIOUS
      <3>3. toClient' = Tickets
        BY <1>1, <3>1, <3>2, OntoEmpty, Zenon DEF Tickets
      <3>4. Tickets' = Tickets /\ step' = "flight"
        BY <1>1, <2>2, Zenon DEF Tickets, clientVars
      <3>5. hello' # << >>
        BY <1>4, TailOfThree, Zenon
      <3> QED  BY <1>1, <3>1, <3>3, <3>4, <3>5, Zenon DEF OnTrack, Listening
    <2>3. CASE step \notin Connecting
      BY <1>1, <2>3, Zenon DEF OnTrack, Connecting, clientVars
    <2>4. step \in Connecting => step = "flight"
      BY <1>3, Zenon DEF TlsInv, Validated
    <2> QED  BY <2>2, <2>3, <2>4, Zenon
  <1> QED  BY <1>1, <1>2, <1>3, <1>4, <1>5, PeerStepInv, Zenon

(* What the targets answer to the client's Finished, by kind. *)
LEMMA TargetFinishedCases ==
  ASSUME TlsTypeOK, TargetFinished
  PROVE  /\ finishedNext /\ toServer' = Tail(toServer)
         /\ UNCHANGED clientVars /\ UNCHANGED << hello, fault >>
         /\ task.kind \in RecordKinds => toClient' = toClient /\ served' = "reading"
         /\ task.kind \in {"full", "resumed"} =>
              toClient' = toClient \o << "close" >> /\ served' = "closed"
         /\ task.kind = "tls12" => toClient' = toClient \o << "finished" >> /\ served' = "reading"
         /\ task.kind \in {"mtls", "chacha20"} => toClient' = toClient /\ served' = "reading"
  <1>1. /\ finishedNext /\ toServer' = Tail(toServer)
        /\ UNCHANGED clientVars /\ UNCHANGED << hello, fault >>
    BY Zenon DEF TargetFinished
  <1>2. CASE task.kind \in Tls13Kinds
    <2>1. handle13
      BY <1>2, Zenon DEF TargetFinished, Tls13Kinds
    <2> QED  BY <1>1, <1>2, <2>1, Zenon DEF handle13, Reply, RecordKinds, Tls13Kinds
  <1>3. CASE task.kind = "tls12"
    <2>1. handle12
      BY <1>3, Zenon DEF TargetFinished, Tls13Kinds
    <2> QED  BY <1>1, <1>3, <2>1, Zenon DEF handle12, Reply, RecordKinds
  <1>4. CASE task.kind = "mtls"
    <2>1. handleMutual
      BY <1>4, Zenon DEF TargetFinished, Tls13Kinds
    <2> QED  BY <1>1, <1>4, <2>1, Zenon DEF handleMutual, RecordKinds
  <1>5. CASE task.kind = "chacha20"
    <2>1. handleChaCha20
      BY <1>5, Zenon DEF TargetFinished, Tls13Kinds
    <2> QED  BY <1>1, <1>5, <2>1, Zenon DEF handleChaCha20, RecordKinds
  <1> QED  BY <1>2, <1>3, <1>4, <1>5, Zenon DEF TlsTypeOK, TlsTasks, TlsKinds

(* The target reads Finished: a close or its own Finished goes out. *)
LEMMA TargetFinishedInv == TlsInv /\ task.peer = "packaged" /\ TargetFinished => TlsInv'
  <1> SUFFICES ASSUME TlsInv, task.peer = "packaged", TargetFinished PROVE TlsInv'
    BY Zenon
  <1>1. /\ finishedNext /\ toServer' = Tail(toServer)
        /\ UNCHANGED clientVars /\ UNCHANGED << hello, fault >>
        /\ task.kind \in RecordKinds => toClient' = toClient /\ served' = "reading"
        /\ task.kind \in {"full", "resumed"} =>
             toClient' = toClient \o << "close" >> /\ served' = "closed"
        /\ task.kind = "tls12" => toClient' = toClient \o << "finished" >> /\ served' = "reading"
        /\ task.kind \in {"mtls", "chacha20"} => toClient' = toClient /\ served' = "reading"
    BY TargetFinishedCases, Zenon DEF TlsInv
  <1>2. fault' \in BOOLEAN
    BY <1>1, Zenon DEF TlsInv, TlsTypeOK
  <1>3. ASSUME ~fault' PROVE OnTrack'
    <2>1. OnTrack
      BY <1>1, <1>3, Zenon DEF TlsInv, Faultless
    <2>2. task'.kind = task.kind /\ step' = step /\ cache' = cache /\ (fromServer' <=> fromServer)
      BY <1>1, Zenon DEF clientVars, fromServer
    <2>3. served = "listening" /\ toServer # << >>
      BY <1>1, Zenon DEF finishedNext
    <2>4. task.kind \in TlsKinds
      BY Zenon DEF TlsInv, TlsTypeOK, TlsTasks
    <2>5. Tail(<< "finished" >>) = << >> /\ Tail(<< "finished", "command" >>) = << "command" >>
      BY TailOfThree
    <2>6. << >> \o << "close" >> = << "close" >> /\ << >> \o << "finished" >> = << "finished" >>
          /\ << "ticket" >> \o << "close" >> = << "ticket", "close" >>
      BY OntoEmpty, OneThenOne, Zenon
    <2>7. step = "flight" => FALSE
      BY <2>1, <2>3, Zenon DEF OnTrack, Listening
    <2>8. CASE step = "await"
      <3>1. toServer = << "finished" >> /\ toClient = << >>
        BY <2>1, <2>3, <2>8, Zenon DEF OnTrack, Listening
      <3>2. task.kind = "tls12"
        BY <2>8, Zenon DEF TlsInv, Validated
      <3> QED  BY <1>1, <2>2, <2>5, <2>6, <2>8, <3>1, <3>2, Zenon DEF OnTrack
    <2>9. CASE step = "validate"
      <3>1. toServer = << "finished" >> /\ toClient = Tickets /\ task.kind # "tls12"
        BY <2>1, <2>3, <2>9, Zenon DEF OnTrack, Listening
      <3>2. CASE task.kind \in Tls13Kinds
        <4>1. toClient = << "ticket" >>
          BY <3>1, <3>2, Zenon DEF Tickets
        <4> QED  BY <1>1, <2>2, <2>5, <2>6, <2>9, <3>1, <3>2, <4>1, Zenon
                 DEF OnTrack, Tls13Kinds, RecordKinds
      <3>3. CASE task.kind \notin Tls13Kinds
        <4>1. toClient = << >>
          BY <3>1, <3>3, Zenon DEF Tickets
        <4> QED  BY <1>1, <2>2, <2>4, <2>5, <2>9, <3>1, <3>3, <4>1, Zenon
                 DEF OnTrack, TlsKinds, Tls13Kinds
      <3> QED  BY <3>2, <3>3, Zenon
    <2>10. CASE step = "drain"
      <3>1. /\ toServer = << "finished" >>
            /\ toClient = << "ticket" >> \/ (toClient = << >> /\ cache.session)
        BY <2>1, <2>3, <2>10, Zenon DEF OnTrack, Listening
      <3>2. task.kind = "resumed"
        BY <2>10, Zenon DEF TlsInv, Validated
      <3> QED  BY <1>1, <2>2, <2>5, <2>6, <2>10, <3>1, <3>2, Zenon DEF OnTrack
    <2>11. CASE step = "upload"
      <3>1. toServer = << "finished", "command" >> /\ toClient = << "ticket" >> /\ ~fromServer
        BY <2>1, <2>3, <2>11, Zenon DEF OnTrack, Listening
      <3>2. task.kind \in RecordKinds
        BY <2>11, Zenon DEF TlsInv, Validated
      <3> QED  BY <1>1, <2>2, <2>5, <2>6, <2>11, <3>1, <3>2, Zenon DEF OnTrack
    <2>12. CASE step = "transfer"
      <3>1. /\ toServer = << "finished", "command" >> /\ fromServer
            /\ toClient \in {<< "ticket" >>, << >>}
        BY <2>1, <2>3, <2>12, Zenon DEF OnTrack, Listening
      <3>2. task.kind \in RecordKinds
        BY <2>12, Zenon DEF TlsInv, Validated
      <3> QED  BY <1>1, <2>2, <2>5, <2>6, <2>12, <3>1, <3>2, Zenon DEF OnTrack
    <2>13. CASE step \notin Connecting
      BY <2>2, <2>13, Zenon DEF OnTrack, Connecting
    <2> QED  BY <2>7, <2>8, <2>9, <2>10, <2>11, <2>12, <2>13, Zenon DEF Connecting
  <1> QED  BY <1>1, <1>2, <1>3, PeerStepInv, Zenon

(* What serveRecordOperation does with the message it reads. *)
LEMMA serveCases ==
  ASSUME serveRecordOperation
  PROVE  /\ served = "reading" /\ toServer # << >> /\ toServer' = Tail(toServer)
         /\ UNCHANGED clientVars /\ UNCHANGED << hello, fault >>
         /\ Head(toServer) = "command" /\ fromServer =>
              toClient' = toClient \o << "data", "close" >> /\ served' = "closed"
         /\ Head(toServer) = "command" /\ ~fromServer => UNCHANGED << toClient, served >>
         /\ Head(toServer) = "payload" =>
              toClient' = toClient \o << "ack", "close" >> /\ served' = "closed"
  <1>1. /\ served = "reading" /\ toServer # << >> /\ toServer' = Tail(toServer)
        /\ UNCHANGED clientVars /\ UNCHANGED << hello, fault >>
    BY Zenon DEF serveRecordOperation
  <1>2. CASE Head(toServer) = "command" /\ fromServer
    BY <1>1, <1>2, Zenon DEF serveRecordOperation, Reply
  <1>3. CASE Head(toServer) = "command" /\ ~fromServer
    BY <1>1, <1>3, Zenon DEF serveRecordOperation
  <1>4. CASE Head(toServer) = "payload"
    BY <1>1, <1>4, Zenon DEF serveRecordOperation, Reply
  <1> QED  BY <1>1, <1>2, <1>3, <1>4, Zenon

(* The target serves a record operation. *)
LEMMA serveRecordOperationInv == TlsInv /\ task.peer = "packaged" /\ serveRecordOperation => TlsInv'
  <1> SUFFICES ASSUME TlsInv, task.peer = "packaged", serveRecordOperation PROVE TlsInv'
    BY Zenon
  <1>1. /\ served = "reading" /\ toServer # << >> /\ toServer' = Tail(toServer)
        /\ UNCHANGED clientVars /\ UNCHANGED << hello, fault >>
        /\ Head(toServer) = "command" /\ fromServer =>
             toClient' = toClient \o << "data", "close" >> /\ served' = "closed"
        /\ Head(toServer) = "command" /\ ~fromServer => UNCHANGED << toClient, served >>
        /\ Head(toServer) = "payload" =>
             toClient' = toClient \o << "ack", "close" >> /\ served' = "closed"
    BY serveCases, Zenon
  <1>2. fault' \in BOOLEAN
    BY <1>1, Zenon DEF TlsInv, TlsTypeOK
  <1>3. ASSUME ~fault' PROVE OnTrack'
    <2>1. OnTrack
      BY <1>1, <1>3, Zenon DEF TlsInv, Faultless
    <2>2. /\ task'.kind = task.kind /\ step' = step /\ cache' = cache
          /\ (fromServer' <=> fromServer) /\ tlsAwaited' = tlsAwaited
      BY <1>1, Zenon DEF clientVars, fromServer, tlsAwaited
    <2>3. /\ Tail(<< "command" >>) = << >> /\ Tail(<< "payload" >>) = << >>
          /\ Head(<< "command" >>) = "command" /\ Head(<< "payload" >>) = "payload"
      BY TailOfThree, Zenon
    <2>4. \A a : << >> \o << a, "close" >> = << a, "close" >>
                 /\ << "ticket" >> \o << a, "close" >> = << "ticket", a, "close" >>
      BY OntoEmpty, OneThenTwo, Zenon
    <2>5. step \notin {"flight", "await", "validate", "drain"}
      BY <1>1, <2>1, Zenon DEF OnTrack, Listening
    <2>6. CASE step = "upload"
      <3>1. toServer = << "command" >> /\ toClient = << "ticket" >> /\ ~fromServer
        BY <1>1, <2>1, <2>6, Zenon DEF OnTrack, Listening
      <3> QED  BY <1>1, <2>2, <2>3, <2>6, <3>1, Zenon DEF OnTrack
    <2>7. CASE step = "transfer"
      <3>1. /\ toServer = << IF fromServer THEN "command" ELSE "payload" >>
            /\ toClient \in {<< "ticket" >>, << >>}
        BY <1>1, <2>1, <2>7, Zenon DEF OnTrack, Listening
      <3>2. /\ toServer' = << >> /\ served' = "closed"
            /\ toClient' = toClient \o << tlsAwaited, "close" >>
        BY <1>1, <2>3, <3>1, Zenon DEF tlsAwaited
      <3>3. toClient' \in {<< "ticket", tlsAwaited, "close" >>, << tlsAwaited, "close" >>}
        BY <2>4, <3>1, <3>2, Zenon
      <3> QED  BY <2>2, <2>7, <3>2, <3>3, Zenon DEF OnTrack
    <2>8. CASE step \notin Connecting
      BY <2>2, <2>8, Zenon DEF OnTrack, Connecting
    <2> QED  BY <2>5, <2>6, <2>7, <2>8, Zenon DEF Connecting
  <1> QED  BY <1>1, <1>2, <1>3, PeerStepInv, Zenon

(* The target's deadline is a fault. *)
LEMMA TargetDeadlineInv == TlsInv /\ TargetDeadline => TlsInv'
  <1> SUFFICES ASSUME TlsInv, TargetDeadline PROVE TlsInv'
    BY Zenon
  <1>1. UNCHANGED clientVars /\ hello' = hello /\ fault'
    BY Zenon DEF TargetDeadline
  <1>2. fault' \in BOOLEAN
    BY Zenon DEF TargetDeadline
  <1> QED  BY <1>1, <1>2, PeerStepInv, Zenon

(* A peer under test resumes only what was offered. *)
LEMMA ForeignStepInv == TlsInv /\ ForeignStep => TlsInv'
  <1> SUFFICES ASSUME TlsInv, ForeignStep PROVE TlsInv'
    BY Zenon
  <1>1. UNCHANGED clientVars /\ fault' = fault /\ task.peer = "foreign"
    BY Zenon DEF ForeignStep
  <1>2. fault' \in BOOLEAN /\ offered \in BOOLEAN
    BY <1>1, Zenon DEF TlsInv, TlsTypeOK
  <1>3. \/ hello' = hello
        \/ \E h \in States : hello = << >> /\ hello' = << h >> /\ (h.resumed => offered)
    <2>1. hello' = hello \/ (hello = << >> /\ \E right \in BOOLEAN, resumed \in {FALSE, offered} :
                                                hello' = Flight(right, resumed))
      BY Zenon DEF ForeignStep
    <2>2. ASSUME hello = << >>, NEW right \in BOOLEAN, NEW resumed \in {FALSE, offered},
                 hello' = Flight(right, resumed)
          PROVE  \E h \in States : hello = << >> /\ hello' = << h >> /\ (h.resumed => offered)
      <3> DEFINE h == [right |-> right, resumed |-> resumed]
      <3>1. right \in BOOLEAN /\ resumed \in BOOLEAN /\ (resumed => offered)
        <4>1. CASE resumed = FALSE
          BY <2>2, <4>1, Zenon
        <4>2. CASE resumed = offered
          BY <1>2, <2>2, <4>2, Zenon
        <4> QED  BY <2>2, <4>1, <4>2, Zenon
      <3>2. h \in States /\ (h.resumed => offered)
        BY <3>1, Zenon DEF States
      <3> QED  BY <2>2, <3>2, Zenon DEF Flight
    <2> QED  BY <2>1, <2>2, Zenon
  <1> QED  BY <1>1, <1>2, <1>3, PeerStepInv, Zenon

-----------------------------------------------------------------------------
(* The identity gate. *)
LEMMA TlsGateInv == TlsInv /\ TlsGate => TlsInv'
  <1> SUFFICES ASSUME TlsInv, TlsGate PROVE TlsInv'
    BY Zenon
  <1>1. /\ step = "gate" /\ task' = task /\ period' = period /\ round' = round /\ tally' = tally
        /\ cache' = cache /\ offered' = offered /\ hello' = hello /\ astray' = astray
        /\ fault' = fault
    BY Zenon DEF TlsGate, connVars
  <1>2. \/ step' = "exit" /\ tlsExit' \in {2, 3}
        \/ step' = "dial" /\ tlsExit' = tlsExit
    <2>1. task.identity \in {"unsupported", "other", "exact"}
      BY Zenon DEF TlsInv, TlsTypeOK, TlsTasks
    <2>2. CASE task.identity = "unsupported"
      BY <2>2, Zenon DEF TlsGate, TlsExit
    <2>3. CASE task.identity = "other"
      BY <2>3, Zenon DEF TlsGate, TlsExit
    <2>4. CASE task.identity = "exact"
      BY <2>4, Zenon DEF TlsGate
    <2> QED  BY <2>1, <2>2, <2>3, <2>4, Zenon
  <1>3. tlsExit = NoCode /\ NoCode \notin {0, 1}
    BY <1>1 DEF TlsInv, Validated, NoCode
  <1>4. TlsTypeOK'
    <2>1. step' \in {"gate", "phase", "dial", "exit"} \cup Connecting
      BY <1>2, Zenon
    <2> QED  BY <1>1, <2>1, Zenon DEF TlsInv, TlsTypeOK
  <1>5. Validated'
    <2>1. tlsExit' # 0 /\ (step' # "exit" => tlsExit' = NoCode)
      BY <1>2, <1>3
    <2>2. step' \in {"dial", "exit"}
      BY <1>2, Zenon
    <2> QED  BY <1>1, <2>1, <2>2, Zenon DEF TlsInv, Validated, Connecting
  <1>6. Faultless'
    <2> SUFFICES ASSUME task.peer = "packaged", ~fault PROVE OnTrack' /\ SingleUse' /\ tlsExit' # 1
      BY <1>1, Zenon DEF TlsInv, Faultless
    <2>1. OnTrack'
      BY <1>2, Zenon DEF OnTrack
    <2>2. SingleUse'
      <3>1. round = 1 /\ cache = emptyCache
        BY <1>1, Zenon DEF TlsInv, Faultless, SingleUse, Connecting
      <3> QED  BY <1>1, <1>2, <3>1 DEF SingleUse, Connecting
    <2> QED  BY <1>2, <1>3, <2>1, <2>2
  <1> QED  BY <1>4, <1>5, <1>6, Zenon DEF TlsInv

(* The next operation of a phase. *)
LEMMA runPhaseInv == TlsInv /\ runPhase => TlsInv'
  <1> SUFFICES ASSUME TlsInv, runPhase PROVE TlsInv'
    BY Zenon
  <1>1. /\ step = "phase" /\ task' = task /\ period' = period /\ round' = round /\ tally' = tally
        /\ cache' = cache /\ offered' = offered /\ hello' = hello /\ astray' = astray
        /\ fault' = fault /\ step' = "dial" /\ tlsExit' = tlsExit
    BY Zenon DEF runPhase, connVars
  <1>2. TlsTypeOK'
    <2>1. step' \in {"gate", "phase", "dial", "exit"} \cup Connecting
      BY <1>1, Zenon
    <2> QED  BY <1>1, <2>1, Zenon DEF TlsInv, TlsTypeOK
  <1>3. Validated'
    <2>1. tlsExit' = NoCode /\ tlsExit' # 0
      BY <1>1 DEF TlsInv, Validated, NoCode
    <2> QED  BY <1>1, <2>1, Zenon DEF TlsInv, Validated, Connecting
  <1>4. Faultless'
    <2> SUFFICES ASSUME task.peer = "packaged", ~fault PROVE OnTrack' /\ SingleUse'
      BY <1>1, Zenon DEF TlsInv, Faultless
    <2>1. OnTrack'
      BY <1>1, Zenon DEF OnTrack
    <2>2. SingleUse'
      <3>1. round = 1 /\ cache = emptyCache
        BY <1>1, Zenon DEF TlsInv, Faultless, SingleUse, Connecting
      <3> QED  BY <1>1, <3>1 DEF SingleUse, Connecting
    <2> QED  BY <2>1, <2>2, Zenon
  <1> QED  BY <1>2, <1>3, <1>4, Zenon DEF TlsInv

(* The end of a phase: a clean one goes on or exits 0. *)
LEMMA PhaseEndsInv == TlsInv /\ PhaseEnds => TlsInv'
  <1> SUFFICES ASSUME TlsInv, PhaseEnds PROVE TlsInv'
    BY Zenon
  <1>1. /\ step = "phase" /\ task' = task /\ round' = round
        /\ cache' = cache /\ offered' = offered /\ hello' = hello
        /\ fault' = (fault \/ Ops = 0)
        /\ astray' = (astray /\ (period = "measured" \/ task.kind \in Tls13Kinds))
    BY Zenon DEF PhaseEnds, connVars
  <1>2. \/ /\ step' = "exit" /\ period' = period /\ tally' = tally
           /\ \/ phaseClean /\ tlsExit' = 0
              \/ ~phaseClean /\ tlsExit' = 1
        \/ step' = "phase" /\ period' = "measured" /\ tally' = emptyTally /\ tlsExit' = tlsExit
    <2>1. CASE period = "measured"
      BY <2>1, Zenon DEF PhaseEnds, TlsExit
    <2>2. CASE period = "warmup" /\ warmupGate
      BY <2>2, Zenon DEF PhaseEnds, StartStage
    <2>3. CASE period = "warmup" /\ ~warmupGate
      BY <2>3, Zenon DEF PhaseEnds, TlsExit, warmupGate
    <2>4. period \in {"measured", "warmup"}
      BY <1>1, Zenon DEF TlsInv, TlsTypeOK, Validated
    <2> QED  BY <2>1, <2>2, <2>3, <2>4, Zenon
  <1>3. tlsExit = NoCode /\ NoCode \notin {0, 1} /\ tally \in Tallies /\ ~astray
    BY <1>1 DEF TlsInv, TlsTypeOK, Validated, NoCode
  <1>4. TlsTypeOK'
    <2>1. step' \in {"gate", "phase", "dial", "exit"} \cup Connecting
      BY <1>2, Zenon
    <2>2. period' \in {"preflight", "warmup", "measured"}
      BY <1>2, Zenon DEF TlsInv, TlsTypeOK
    <2>3. tally' \in Tallies
      BY <1>2, <1>3 DEF emptyTally, Tallies
    <2>4. astray' \in BOOLEAN /\ fault' \in BOOLEAN
      BY <1>1, Zenon
    <2> QED  BY <1>1, <2>1, <2>2, <2>3, <2>4, Zenon DEF TlsInv, TlsTypeOK
  <1>5. Validated'
    <2>1. step' # "exit" => tlsExit' = NoCode
      BY <1>2, <1>3, Zenon
    <2>2. tlsExit' = 0 => phaseClean'
      <3>1. tlsExit' = 0 => phaseClean /\ tally' = tally
        BY <1>2, <1>3
      <3> QED  BY <3>1, Zenon DEF phaseClean
    <2>3. step' \in {"phase", "exit"} /\ (step' = "phase" => period' # "preflight")
      BY <1>2, Zenon
    <2>4. ~astray'
      BY <1>1, <1>3, Zenon
    <2> QED  BY <1>1, <2>1, <2>2, <2>3, <2>4, Zenon DEF TlsInv, Validated, Connecting
  <1>6. Faultless'
    <2> SUFFICES ASSUME task.peer = "packaged", ~fault'
                 PROVE  /\ OnTrack' /\ SingleUse' /\ tlsExit' # 1
                        /\ hello' # << >> => hello'[1].right /\ (hello'[1].resumed <=> offered')
                        /\ tally'.failed = 0 /\ tally'.timedOut = 0
      BY <1>1, Zenon DEF Faultless
    <2>1. ~fault /\ Ops # 0
      BY <1>1, Zenon
    <2>2. /\ SingleUse /\ tally.failed = 0 /\ tally.timedOut = 0
          /\ hello # << >> => hello[1].right /\ (hello[1].resumed <=> offered)
      BY <2>1, Zenon DEF TlsInv, Faultless
    <2>3. phaseClean
      BY <1>3, <2>1, <2>2 DEF phaseClean, Ops, Tallies
    <2>4. OnTrack'
      BY <1>2, Zenon DEF OnTrack
    <2>5. SingleUse'
      <3>1. round = 1 /\ cache = emptyCache
        BY <1>1, <2>2, Zenon DEF SingleUse, Connecting
      <3> QED  BY <1>1, <1>2, <3>1, Zenon DEF SingleUse, Connecting
    <2>6. tlsExit' # 1
      BY <1>2, <1>3, <2>3
    <2>7. tally'.failed = 0 /\ tally'.timedOut = 0
      BY <1>2, <2>2 DEF emptyTally
    <2> QED  BY <1>1, <2>2, <2>4, <2>5, <2>6, <2>7, Zenon
  <1> QED  BY <1>4, <1>5, <1>6, Zenon DEF TlsInv

(* A new connection takes the ticket, if there is one. *)
LEMMA TlsDialInv == TlsInv /\ TlsDial => TlsInv'
  <1> SUFFICES ASSUME TlsInv, TlsDial PROVE TlsInv'
    BY Zenon
  <1>1. /\ step = "dial" /\ step' = "flight" /\ task' = task /\ period' = period /\ round' = round
        /\ tally' = tally /\ tlsExit' = tlsExit /\ astray' = astray /\ fault' = fault
        /\ offered' = (task.kind = "resumed" /\ cache.session)
        /\ cache' = IF task.kind = "resumed" THEN Get(cache) ELSE cache
        /\ hello' = << >> /\ toServer' = << >> /\ toClient' = << >> /\ served' = "listening"
    BY Zenon DEF TlsDial
  <1>2. /\ cache \in Caches /\ Get(cache) \in Caches
        /\ Get(cache).session = FALSE /\ Get(cache).gets = cache.gets + 1
        /\ cache.session => Get(cache).hits = cache.hits + 1
        /\ ~cache.session => Get(cache).hits = cache.hits
    <2>1. cache \in Caches
      BY Zenon DEF TlsInv, TlsTypeOK
    <2>2. GetKeeps(cache) \in Caches
      <3> DEFINE n == cache.gets + 1  k == IF cache.session THEN cache.hits + 1 ELSE cache.hits
      <3>1. n \in Nat /\ k \in Nat
        BY <2>1 DEF Caches
      <3>2. GetKeeps(cache) = [cache EXCEPT !.gets = n, !.hits = k]
        BY <2>1, Zenon DEF GetKeeps, Caches
      <3> HIDE DEF n, k
      <3> QED  BY <2>1, <3>1, <3>2, Zenon DEF Caches
    <2>3. /\ GetKeeps(cache).gets = cache.gets + 1
          /\ cache.session => GetKeeps(cache).hits = cache.hits + 1
          /\ ~cache.session => GetKeeps(cache).hits = cache.hits
      BY <2>1, Zenon DEF GetKeeps, Caches
    <2>4. Get(cache) \in Caches
      BY <2>2, Zenon DEF Get, Caches
    <2>5. /\ Get(cache).session = FALSE /\ Get(cache).gets = GetKeeps(cache).gets
          /\ Get(cache).hits = GetKeeps(cache).hits
      BY <2>2, Zenon DEF Get, Caches
    <2> QED  BY <2>1, <2>3, <2>4, <2>5, Zenon
  <1>3. TlsTypeOK'
    <2>1. step' \in {"gate", "phase", "dial", "exit"} \cup Connecting
      BY <1>1, Zenon DEF Connecting
    <2>2. offered' \in BOOLEAN
      BY <1>1, Zenon
    <2>3. cache' \in Caches
      BY <1>1, <1>2, Zenon
    <2> QED  BY <1>1, <2>1, <2>2, <2>3, Zenon DEF TlsInv, TlsTypeOK
  <1>4. Validated'
    <2>1. tlsExit' = NoCode /\ tlsExit' # 0
      BY <1>1 DEF TlsInv, Validated, NoCode
    <2> QED  BY <1>1, <2>1, Zenon DEF TlsInv, Validated, Connecting
  <1>5. Faultless'
    <2> SUFFICES ASSUME task.peer = "packaged", ~fault PROVE OnTrack' /\ SingleUse'
      BY <1>1, Zenon DEF TlsInv, Faultless
    <2>1. OnTrack'
      BY <1>1, Zenon DEF OnTrack, Listening
    <2>2. IF task.kind = "resumed" /\ round = 2
          THEN cache.session /\ cache.gets = 1 /\ cache.hits = 0
          ELSE cache = emptyCache
      BY <1>1, Zenon DEF TlsInv, Faultless, SingleUse
    <2>3. /\ emptyCache.session = FALSE /\ emptyCache.gets = 0 /\ emptyCache.hits = 0
      BY Zenon DEF emptyCache
    <2>4. offered' <=> expectResume'
      BY <1>1, <2>2, <2>3, Zenon DEF expectResume
    <2>5. step' \in Connecting /\ step' # "drain" /\ step' # "dial"
      BY <1>1, Zenon DEF Connecting
    <2>6. task'.kind # "resumed" => cache' = emptyCache
      BY <1>1, <2>2, Zenon
    <2>7. task'.kind = "resumed" =>
            IF round' = 1 THEN cache'.gets = 1 /\ cache'.hits = 0 /\ ~cache'.session
            ELSE round' = 2 /\ consumedOnce(cache)'
      <3>1. CASE task.kind = "resumed" /\ round = 2
        BY <1>1, <1>2, <2>2, <3>1 DEF consumedOnce
      <3>2. CASE task.kind = "resumed" /\ round # 2
        <4>1. round = 1
          BY <1>1, <3>2, Zenon DEF TlsInv, Faultless, SingleUse
        <4> QED  BY <1>1, <1>2, <2>2, <2>3, <3>2, <4>1
      <3> QED  BY <1>1, <3>1, <3>2, Zenon
    <2> QED  BY <2>1, <2>4, <2>5, <2>6, <2>7, Zenon DEF SingleUse
  <1> QED  BY <1>3, <1>4, <1>5, Zenon DEF TlsInv

-----------------------------------------------------------------------------
(* A step within a connection that counts nothing. *)
LEMMA ProceedInv ==
  ASSUME TlsInv, step \in Connecting \ {"drain"}, step' \in Connecting \ {"flight"},
         UNCHANGED << task, period, round, tally, cache, offered, hello, tlsExit, fault >>,
         ~astray', astray' \in BOOLEAN, hello # << >>,
         step' \in {"drain", "upload", "transfer"} => validateState(hello[1]),
         step' = "drain" => task.kind = "resumed" /\ round = 1,
         step' \in {"upload", "transfer"} => task.kind \in RecordKinds,
         step' = "await" => task.kind = "tls12",
         task.peer = "packaged" /\ ~fault => OnTrack'
  PROVE  TlsInv'
  <1>1. TlsTypeOK'
    <2>1. step' \in {"gate", "phase", "dial", "exit"} \cup Connecting
      BY Zenon
    <2>2. /\ task' = task /\ period' = period /\ round' = round /\ tally' = tally
          /\ cache' = cache /\ offered' = offered /\ hello' = hello /\ fault' = fault
      BY Zenon
    <2> QED  BY <2>1, <2>2, Zenon DEF TlsInv, TlsTypeOK
  <1>2. Validated'
    <2>1. tlsExit' = NoCode /\ tlsExit' # 0
      BY DEF TlsInv, Validated, NoCode, Connecting
    <2>2. validateState(hello[1])' <=> validateState(hello[1])
      BY Zenon DEF validateState, validateState13, validateState12, validateStateMutual,
                   validateStateChaCha20, expectResume
    <2>3. step' # "phase"
      BY Zenon DEF Connecting
    <2> QED  BY <2>1, <2>2, <2>3, Zenon DEF TlsInv, Validated
  <1>3. Faultless'
    <2> SUFFICES ASSUME task.peer = "packaged", ~fault PROVE SingleUse'
      BY Zenon DEF TlsInv, Faultless
    <2>1. SingleUse
      BY Zenon DEF TlsInv, Faultless
    <2>2. step' # "dial" /\ step # "dial"
      BY Zenon DEF Connecting
    <2>3. offered' <=> expectResume'
      BY <2>1, Zenon DEF SingleUse, expectResume
    <2>4. task'.kind # "resumed" => cache' = emptyCache
      BY <2>1, Zenon DEF SingleUse
    <2>5. task'.kind = "resumed" =>
            IF round' = 1 THEN cache'.gets = 1 /\ cache'.hits = 0 /\ ~cache'.session
            ELSE round' = 2 /\ consumedOnce(cache)'
      BY <2>1, Zenon DEF SingleUse, consumedOnce
    <2> QED  BY <2>2, <2>3, <2>4, <2>5, Zenon DEF SingleUse
  <1> QED  BY <1>1, <1>2, <1>3, Zenon DEF TlsInv

(* The client's half of the handshake. *)
LEMMA HandshakeContextInv == TlsInv /\ HandshakeContext => TlsInv'
  <1> SUFFICES ASSUME TlsInv, HandshakeContext PROVE TlsInv'
    BY Zenon
  <1>1. /\ UNCHANGED << task, period, round, tally, cache, offered, hello, tlsExit, fault >>
        /\ hello # << >> /\ astray' = astray /\ served' = served
    BY Zenon DEF HandshakeContext
  <1>2. ~astray' /\ astray' \in BOOLEAN
    BY <1>1, Zenon DEF TlsInv, Validated, TlsTypeOK
  <1>3. CASE /\ step = "flight" /\ Send("finished") /\ UNCHANGED toClient
             /\ step' = IF task.kind = "tls12" THEN "await" ELSE "validate"
    <2>1. ASSUME task.peer = "packaged", ~fault PROVE OnTrack'
      <3>1. Listening(<< >>, Tickets)
        BY <1>1, <1>3, <2>1, Zenon DEF TlsInv, Faultless, OnTrack
      <3>2. toServer' = << "finished" >>
        BY <1>3, <3>1, OntoEmpty, Zenon DEF Send, Listening
      <3>3. Tickets' = Tickets /\ (task.kind = "tls12" => Tickets = << >>)
        BY <1>1, Zenon DEF Tickets, Tls13Kinds
      <3> QED  BY <1>1, <1>3, <3>1, <3>2, <3>3, Zenon DEF OnTrack, Listening
    <2> QED  BY <1>1, <1>2, <1>3, <2>1, ProceedInv, Zenon DEF Connecting
  <1>4. CASE /\ step = "await" /\ toClient # << >> /\ Head(toClient) = "finished"
             /\ toClient' = Tail(toClient) /\ step' = "validate" /\ UNCHANGED toServer
    <2>1. ASSUME task.peer = "packaged", ~fault PROVE OnTrack'
      <3>1. served = "reading" /\ toServer = << >> /\ toClient = << "finished" >>
        BY <1>4, <2>1, Zenon DEF TlsInv, Faultless, OnTrack, Listening
      <3>2. toClient' = << >>
        BY <1>4, <3>1, TailOfThree, Zenon
      <3>3. task'.kind = "tls12"
        BY <1>1, <1>4, Zenon DEF TlsInv, Validated
      <3> QED  BY <1>1, <1>4, <3>1, <3>2, <3>3, Zenon DEF OnTrack, Tls13Kinds
    <2> QED  BY <1>1, <1>2, <1>4, <2>1, ProceedInv, Zenon DEF Connecting
  <1> QED  BY <1>3, <1>4, Zenon DEF HandshakeContext

(* The payload goes out once the command has been read. *)
LEMMA TlsUploadInv == TlsInv /\ TlsUpload => TlsInv'
  <1> SUFFICES ASSUME TlsInv, TlsUpload PROVE TlsInv'
    BY Zenon
  <1>1. /\ UNCHANGED << task, period, round, tally, cache, offered, hello, tlsExit, fault >>
        /\ astray' = astray /\ served' = served /\ toClient' = toClient
        /\ step = "upload" /\ step' = "transfer" /\ toServer' = Append(toServer, "payload")
        /\ toServer = << >> \/ served = "closed"
    BY Zenon DEF TlsUpload, Send
  <1>2. ~astray' /\ astray' \in BOOLEAN
    BY <1>1, Zenon DEF TlsInv, Validated, TlsTypeOK
  <1>3. hello # << >> /\ validateState(hello[1]) /\ task.kind \in RecordKinds
    BY <1>1, Zenon DEF TlsInv, Validated, Connecting
  <1>4. ASSUME task.peer = "packaged", ~fault PROVE OnTrack'
    <2>1. OnTrack
      BY <1>4, Zenon DEF TlsInv, Faultless
    <2>2. << "finished", "command" >> # << >>
      BY TailOfThree, Zenon
    <2>3. ~fromServer /\ served = "reading" /\ toClient = << "ticket" >> /\ toServer = << >>
      BY <1>1, <2>1, <2>2, Zenon DEF OnTrack, Listening
    <2>4. toServer' = << "payload" >>
      BY <1>1, <2>3, OntoEmpty, Zenon
    <2>5. ~fromServer'
      BY <1>1, <2>3, Zenon DEF fromServer
    <2> QED  BY <1>1, <2>3, <2>4, <2>5, Zenon DEF OnTrack
  <1> QED  BY <1>1, <1>2, <1>3, <1>4, ProceedInv, Zenon DEF Connecting

-----------------------------------------------------------------------------
(* The four validateState functions ask for the same. *)
LEMMA ValidateMeans ==
  ASSUME TlsTypeOK, NEW h \in States
  PROVE  validateState(h) <=> h.right /\ (h.resumed <=> expectResume)
  <1>1. task.kind \in TlsKinds /\ h.right \in BOOLEAN /\ h.resumed \in BOOLEAN
    BY Zenon DEF TlsTypeOK, TlsTasks, States
  <1>2. CASE task.kind \in Tls13Kinds
    <2>1. validateState(h) <=> validateState13(h)
      BY <1>2, Zenon DEF validateState, Tls13Kinds
    <2>2. expectResume \in BOOLEAN
      BY Zenon DEF expectResume
    <2> QED  BY <1>1, <2>1, <2>2, Zenon DEF validateState13
  <1>3. CASE task.kind \in {"tls12", "mtls", "chacha20"}
    <2>1. validateState(h) <=> h.right /\ ~h.resumed
      <3>1. CASE task.kind = "tls12"
        BY <3>1, Zenon DEF validateState, validateState12, Tls13Kinds
      <3>2. CASE task.kind = "mtls"
        BY <3>2, Zenon DEF validateState, validateStateMutual, Tls13Kinds
      <3>3. CASE task.kind = "chacha20"
        BY <3>3, Zenon DEF validateState, validateStateChaCha20, Tls13Kinds
      <3> QED  BY <1>3, <3>1, <3>2, <3>3, Zenon
    <2>2. ~expectResume
      BY <1>3, Zenon DEF expectResume
    <2> QED  BY <2>1, <2>2, Zenon
  <1> QED  BY <1>1, <1>2, <1>3, Zenon DEF TlsKinds

(* What passes validateState is what the scenario asks for, and the         *)
(* packaged target's flight passes.                                         *)
LEMMA HelloIsValid ==
  ASSUME TlsInv, step \in Connecting \ {"flight"}
  PROVE  /\ hello[1] \in States
         /\ validateState(hello[1]) => asAsked
         /\ validateState(hello[1]) /\ expectResume => offered
         /\ task.peer = "packaged" /\ ~fault => validateState(hello[1])
  <1>1. hello # << >> /\ TlsTypeOK
    BY Zenon DEF TlsInv, Validated
  <1>2. hello[1] \in States
    BY <1>1 DEF TlsTypeOK
  <1>3. validateState(hello[1]) <=> hello[1].right /\ (hello[1].resumed <=> expectResume)
    BY <1>1, <1>2, ValidateMeans, Zenon
  <1>4. hello[1].resumed \in BOOLEAN /\ expectResume \in BOOLEAN
    BY <1>2, Zenon DEF States, expectResume
  <1>5. hello[1].right /\ (hello[1].resumed <=> expectResume) => asAsked
    BY <1>4, Zenon DEF asAsked, expectResume
  <1>6. hello[1].resumed => offered
    BY <1>1, Zenon DEF TlsInv, Validated
  <1>7. task.peer = "packaged" /\ ~fault => hello[1].right /\ (hello[1].resumed <=> expectResume)
    <2> SUFFICES ASSUME task.peer = "packaged", ~fault
                 PROVE  hello[1].right /\ (hello[1].resumed <=> expectResume)
      BY Zenon
    <2>1. hello[1].right /\ (hello[1].resumed <=> offered)
      BY <1>1, Zenon DEF TlsInv, Faultless
    <2>2. offered <=> expectResume
      BY Zenon DEF TlsInv, Faultless, SingleUse
    <2> QED  BY <2>1, <2>2, Zenon
  <1> QED  BY <1>2, <1>3, <1>5, <1>6, <1>7, Zenon

(* What follows the handshake. *)
LEMMA TlsValidateInv == TlsInv /\ TlsValidate => TlsInv'
  <1> SUFFICES ASSUME TlsInv, TlsValidate PROVE TlsInv'
    BY Zenon
  <1>1. /\ UNCHANGED << task, offered, hello, toClient, served, fault >>
        /\ step = "validate" /\ step \in Connecting \ {"flight", "drain"} /\ step # "exit"
    BY Zenon DEF TlsValidate, Connecting
  <1>2. fault' \in BOOLEAN /\ ~astray /\ hello # << >>
    BY <1>1, Zenon DEF TlsInv, TlsTypeOK, Validated
  <1>3. /\ validateState(hello[1]) => asAsked
        /\ validateState(hello[1]) /\ expectResume => offered
        /\ task.peer = "packaged" /\ ~fault => validateState(hello[1])
    BY <1>1, HelloIsValid, Zenon
  <1>4. task.peer = "packaged" /\ ~fault => OnTrack /\ SingleUse
    BY Zenon DEF TlsInv, Faultless
  <1>5. CASE ~validateState(hello[1]) /\ OpOver("failed") /\ UNCHANGED << astray, toServer >>
    <2>1. ~astray' /\ astray' \in BOOLEAN
      BY <1>5, Zenon DEF TlsInv, TlsTypeOK, Validated
    <2> QED  BY <1>1, <1>2, <1>3, <1>5, <2>1, OpOverInv, Zenon
  <1>6. CASE /\ validateState(hello[1]) /\ task.kind \in RecordKinds
             /\ step' = IF fromServer THEN "transfer" ELSE "upload"
             /\ Send("command")
             /\ UNCHANGED << period, round, tally, cache, tlsExit, astray >>
    <2>1. ~astray' /\ astray' \in BOOLEAN
      BY <1>6, Zenon DEF TlsInv, TlsTypeOK, Validated
    <2>2. ASSUME task.peer = "packaged", ~fault PROVE OnTrack'
      <3>1. fromServer' <=> fromServer
        BY <1>1, <1>6, Zenon DEF fromServer
      <3>2. \/ Listening(<< "finished" >>, << "ticket" >>)
            \/ toServer = << >> /\ served = "reading" /\ toClient = << "ticket" >>
        BY <1>1, <1>4, <1>6, <2>2, Zenon DEF OnTrack, Tickets, RecordKinds, Tls13Kinds
      <3>3. CASE Listening(<< "finished" >>, << "ticket" >>)
        <4>1. toServer' = << "finished", "command" >>
          BY <1>6, <3>3, AppendSecond, Zenon DEF Send, Listening
        <4> QED  BY <1>1, <1>6, <3>1, <3>3, <4>1, Zenon DEF OnTrack, Listening
      <3>4. CASE toServer = << >> /\ served = "reading" /\ toClient = << "ticket" >>
        <4>1. toServer' = << "command" >>
          BY <1>6, <3>4, OntoEmpty, Zenon DEF Send
        <4> QED  BY <1>1, <1>6, <3>1, <3>4, <4>1, Zenon DEF OnTrack
      <3> QED  BY <3>2, <3>3, <3>4, Zenon
    <2> QED  BY <1>1, <1>2, <1>6, <2>1, <2>2, ProceedInv, Zenon DEF Connecting
  <1>7. CASE /\ validateState(hello[1]) /\ task.kind = "resumed" /\ round = 1 /\ step' = "drain"
             /\ UNCHANGED << period, round, tally, cache, tlsExit, astray, toServer >>
    <2>1. ~astray' /\ astray' \in BOOLEAN
      BY <1>7, Zenon DEF TlsInv, TlsTypeOK, Validated
    <2>2. ASSUME task.peer = "packaged", ~fault PROVE OnTrack'
      <3>1. \/ Listening(<< "finished" >>, << "ticket" >>)
            \/ toServer = << >> /\ served = "closed" /\ toClient = << "ticket", "close" >>
        BY <1>1, <1>4, <1>7, <2>2, Zenon DEF OnTrack, Tickets, RecordKinds, Tls13Kinds
      <3> QED  BY <1>1, <1>7, <3>1, Zenon DEF OnTrack, Listening
    <2> QED  BY <1>1, <1>2, <1>7, <2>1, <2>2, ProceedInv, Zenon DEF Connecting
  <1>8. CASE /\ validateState(hello[1]) /\ task.kind = "resumed" /\ round = 2
             /\ OpOver(IF consumedOnce(cache) THEN "completed" ELSE "failed")
             /\ astray' = (astray \/ ~asAsked \/ ~offered) /\ Send("close")
    <2>1. ~astray' /\ astray' \in BOOLEAN
      <3>1. asAsked /\ offered
        BY <1>3, <1>8, Zenon DEF expectResume
      <3> QED  BY <1>2, <1>8, <3>1, Zenon
    <2>2. task.peer = "packaged" /\ ~fault => consumedOnce(cache)
      BY <1>1, <1>4, <1>8 DEF SingleUse
    <2>3. CASE consumedOnce(cache)
      BY <1>1, <1>2, <1>8, <2>1, <2>3, OpOverInv, Zenon
    <2>4. CASE ~consumedOnce(cache)
      BY <1>1, <1>2, <1>8, <2>1, <2>2, <2>4, OpOverInv, Zenon
    <2> QED  BY <2>3, <2>4, Zenon
  <1>9. CASE /\ validateState(hello[1]) /\ task.kind \notin RecordKinds \cup {"resumed"}
             /\ OpOver("completed") /\ astray' = (astray \/ ~asAsked) /\ Send("close")
    <2>1. ~astray' /\ astray' \in BOOLEAN
      BY <1>2, <1>3, <1>9, Zenon
    <2> QED  BY <1>1, <1>2, <1>9, <2>1, OpOverInv, Zenon
  <1>10. CASE /\ validateState(hello[1]) /\ task.kind \in {"tls12", "mtls", "chacha20"}
              /\ served = "closed" /\ OpOver("failed") /\ UNCHANGED << astray, toServer >>
    <2>1. ~astray' /\ astray' \in BOOLEAN
      BY <1>10, Zenon DEF TlsInv, TlsTypeOK, Validated
    <2>2. ~(task.peer = "packaged" /\ ~fault)
      BY <1>1, <1>4, <1>10, Zenon DEF OnTrack, Listening, RecordKinds, Tls13Kinds
    <2> QED  BY <1>1, <1>2, <1>10, <2>1, <2>2, OpOverInv
  <1> QED  BY <1>5, <1>6, <1>7, <1>8, <1>9, <1>10, Zenon DEF TlsValidate

-----------------------------------------------------------------------------
(* A connection did its part. *)
LEMMA RoundDoneInv ==
  ASSUME TlsInv, step \in {"drain", "transfer"}, RoundDone,
         UNCHANGED << task, offered, hello, fault >>, ~astray', astray' \in BOOLEAN,
         step = "drain" => cache.session
  PROVE  TlsInv'
  <1>1. step \in Connecting /\ step # "exit" /\ step # "dial" /\ fault' \in BOOLEAN
    BY Zenon DEF Connecting, TlsInv, TlsTypeOK
  <1>2. CASE lastRound
    BY <1>1, <1>2, OpOverInv, Zenon DEF RoundDone
  <1>3. CASE ~lastRound
    <2>1. /\ step' = "dial" /\ round' = round + 1 /\ period' = period /\ tally' = tally
          /\ cache' = cache /\ tlsExit' = tlsExit
      BY <1>3, Zenon DEF RoundDone
    <2>2. TlsTypeOK'
      <3>1. step' \in {"gate", "phase", "dial", "exit"} \cup Connecting
        BY <2>1, Zenon
      <3>2. round' \in Nat \ {0}
        BY <2>1 DEF TlsInv, TlsTypeOK
      <3>3. task' = task /\ offered' = offered /\ hello' = hello
        BY Zenon
      <3> QED  BY <1>1, <2>1, <3>1, <3>2, <3>3, Zenon DEF TlsInv, TlsTypeOK
    <2>3. Validated'
      <3>1. tlsExit' = NoCode /\ tlsExit' # 0
        BY <1>1, <2>1 DEF TlsInv, Validated, NoCode
      <3> QED  BY <2>1, <3>1, Zenon DEF TlsInv, Validated, Connecting
    <2>4. Faultless'
      <3> SUFFICES ASSUME task.peer = "packaged", ~fault PROVE OnTrack' /\ SingleUse'
        BY <2>1, Zenon DEF TlsInv, Faultless
      <3>1. OnTrack'
        BY <2>1, Zenon DEF OnTrack
      <3>2. SingleUse
        BY Zenon DEF TlsInv, Faultless
      <3>3. CASE step = "drain"
        <4>1. task.kind = "resumed" /\ round = 1
          BY <3>3, Zenon DEF TlsInv, Validated
        <4>2. cache.session /\ cache.gets = 1 /\ cache.hits = 0
          BY <1>1, <3>2, <3>3, <4>1, Zenon DEF SingleUse
        <4> QED  BY <2>1, <3>1, <4>1, <4>2 DEF SingleUse, Connecting
      <3>4. CASE step = "transfer"
        <4>1. task.kind # "resumed"
          BY <3>4, Zenon DEF TlsInv, Validated, RecordKinds
        <4>2. cache = emptyCache
          BY <1>1, <3>2, <4>1, Zenon DEF SingleUse
        <4> QED  BY <2>1, <3>1, <4>1, <4>2, Zenon DEF SingleUse, Connecting
      <3> QED  BY <3>3, <3>4, Zenon
    <2> QED  BY <2>2, <2>3, <2>4, Zenon DEF TlsInv
  <1> QED  BY <1>2, <1>3, Zenon

(* A ticket goes to the cache. *)
LEMMA DrainTicketInv ==
  ASSUME TlsInv, step = "drain", step' = step, cache' = Put(cache),
         UNCHANGED << task, period, round, tally, offered, hello, toServer, served, tlsExit,
                      astray, fault >>,
         toClient # << >>, Head(toClient) = "ticket", toClient' = Tail(toClient)
  PROVE  TlsInv'
  <1>1. /\ Put(cache) \in Caches /\ Put(cache).session
        /\ Put(cache).gets = cache.gets /\ Put(cache).hits = cache.hits
    <2>1. cache \in Caches
      BY Zenon DEF TlsInv, TlsTypeOK
    <2>2. cache.puts + 1 \in Nat
      BY <2>1 DEF Caches
    <2> QED  BY <2>1, <2>2, Zenon DEF Put, Caches
  <1>2. TlsTypeOK'
    <2>1. /\ task' = task /\ period' = period /\ round' = round /\ tally' = tally
          /\ offered' = offered /\ hello' = hello /\ astray' = astray /\ fault' = fault
      BY Zenon
    <2> QED  BY <1>1, <2>1, Zenon DEF TlsInv, TlsTypeOK
  <1>3. Validated'
    <2>1. validateState(hello[1])' <=> validateState(hello[1])
      BY Zenon DEF validateState, validateState13, validateState12, validateStateMutual,
                   validateStateChaCha20, expectResume
    <2>2. tlsExit' = NoCode /\ tlsExit' # 0
      BY DEF TlsInv, Validated, NoCode
    <2> QED  BY <2>1, <2>2, Zenon DEF TlsInv, Validated
  <1>4. Faultless'
    <2> SUFFICES ASSUME task.peer = "packaged", ~fault PROVE OnTrack' /\ SingleUse'
      BY Zenon DEF TlsInv, Faultless
    <2>1. OnTrack /\ SingleUse /\ task.kind = "resumed" /\ round = 1
      BY Zenon DEF TlsInv, Faultless, Validated
    <2>2. /\ Head(<< "close" >>) = "close" /\ Tail(<< "ticket", "close" >>) = << "close" >>
          /\ Tail(<< "ticket" >>) = << >>
      BY TailOfThree
    <2>3. \/ toServer = << >> /\ served = "closed" /\ toClient = << "ticket", "close" >>
          \/ toServer = << "finished" >> /\ served = "listening" /\ toClient = << "ticket" >>
      BY <2>1, <2>2, Zenon DEF OnTrack, Listening
    <2>4. OnTrack'
      BY <1>1, <2>2, <2>3, Zenon DEF OnTrack, Listening
    <2>5. cache'.gets = 1 /\ cache'.hits = 0
      BY <1>1, <2>1, Zenon DEF SingleUse, Connecting
    <2>6. (offered' <=> expectResume') /\ step' \in Connecting
      BY <2>1, Zenon DEF SingleUse, Connecting, expectResume
    <2>7. task'.kind = "resumed" /\ round' = 1 /\ step' = "drain" /\ step' # "dial"
      BY <2>1, Zenon
    <2> QED  BY <2>4, <2>5, <2>6, <2>7, Zenon DEF SingleUse
  <1> QED  BY <1>2, <1>3, <1>4, Zenon DEF TlsInv

(* The drain: the packaged target's ticket comes before its close. *)
LEMMA drainSessionTicketInv == TlsInv /\ drainSessionTicket => TlsInv'
  <1> SUFFICES ASSUME TlsInv, drainSessionTicket PROVE TlsInv'
    BY Zenon
  <1> DEFINE m == Head(toClient)
  <1>1. /\ step = "drain" /\ toClient # << >> /\ toClient' = Tail(toClient)
        /\ UNCHANGED << task, offered, hello, toServer, served, astray, fault >>
    BY Zenon DEF drainSessionTicket
  <1>2. fault' \in BOOLEAN /\ ~astray' /\ astray' \in BOOLEAN /\ step # "exit"
    BY <1>1, Zenon DEF TlsInv, TlsTypeOK, Validated
  <1>3. task.peer = "packaged" /\ ~fault => m = "ticket" \/ (m = "close" /\ cache.session)
    <2>1. /\ Head(<< "close" >>) = "close" /\ Head(<< "ticket", "close" >>) = "ticket"
          /\ Head(<< "ticket" >>) = "ticket"
      BY TailOfThree, Zenon
    <2> QED  BY <1>1, <2>1, Zenon DEF TlsInv, Faultless, OnTrack, Listening
  <1>4. CASE m = "ticket"
    <2>1. cache' = Put(cache) /\ UNCHANGED << step, period, round, tally, tlsExit >>
      BY <1>4, Zenon DEF drainSessionTicket
    <2> QED  BY <1>1, <1>4, <2>1, DrainTicketInv, Zenon
  <1>5. CASE m = "close" /\ cache.session
    <2>1. RoundDone
      BY <1>5, Zenon DEF drainSessionTicket
    <2> QED  BY <1>1, <1>2, <1>5, <2>1, RoundDoneInv, Zenon
  <1>6. CASE ~(m = "ticket" \/ (m = "close" /\ cache.session))
    <2>1. OpOver("failed")
      <3>1. CASE m = "close"
        BY <1>6, <3>1, Zenon DEF drainSessionTicket
      <3>2. CASE m # "close"
        BY <1>6, <3>2, Zenon DEF drainSessionTicket
      <3> QED  BY <3>1, <3>2, Zenon
    <2> QED  BY <1>1, <1>2, <1>3, <1>6, <2>1, OpOverInv, Zenon
  <1> QED  BY <1>4, <1>5, <1>6, Zenon

(* The transfer: a ticket is skipped, then comes what is awaited. *)
LEMMA TlsTransferInv == TlsInv /\ TlsTransfer => TlsInv'
  <1> SUFFICES ASSUME TlsInv, TlsTransfer PROVE TlsInv'
    BY Zenon
  <1> DEFINE m == Head(toClient)
  <1>1. /\ step = "transfer" /\ toClient # << >> /\ toClient' = Tail(toClient)
        /\ UNCHANGED << task, offered, hello, toServer, served, fault >>
        /\ step \in Connecting \ {"flight", "drain"} /\ step # "exit"
    BY Zenon DEF TlsTransfer, Connecting
  <1>2. /\ fault' \in BOOLEAN /\ ~astray /\ astray \in BOOLEAN /\ hello # << >>
        /\ validateState(hello[1]) /\ task.kind \in RecordKinds
    BY <1>1, Zenon DEF TlsInv, TlsTypeOK, Validated
  <1>3. asAsked /\ tlsAwaited \in {"data", "ack"}
    BY <1>1, <1>2, HelloIsValid, Zenon DEF tlsAwaited
  <1>4. task.peer = "packaged" /\ ~fault =>
          \/ fromServer /\ Listening(<< "finished", "command" >>, << "ticket" >>)
          \/ /\ toServer = << IF fromServer THEN "command" ELSE "payload" >>
             /\ served = "reading" /\ toClient = << "ticket" >>
          \/ /\ toServer = << >> /\ served = "closed"
             /\ toClient \in {<< "ticket", tlsAwaited, "close" >>, << tlsAwaited, "close" >>}
    BY <1>1, Zenon DEF TlsInv, Faultless, OnTrack, Listening
  <1>5. /\ Head(<< "ticket" >>) = "ticket" /\ Tail(<< "ticket" >>) = << >>
        /\ \A a : /\ Head(<< "ticket", a, "close" >>) = "ticket" /\ Head(<< a, "close" >>) = a
                  /\ Tail(<< "ticket", a, "close" >>) = << a, "close" >>
    BY TailOfThree
  <1>6. CASE m = "ticket"
    <2>1. UNCHANGED << step, period, round, tally, cache, tlsExit, astray >>
      <3>1. tlsAwaited # "ticket"
        BY <1>3, Zenon
      <3> QED  BY <1>6, <3>1, Zenon DEF TlsTransfer
    <2>2. ~astray' /\ astray' \in BOOLEAN /\ step' = "transfer"
      BY <1>1, <1>2, <2>1, Zenon
    <2>3. ASSUME task.peer = "packaged", ~fault PROVE OnTrack'
      <3>1. (fromServer' <=> fromServer) /\ tlsAwaited' = tlsAwaited
        BY <1>1, <2>1, Zenon DEF fromServer, tlsAwaited
      <3>2. CASE /\ toServer = << IF fromServer THEN "command" ELSE "payload" >>
                 /\ served = "reading" /\ toClient = << "ticket" >>
        BY <1>1, <1>5, <2>2, <3>1, <3>2, Zenon DEF OnTrack
      <3>3. CASE /\ toServer = << >> /\ served = "closed"
                 /\ toClient \in {<< "ticket", tlsAwaited, "close" >>, << tlsAwaited, "close" >>}
        <4>1. toClient' = << tlsAwaited, "close" >>
          BY <1>1, <1>3, <1>5, <1>6, <3>3, Zenon
        <4> QED  BY <1>1, <2>2, <3>1, <3>3, <4>1, Zenon DEF OnTrack
      <3>4. CASE fromServer /\ Listening(<< "finished", "command" >>, << "ticket" >>)
        BY <1>1, <1>5, <2>2, <3>1, <3>4, Zenon DEF OnTrack, Listening
      <3> QED  BY <1>4, <2>3, <3>2, <3>3, <3>4, Zenon
    <2> QED  BY <1>1, <1>2, <2>1, <2>2, <2>3, ProceedInv, Zenon
  <1>7. CASE m = tlsAwaited
    <2>1. RoundDone /\ astray' = (astray \/ ~asAsked)
      BY <1>3, <1>7, Zenon DEF TlsTransfer
    <2>2. ~astray' /\ astray' \in BOOLEAN
      BY <1>2, <1>3, <2>1, Zenon
    <2> QED  BY <1>1, <2>1, <2>2, RoundDoneInv, Zenon
  <1>8. CASE m \notin {"ticket", tlsAwaited}
    <2>1. OpOver("failed") /\ astray' = astray
      BY <1>8, Zenon DEF TlsTransfer
    <2>2. ~(task.peer = "packaged" /\ ~fault)
      BY <1>4, <1>5, <1>8, Zenon DEF Listening
    <2> QED  BY <1>1, <1>2, <2>1, <2>2, OpOverInv, Zenon
  <1> QED  BY <1>6, <1>7, <1>8, Zenon

(* A timeout or a lost connection is a fault. *)
LEMMA CutOffInv == TlsInv /\ (TlsTimeout \/ TlsConnectionLost) => TlsInv'
  <1> SUFFICES ASSUME TlsInv, TlsTimeout \/ TlsConnectionLost PROVE TlsInv'
    BY Zenon
  <1>1. /\ UNCHANGED << task, offered, hello >> /\ astray' = astray /\ fault' = TRUE
        /\ step # "exit" /\ (OpOver("timedOut") \/ OpOver("failed"))
    BY Zenon DEF TlsTimeout, TlsConnectionLost, connVars, covered
  <1>2. ~astray' /\ astray' \in BOOLEAN /\ fault' \in BOOLEAN
    BY <1>1, Zenon DEF TlsInv, TlsTypeOK, Validated
  <1>3. CASE OpOver("timedOut")
    BY <1>1, <1>2, <1>3, OpOverInv, Zenon
  <1>4. CASE OpOver("failed")
    BY <1>1, <1>2, <1>4, OpOverInv, Zenon
  <1> QED  BY <1>1, <1>3, <1>4, Zenon

(* A step that changes nothing keeps the invariant. *)
LEMMA TlsStutterInv == TlsInv /\ UNCHANGED tlsVars => TlsInv'
  <1> SUFFICES ASSUME TlsInv, UNCHANGED tlsVars PROVE TlsInv'
    BY Zenon
  <1>1. UNCHANGED clientVars /\ hello' = hello /\ fault' = fault
        /\ UNCHANGED << toServer, toClient, served >>
    BY Zenon DEF tlsVars, clientVars
  <1>2. fault' \in BOOLEAN
    BY <1>1, Zenon DEF TlsInv, TlsTypeOK
  <1>3. ASSUME task.peer = "packaged", ~fault PROVE OnTrack'
    <2>1. OnTrack
      BY <1>3, Zenon DEF TlsInv, Faultless
    <2> QED
      BY <1>1, <2>1, Zenon DEF OnTrack, Listening, Tickets, clientVars, fromServer, tlsAwaited
  <1> QED  BY <1>1, <1>2, <1>3, PeerStepInv, Zenon

(* The invariant holds of every executor with every peer. *)
THEOREM TlsInvariant == TlsSpec => []TlsInv
  <1>1. TlsInv /\ [TlsNext]_tlsVars => TlsInv'
    BY TlsGateInv, runPhaseInv, PhaseEndsInv, TlsDialInv, HandshakeContextInv, TlsValidateInv,
       drainSessionTicketInv, TlsUploadInv, TlsTransferInv, TargetHelloInv, TargetFinishedInv,
       serveRecordOperationInv, ForeignStepInv, CutOffInv, TargetDeadlineInv, TlsStutterInv, Zenon
    DEF TlsNext, TlsExecutorStep, TargetStep
  <1> QED  BY <1>1, TlsInitInv, PTL DEF TlsSpec

(* No executor exits 0 with an operation that was not what its scenario     *)
(* asks for, or without a clean phase (validateState, runResumed, main).    *)
THEOREM TlsPassEarned == TlsSpec => []TlsPassIsEarned
  <1>1. TlsInv => TlsPassIsEarned
    BY Zenon DEF TlsInv, Validated, TlsPassIsEarned
  <1> QED  BY <1>1, TlsInvariant, PTL

(* Against its packaged target an executor exits 1 only after a lost        *)
(* connection, a passed deadline or a phase without an operation, for any   *)
(* number of operations and record cases.                                   *)
THEOREM PackagedTlsAgrees == TlsSpec => []PackagedTlsPasses
  <1>1. TlsInv => PackagedTlsPasses
    BY Zenon DEF TlsInv, Faultless, PackagedTlsPasses
  <1> QED  BY <1>1, TlsInvariant, PTL

=============================================================================
