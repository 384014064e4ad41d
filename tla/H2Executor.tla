------------------------------ MODULE H2Executor ------------------------------
(***************************************************************************)
(* The go-http2-executor process around its load phases: the arguments,    *)
(* the validity gate, the artifacts it leaves in its output directory, the *)
(* warm-up and the measured phase, the acceptance of what was measured and *)
(* the result envelope (main.go: main; load.go: runH2CLoad).               *)
(*                                                                         *)
(* The output directory outlives the process and nothing clears it, so the *)
(* module models several runs, one after another, over the same directory. *)
(* os.WriteFile truncates before it writes and can stop half way; the      *)
(* runner can kill the process at any point.                               *)
(***************************************************************************)
EXTENDS Integers, FiniteSets, Sequences

CONSTANTS Scenarios,   \* the scenarios of defaultExpectations
          MaxRuns      \* bound: runs over one output directory

ASSUME ExecutorAssumption == /\ MaxRuns \in Nat \ {0}
                             /\ Scenarios # {} /\ IsFiniteSet(Scenarios)
                             /\ {"", "unsupported"} \cap Scenarios = {}

(* What the process writes, in the order in which it writes it. *)
ValidationFiles == << "validation.json", "result.json", "protocol-proof.json",
                      "executor-identity.json" >>

LoadFiles == << "http2-load-summary.json", "http2-topology.json",
                "load-generator-identity.json", "http-executor-result.json" >>

Evidence == ValidationFiles \o LoadFiles

Warmup == "http2-warmup-summary.json"

Files == {Evidence[i] : i \in DOMAIN Evidence} \cup {Warmup}

Envelope == "http-executor-result.json"

VARIABLES run,       \* number of the current run, 0 before the first
          env,       \* its flags and environment
          stage,     \* where main is; a file's name while that file is written
          writing,   \* os.WriteFile has truncated the file and not finished
          disk,      \* the output directory
          dialled,   \* observedConnections = 1
          checks,    \* scenario -> checkResult, for the checks made so far
          load,      \* the last load phase this run began
          measured,  \* the measured phase's summary
          warmupErr, \* the warm-up returned an error
          stdout,    \* the envelope's copy on standard output
          exitCode   \* the process's exit code

execVars == << run, env, stage, writing, disk, dialled, checks, load, measured,
               warmupErr, stdout, exitCode >>

Environment == [scenario : Scenarios \cup {"", "unsupported"},
                arguments : BOOLEAN, validationOnly : BOOLEAN, profile : BOOLEAN]

(* What came back for one request; "cut" is a response whose body could not *)
(* be read to its end.                                                      *)
Responses == [kind : {"error", "timeout", "cut", "answer"},
              exact : BOOLEAN, matches : BOOLEAN]

CheckResult == [passed : BOOLEAN, timedOut : BOOLEAN, fallback : BOOLEAN]

Summary == [err : BOOLEAN, successful : 0..1, failed : 0..1, timedOut : 0..1,
            proven : BOOLEAN]

(* What runLoadPhase returns. Module H2LoadPhase shows that a phase that    *)
(* returns without an error has counted at least one operation of every     *)
(* worker.                                                                  *)
PhaseResults ==
  {s \in Summary : s.err \/ s.successful + s.failed + s.timedOut > 0}

NoFile == [run |-> 0, whole |-> FALSE, passed |-> FALSE]

NoSummary == [err |-> TRUE, successful |-> 0, failed |-> 0, timedOut |-> 0,
              proven |-> FALSE]

Of(f) == disk[f].run = run
Whole(f) == Of(f) /\ disk[f].whole

selectedExpectations ==
  IF env.scenario = "" THEN Scenarios ELSE Scenarios \cap {env.scenario}

-----------------------------------------------------------------------------
(* The validity gate. *)

(* A check may pass only when an answer came back to its end, over exactly  *)
(* HTTP/2, and status, media type, length and bytes all agree.              *)
runCheck(r) ==
  [passed |-> r.kind = "answer" /\ r.exact /\ r.matches,
   timedOut |-> r.kind = "timeout",
   fallback |-> r.kind \in {"cut", "answer"} /\ ~r.exact]

failedDialCheck(timedOut) ==
  [passed |-> FALSE, timedOut |-> timedOut, fallback |-> FALSE]

(* summarizeChecks; a dial that failed counts as one failure more. *)
summarizeChecks ==
  LET failed == {s \in DOMAIN checks : ~checks[s].passed}
  IN [passed |-> DOMAIN checks # {} /\ failed = {} /\ dialled,
      fallback |-> \E s \in DOMAIN checks : checks[s].fallback,
      failures |-> Cardinality(failed) + (IF dialled THEN 0 ELSE 1),
      timeouts |-> Cardinality({s \in DOMAIN checks : checks[s].timedOut})]

measuredAccepted ==
  /\ ~measured.err
  /\ measured.failed = 0 /\ measured.timedOut = 0 /\ measured.successful # 0
  /\ measured.proven

-----------------------------------------------------------------------------
ExecutorInit ==
  /\ run = 0 /\ env \in {e \in Environment : e.scenario = ""
                           /\ ~e.arguments /\ ~e.validationOnly /\ ~e.profile}
  /\ stage = "exited" /\ writing = FALSE
  /\ disk = [f \in Files |-> NoFile]
  /\ dialled = FALSE /\ checks = << >> /\ load = "none" /\ measured = NoSummary
  /\ warmupErr = FALSE /\ stdout = "empty" /\ exitCode = "none"

Exit(code) == stage' = "exited" /\ exitCode' = code

Goto(s) == stage' = s /\ UNCHANGED exitCode

(* The runner starts the process again with the same output directory. *)
Launch ==
  /\ stage = "exited" /\ run < MaxRuns
  /\ run' = run + 1 /\ env' \in Environment
  /\ stage' = "arguments" /\ exitCode' = "none" /\ writing' = FALSE
  /\ dialled' = FALSE /\ checks' = << >> /\ load' = "none" /\ measured' = NoSummary
  /\ warmupErr' = FALSE /\ stdout' = "empty"
  /\ UNCHANGED disk

(* The target, the timeout and the substitution checks (exit 2), MkdirAll   *)
(* (exit 1) and selectedExpectations (exit 2), in that order.               *)
Arguments ==
  /\ stage = "arguments"
  /\ IF ~env.arguments THEN Exit("2")
     ELSE \/ Exit("1")
          \/ IF selectedExpectations = {} THEN Exit("2") ELSE Goto("dial")
  /\ UNCHANGED << run, env, writing, disk, dialled, checks, load, measured,
                  warmupErr, stdout >>

Dial ==
  /\ stage = "dial"
  /\ \/ Goto("check") /\ dialled' = TRUE /\ UNCHANGED checks
     \/ \E timedOut \in BOOLEAN :
          /\ checks' = [s \in selectedExpectations |-> failedDialCheck(timedOut)]
          /\ Goto(ValidationFiles[1]) /\ UNCHANGED dialled
  /\ UNCHANGED << run, env, writing, disk, load, measured, warmupErr, stdout >>

Check(s, r) ==
  /\ stage = "check" /\ s \in selectedExpectations \ DOMAIN checks
  /\ checks' = [t \in DOMAIN checks \cup {s} |->
                  IF t = s THEN runCheck(r) ELSE checks[t]]
  /\ IF DOMAIN checks' = selectedExpectations
       THEN Goto(ValidationFiles[1]) ELSE UNCHANGED << stage, exitCode >>
  /\ UNCHANGED << run, env, writing, disk, dialled, load, measured, warmupErr, stdout >>

-----------------------------------------------------------------------------
(* Writing an artifact: os.WriteFile truncates the file, writes it and      *)
(* closes it. Each part can fail, and main gives up then, except for the    *)
(* warm-up's summary, whose write error is dropped.                         *)

After(f) ==
  CASE f = "validation.json" -> "result.json"
    [] f = "result.json" -> "protocol-proof.json"
    [] f = "protocol-proof.json" -> "executor-identity.json"
    [] f = "executor-identity.json" -> "verdict"
    [] f = Warmup -> "warmed"
    [] f = "http2-load-summary.json" -> "accept"
    [] f = "http2-topology.json" -> "load-generator-identity.json"
    [] f = "load-generator-identity.json" -> Envelope
    [] f = Envelope -> "stdout"

Truncate(f) ==
  /\ stage = f /\ ~writing
  /\ disk' = [disk EXCEPT ![f] = [run |-> run, whole |-> FALSE,
                                  passed |-> summarizeChecks.passed]]
  /\ writing' = TRUE
  /\ UNCHANGED << run, env, stage, dialled, checks, load, measured, warmupErr,
                  stdout, exitCode >>

Written(f) ==
  /\ stage = f /\ writing
  /\ disk' = [disk EXCEPT ![f].whole = TRUE]
  /\ writing' = FALSE /\ Goto(After(f))
  /\ UNCHANGED << run, env, dialled, checks, load, measured, warmupErr, stdout >>

WriteFailedIgnored(f) ==
  /\ stage = f
  /\ Goto(After(f))
  /\ writing' = FALSE
  /\ UNCHANGED << run, env, disk, dialled, checks, load, measured, warmupErr,
                  stdout >>

WriteFailed(f) ==
  /\ stage = f
  /\ IF f = Warmup THEN Goto(After(f)) ELSE Exit("1")
  /\ writing' = FALSE
  /\ UNCHANGED << run, env, disk, dialled, checks, load, measured, warmupErr,
                  stdout >>

(* The gate's verdict, -validation-only, and the load configuration: the    *)
(* profile's exact shape, which needs a scenario to be named.               *)
LoadConfig == env.scenario # "" /\ env.profile

Verdict ==
  /\ stage = "verdict"
  /\ IF ~summarizeChecks.passed THEN Exit("1")
     ELSE IF env.validationOnly THEN Exit("0")
     ELSE IF ~LoadConfig THEN Exit("2")
     ELSE Goto("warmup")
  /\ UNCHANGED << run, env, writing, disk, dialled, checks, load, measured,
                  warmupErr, stdout >>

(* Every committed profile has a warm-up. Its failed requests are not       *)
(* looked at, only its error, and that after its summary is written.        *)
WarmupPhase(s) ==
  /\ stage = "warmup"
  /\ load' = "warmup" /\ warmupErr' = s.err /\ Goto(Warmup)
  /\ UNCHANGED << run, env, writing, disk, dialled, checks, measured, stdout >>

Warmed ==
  /\ stage = "warmed"
  /\ IF warmupErr THEN Exit("1") ELSE Goto("measured")
  /\ UNCHANGED << run, env, writing, disk, dialled, checks, load, measured,
                  warmupErr, stdout >>

MeasuredPhase(s) ==
  /\ stage = "measured"
  /\ load' = "measured" /\ measured' = s /\ Goto("http2-load-summary.json")
  /\ UNCHANGED << run, env, writing, disk, dialled, checks, warmupErr, stdout >>

(* The measured phase's error, its counts, its topology proof and the hash  *)
(* of the executable, any of which ends the run without a result.           *)
AcceptTimeouts ==
  /\ stage = "accept"
  /\ \/ Exit("1")
     \/ /\ ~measured.err /\ measured.failed = 0 /\ measured.successful # 0
        /\ measured.proven
        /\ Goto("http2-topology.json")
  /\ UNCHANGED << run, env, writing, disk, dialled, checks, load, measured,
                  warmupErr, stdout >>

Accept ==
  /\ stage = "accept"
  /\ \/ Exit("1")
     \/ measuredAccepted /\ Goto("http2-topology.json")
  /\ UNCHANGED << run, env, writing, disk, dialled, checks, load, measured,
                  warmupErr, stdout >>

(* The envelope again, on standard output; the write may stop half way. *)
Stdout ==
  /\ stage = "stdout"
  /\ \/ stdout' = "whole" /\ Exit("0")
     \/ stdout' \in {"empty", "part"} /\ Exit("1")
  /\ UNCHANGED << run, env, writing, disk, dialled, checks, load, measured,
                  warmupErr >>

(* The runner gives up on the process. *)
Kill ==
  /\ stage # "exited"
  /\ Exit("killed") /\ writing' = FALSE
  /\ UNCHANGED << run, env, disk, dialled, checks, load, measured, warmupErr,
                  stdout >>

ExecutorNext ==
  \/ Launch \/ Arguments \/ Dial \/ Verdict \/ Warmed \/ Accept \/ Stdout \/ Kill
  \/ \E s \in Scenarios, r \in Responses : Check(s, r)
  \/ \E f \in Files : Truncate(f) \/ Written(f) \/ WriteFailed(f)
  \/ \E s \in PhaseResults : WarmupPhase(s) \/ MeasuredPhase(s)

ExecutorSpec == ExecutorInit /\ [][ExecutorNext]_execVars

-----------------------------------------------------------------------------
Stages == Files \cup {"arguments", "dial", "check", "verdict", "warmup", "warmed",
                      "measured", "accept", "stdout", "exited"}

(* The variables keep their types. *)
ExecutorTypeOK ==
  /\ run \in 0..MaxRuns /\ env \in Environment /\ stage \in Stages
  /\ writing \in BOOLEAN /\ dialled \in BOOLEAN /\ warmupErr \in BOOLEAN
  /\ disk \in [Files -> [run : 0..MaxRuns, whole : BOOLEAN, passed : BOOLEAN]]
  /\ DOMAIN checks \subseteq Scenarios
  /\ \A s \in DOMAIN checks : checks[s] \in CheckResult
  /\ load \in {"none", "warmup", "measured"} /\ measured \in Summary
  /\ stdout \in {"empty", "part", "whole"}
  /\ exitCode \in {"none", "0", "1", "2", "killed"}

(* A metric envelope is earned. Once a run has put a first byte of its      *)
(* http-executor-result.json on disk, or on standard output, the gate had   *)
(* passed, the measured phase had been accepted, and every other artifact   *)
(* of the same run that the envelope rests on is complete on disk; this     *)
(* stays so when the process is killed or a write fails.                    *)
EnvelopeIsEarned ==
  (run > 0 /\ Of(Envelope)) \/ stdout # "empty" =>
     /\ summarizeChecks.passed /\ measuredAccepted
     /\ \A i \in 1..(Len(Evidence) - 1) : Whole(Evidence[i])
     /\ \A i \in 1..Len(ValidationFiles) : disk[ValidationFiles[i]].passed

(* Exit code 0 means complete evidence: every validation artifact is this   *)
(* run's and says passed, and the load artifacts are either all this run's, *)
(* with the envelope on standard output too, or were not asked for.         *)
SuccessIsComplete ==
  exitCode = "0" =>
     /\ \A i \in 1..Len(ValidationFiles) :
          Whole(ValidationFiles[i]) /\ disk[ValidationFiles[i]].passed
     /\ IF env.validationOnly
          THEN stdout = "empty" /\ \A i \in 1..Len(LoadFiles) : ~Of(LoadFiles[i])
          ELSE stdout = "whole" /\ \A i \in 1..Len(LoadFiles) : Whole(LoadFiles[i])

(* The variables keep their types, and neither the envelope nor exit code 0 *)
(* of main says more than the run's artifacts show.                         *)
ExecutorResultIsEarned == ExecutorTypeOK /\ EnvelopeIsEarned /\ SuccessIsComplete

(* The output directory tells one story although runs share it and may be   *)
(* killed: an artifact is never from a later run than one written before    *)
(* it, and only the last one of a run may be incomplete. So an envelope     *)
(* that an earlier run left behind can be told from a current one by the    *)
(* artifacts written before it.                                             *)
EvidenceIsOrdered ==
  \A i, j \in 1..Len(Evidence) : i < j =>
     /\ disk[Evidence[j]].run <= disk[Evidence[i]].run
     /\ disk[Evidence[j]].run = disk[Evidence[i]].run /\ disk[Evidence[j]].run > 0
          => disk[Evidence[i]].whole

=============================================================================
