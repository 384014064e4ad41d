---------------------------- MODULE Http1Executor ----------------------------
(***************************************************************************)
(* go-http1-executor: two checks over HTTP/1.1, then load made by oha, a   *)
(* program of its own that the executor verifies, starts twice, stops at a *)
(* deadline and whose report it parses. The environment is the target, the *)
(* oha process (external) and the file system.                             *)
(***************************************************************************)
EXTENDS Integers, Sequences, Functions

CONSTANTS Requests   \* bound: requests of each kind in oha's report

ASSUME Http1Assumption == Requests \in Nat \ {0}

defaultExpectations == << "plaintext", "json" >>
CheckOutcomes == {"exact", "fallback", "different", "timeout", "error"}
ValidationArtifacts == << "validation", "result", "protocol-proof", "executor-identity" >>
OhaArtifacts == << "oha.stdout", "oha.stderr", "oha.command", "oha.version" >>
ResultArtifacts == << "load-generator-identity", "http-executor-result" >>
NoStatus == -1

VARIABLES job,        \* what arguments and environment ask for
          h1At,       \* the point main has reached
          checked,    \* outcome of each check, in their order
          report,     \* oha's report: requests per kind, and whether it is complete
          files,      \* files of this run in the artifact directory
          h1Exit,     \* exit code
          warmups,    \* history: how the warm-up's oha ended
          loads       \* history: how the measured oha ended

http1Vars == << job, h1At, checked, report, files, h1Exit, warmups, loads >>

noReport == [expected |-> 0, unexpected |-> 0, timeouts |-> 0, errors |-> 0, whole |-> FALSE]

Http1Init ==
  /\ job \in [scenario : Range(defaultExpectations) \cup {"unknown"}, validationOnly : BOOLEAN,
              arguments : BOOLEAN, config : BOOLEAN, warmup : BOOLEAN]
  /\ h1At = "start" /\ checked = << >> /\ report = noReport /\ files = {}
  /\ h1Exit = NoStatus /\ warmups = "none" /\ loads = "none"

Stop(code) == h1At' = "exited" /\ h1Exit' = code

(* main: the flags and the identity variables. *)
CheckArguments ==
  /\ h1At = "start"
  /\ IF job.arguments THEN h1At' = "checks" /\ UNCHANGED h1Exit ELSE Stop(2)
  /\ UNCHANGED << job, checked, report, files, warmups, loads >>

RunHttp1Check ==
  /\ h1At = "checks" /\ Len(checked) < Len(defaultExpectations)
  /\ \E o \in CheckOutcomes : checked' = Append(checked, o)
  /\ UNCHANGED << job, h1At, report, files, h1Exit, warmups, loads >>

passed == Range(checked) = {"exact"}

(* Files are written one after another, the first that fails ends the run. *)
WrittenUpTo(names, k) == files' = files \cup {names[i] : i \in 1..k}

(* The four documents of the gate, then its verdict. *)
WriteValidation ==
  /\ h1At = "checks" /\ Len(checked) = Len(defaultExpectations)
  /\ \E k \in 0..Len(ValidationArtifacts) :
       /\ WrittenUpTo(ValidationArtifacts, k)
       /\ CASE k < Len(ValidationArtifacts) \/ ~passed -> Stop(1)
            [] k = Len(ValidationArtifacts) /\ passed /\ job.validationOnly -> Stop(0)
            [] OTHER -> h1At' = "config" /\ UNCHANGED h1Exit
  /\ UNCHANGED << job, checked, report, warmups, loads >>

(* loadConfigFromEnvironment and findExpectation. *)
loadConfigFromEnvironment ==
  /\ h1At = "config"
  /\ IF job.config /\ job.scenario \in Range(defaultExpectations)
     THEN h1At' = "verify" /\ UNCHANGED h1Exit ELSE Stop(2)
  /\ UNCHANGED << job, checked, report, files, warmups, loads >>

(* verifyOha and oha --version. *)
verifyOha ==
  /\ h1At = "verify"
  /\ \/ h1At' = (IF job.warmup THEN "warmup" ELSE "measured") /\ UNCHANGED h1Exit
     \/ Stop(1)
  /\ UNCHANGED << job, checked, report, files, warmups, loads >>

(* External: oha ends by itself with a report, fails, or is killed when the *)
(* command's context expires. It reports what it saw; a report cut short is *)
(* no JSON, or lacks the latency percentiles.                               *)
ohaEnds == {"done", "failed", "killed"}
ohaReports == [expected : 0..Requests, unexpected : 0..Requests, timeouts : 0..Requests,
               errors : 0..Requests, whole : BOOLEAN]

(* The warm-up's report is kept and not read: only its exit status counts.  *)
RunWarmup ==
  /\ h1At = "warmup"
  /\ \E end \in ohaEnds :
       /\ warmups' = end
       /\ IF end = "done" THEN h1At' = "measured" /\ UNCHANGED h1Exit ELSE Stop(1)
  /\ \E kept \in SUBSET {"oha-warmup"} : files' = files \cup kept
  /\ UNCHANGED << job, checked, report, loads >>

(* The measured run leaves its four files before its outcome is looked at. *)
RunMeasured ==
  /\ h1At = "measured"
  /\ \E end \in ohaEnds, r \in ohaReports, k \in 0..Len(OhaArtifacts) :
       /\ loads' = end /\ report' = r /\ WrittenUpTo(OhaArtifacts, k)
       /\ IF end = "done" /\ k = Len(OhaArtifacts)
          THEN h1At' = "parse" /\ UNCHANGED h1Exit ELSE Stop(1)
  /\ UNCHANGED << job, checked, warmups >>

(* External: oha's statusCodeDistribution has a status once it counted one. *)
listed(r) == r.expected > 0

(* parseOhaJSON asks for the expected status as a key, not for its count. *)
parseOhaJSON(r) == r.whole /\ listed(r)

(* normalizeOhaMetrics: errors named timeout or deadline count apart. *)
normalizeOhaMetrics(r) ==
  [total |-> r.expected + r.unexpected + r.timeouts + r.errors, successful |-> r.expected,
   failed |-> r.unexpected + r.errors, timedOut |-> r.timeouts]

acceptableUntimed(m) == m.failed = 0
acceptable(m) == m.failed = 0 /\ m.timedOut = 0

ReadReport ==
  /\ h1At = "parse"
  /\ IF parseOhaJSON(report) /\ acceptable(normalizeOhaMetrics(report))
     THEN h1At' = "write" /\ UNCHANGED h1Exit ELSE Stop(1)
  /\ UNCHANGED << job, checked, report, files, warmups, loads >>

(* load-generator-identity.json, then writeExecutorResult: the file, and    *)
(* the same document on stdout.                                             *)
writeExecutorResult ==
  /\ h1At = "write"
  /\ \E k \in 0..Len(ResultArtifacts), printed \in BOOLEAN :
       /\ WrittenUpTo(ResultArtifacts, k)
       /\ Stop(IF k = Len(ResultArtifacts) /\ printed THEN 0 ELSE 1)
  /\ UNCHANGED << job, checked, report, warmups, loads >>

Http1Next ==
  \/ CheckArguments \/ RunHttp1Check \/ WriteValidation
  \/ loadConfigFromEnvironment \/ verifyOha \/ RunWarmup \/ RunMeasured \/ ReadReport
  \/ writeExecutorResult

Http1Spec == Http1Init /\ [][Http1Next]_http1Vars

-----------------------------------------------------------------------------
(* Exit 0 is earned: both checks saw exact HTTP/1.1 and the exact body;     *)
(* unless only validation was asked for, the warm-up and the measured oha   *)
(* ended by themselves, every request the measured one made was answered    *)
(* with the expected status, and the result file is on disk. The result     *)
(* file is never there for less.                                            *)
Http1ResultIsEarned ==
  LET clean == /\ checked = << "exact", "exact" >>
               /\ loads = "done" /\ (job.warmup => warmups = "done")
               /\ report.whole /\ report.expected > 0
               /\ report.unexpected + report.timeouts + report.errors = 0
               /\ Range(ValidationArtifacts \o OhaArtifacts) \subseteq files
  IN /\ "http-executor-result" \in files => clean
     /\ h1Exit = 0 => \/ /\ job.validationOnly /\ checked = << "exact", "exact" >>
                         /\ Range(ValidationArtifacts) \subseteq files
                      \/ "http-executor-result" \in files
=============================================================================
