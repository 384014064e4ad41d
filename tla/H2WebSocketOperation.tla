------------------------- MODULE H2WebSocketOperation -------------------------
(***************************************************************************)
(* The five single-stream scenarios of go-http2-websocket-executor: one    *)
(* operation dials, proves TLS, waits for the server's settings, opens the *)
(* WebSocket, exchanges its message and closes; main runs one operation as *)
(* a preflight and then operations one after another for the warm-up and   *)
(* the measured phase (main, runOperation, readResponseHeaders,            *)
(* readWebSocketFrame, runFor, writeResult).                               *)
(***************************************************************************)
EXTENDS Integers

CONSTANT MaxOps   \* bound: operations in one phase

ASSUME OperationAssumption == MaxOps \in Nat \ {0}

Ends == {"completed", "failed", "timedOut"}

VARIABLES message,        \* the scenario sends a message (MessageCount = 1)
          validationOnly, \* the flag
          stage,          \* what the operation waits for, or "idle"
          silent,         \* the peer sends nothing any more
          mode,           \* main: "start", "preflight", a phase, "report", "exited"
          expired,        \* time.Since(started) >= duration
          summary,        \* the measuredSummary of the phase
          warmup,         \* the warm-up's measuredSummary
          validation, exit,
          right,          \* history: all answers of this operation were right
          begun, earned   \* history: operations begun, and answered right, in the phase

opVars == << message, validationOnly, stage, silent, mode, expired, summary, warmup,
             validation, exit, right, begun, earned >>

emptySummary == [e \in Ends |-> 0]

OperationInit ==
  /\ message \in BOOLEAN /\ validationOnly \in BOOLEAN
  /\ stage = "idle" /\ silent = FALSE /\ mode = "start" /\ expired = FALSE
  /\ summary = emptySummary /\ warmup = emptySummary
  /\ validation = "none" /\ exit = "none"
  /\ right = TRUE /\ begun = 0 /\ earned = 0

(* main: identity, scenario, profile, target or roots are refused with exit *)
(* code 2, a scenario of knownUnsupported with 3, and 1 is for an artifact  *)
(* directory that cannot be written.                                        *)
CheckRequest ==
  /\ mode = "start"
  /\ \/ mode' = "preflight" /\ UNCHANGED exit
     \/ mode' = "exited" /\ exit' \in {"1", "2", "3"}
  /\ UNCHANGED << message, validationOnly, stage, silent, expired, summary, warmup,
                  validation, right, begun, earned >>

(* runOperation is called: once by main, in a loop by runFor. *)
Begin ==
  /\ stage = "idle" /\ mode \in {"preflight", "warmup", "measured"}
  /\ mode # "preflight" => ~expired
  /\ begun < MaxOps
  /\ stage' = "dial" /\ right' = TRUE /\ begun' = begun + 1
  /\ UNCHANGED << message, validationOnly, silent, mode, expired, summary, warmup,
                  validation, exit, earned >>

(* What the operation waits for next. *)
After(s) ==
  CASE s = "dial" -> "settings" [] s = "settings" -> "headers"
    [] s = "headers" -> IF message THEN "message" ELSE "close"
    [] s = "message" -> "close"

(* The result of an operation: runFor counts it, main returns a preflight's *)
(* error. A preflight that went well is the measurement of -validation-only.*)
Return(end) ==
  /\ stage' = "idle"
  /\ IF mode = "preflight" /\ end # "completed"
       THEN /\ mode' = "exited" /\ validation' = "failed" /\ exit' = "1"
            /\ UNCHANGED << summary, begun, earned >>
     ELSE IF mode = "preflight"
       THEN /\ mode' = IF validationOnly THEN "report" ELSE "warmup"
            /\ summary' = IF validationOnly THEN [emptySummary EXCEPT !["completed"] = 1]
                          ELSE emptySummary
            /\ begun' = IF validationOnly THEN begun ELSE 0
            /\ earned' = IF validationOnly /\ right' THEN 1 ELSE 0
            /\ UNCHANGED << validation, exit >>
     ELSE /\ summary' = [summary EXCEPT ![end] = @ + 1]
          /\ earned' = IF end = "completed" /\ right' THEN earned + 1 ELSE earned
          /\ UNCHANGED << mode, validation, exit, begun >>

(* An answer arrives. Each stage compares it: certificate, ALPN and TLS,    *)
(* status and prohibited headers, opcode, mask and payload, the close code. *)
(* SETTINGS without the value are acknowledged, and the wait goes on.       *)
Answer(ok) ==
  /\ stage # "idle" /\ ~silent /\ (stage = "settings" => ok)
  /\ right' = (right /\ ok)
  /\ IF ~ok THEN Return("failed")
     ELSE IF stage = "close" THEN Return("completed")
     ELSE /\ stage' = After(stage)
          /\ UNCHANGED << summary, mode, validation, exit, begun, earned >>
  /\ UNCHANGED << message, validationOnly, silent, expired, warmup >>

(* The connection breaks; the operating system may report a timeout. *)
Breaks ==
  /\ stage # "idle" /\ ~silent
  /\ \E end \in {"failed", "timedOut"} : Return(end)
  /\ UNCHANGED << message, validationOnly, silent, expired, warmup, right >>

(* The peer falls silent with the connection open. *)
Silence ==
  /\ stage # "idle" /\ ~silent /\ silent' = TRUE
  /\ UNCHANGED << message, validationOnly, stage, mode, expired, summary, warmup,
                  validation, exit, right, begun, earned >>

(* opctx is given to DialContext, which covers the TLS handshake, and to    *)
(* nothing that follows.                                                    *)
DialTimesOut ==
  /\ stage = "dial"
  /\ Return("timedOut")
  /\ UNCHANGED << message, validationOnly, silent, expired, warmup, right >>

Expire ==
  /\ mode \in {"warmup", "measured"} /\ ~expired /\ expired' = TRUE
  /\ UNCHANGED << message, validationOnly, stage, silent, mode, summary, warmup,
                  validation, exit, right, begun, earned >>

(* runFor returns; the warm-up's summary is written and not looked at. *)
EndPhase ==
  /\ mode \in {"warmup", "measured"} /\ stage = "idle" /\ expired
  /\ IF mode = "warmup"
       THEN /\ mode' = "measured" /\ warmup' = summary /\ summary' = emptySummary
            /\ expired' = FALSE /\ begun' = 0 /\ earned' = 0
       ELSE mode' = "report" /\ UNCHANGED << summary, warmup, expired, begun, earned >>
  /\ UNCHANGED << message, validationOnly, stage, silent, validation, exit, right >>

(* The artifacts, then the gate. *)
ReportCompletedOnly ==
  /\ mode = "report" /\ mode' = "exited" /\ validation' = "passed"
  /\ exit' = IF summary["completed"] = 0 THEN "1" ELSE "0"
  /\ UNCHANGED << message, validationOnly, stage, silent, expired, summary, warmup, right,
                  begun, earned >>

ReportStops ==
  /\ mode = "report" /\ summary["completed"] > 0
  /\ mode' = "exited" /\ validation' = "passed"
  /\ exit' = IF summary["failed"] # 0 \/ summary["timedOut"] # 0 THEN "1" ELSE "0"
  /\ UNCHANGED << message, validationOnly, stage, silent, expired, summary, warmup, right,
                  begun, earned >>

Report ==
  /\ mode = "report" /\ mode' = "exited" /\ validation' = "passed"
  /\ exit' = IF summary["completed"] = 0 \/ summary["failed"] # 0 \/ summary["timedOut"] # 0
               THEN "1" ELSE "0"
  /\ UNCHANGED << message, validationOnly, stage, silent, expired, summary, warmup, right,
                  begun, earned >>

Progress ==
  \/ CheckRequest \/ Begin \/ Answer(TRUE) \/ Answer(FALSE) \/ Breaks \/ DialTimesOut \/ Expire
  \/ EndPhase \/ Report

OperationNext == Progress \/ Silence

OperationSpec == OperationInit /\ [][OperationNext]_opVars

(* The process runs, timers fire, and a peer that is not silent answers or  *)
(* ends the connection.                                                     *)
FairOperationSpec == OperationSpec /\ WF_opVars(Progress)

-----------------------------------------------------------------------------
(* The variables keep their types, and no phase counts more operations than *)
(* it began.                                                                *)
OperationTypeOK ==
  /\ message \in BOOLEAN /\ validationOnly \in BOOLEAN /\ silent \in BOOLEAN
  /\ stage \in {"idle", "dial", "settings", "headers", "message", "close"}
  /\ mode \in {"start", "preflight", "warmup", "measured", "report", "exited"}
  /\ summary \in [Ends -> 0..MaxOps] /\ warmup \in [Ends -> 0..MaxOps]
  /\ validation \in {"none", "passed", "failed"} /\ exit \in {"none", "0", "1", "2", "3"}

(* Exit code 0 is earned in the measured phase, or in the preflight of a    *)
(* validation: at least one operation, and every one that was begun got the *)
(* right answer at every stage.                                             *)
ExitZeroIsEarned == exit = "0" => begun > 0 /\ earned = begun

(* The same, and the variables keep their types. *)
OperationResultIsEarned == OperationTypeOK /\ ExitZeroIsEarned

(* While the peer does not fall silent for good, the process ends. *)
EndsUnlessSilent == <>(silent \/ exit # "none")

(* "operationTimeoutMilliseconds: 5000": an operation comes to its end      *)
(* although the peer has fallen silent, because its time is limited.        *)
OperationTimesOut == stage # "idle" ~> stage = "idle"
=============================================================================
