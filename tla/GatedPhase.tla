----------------------------- MODULE GatedPhase -----------------------------
(***************************************************************************)
(* What a load phase promises, without scheduler, recorder or goroutines:  *)
(* no operation ends before all workers have one in flight together, every *)
(* worker completes at least one operation, and the phase is over only     *)
(* when nothing is in flight.  A phase whose connections cannot be dialled *)
(* is aborted before anything is in flight.                                *)
(***************************************************************************)
CONSTANT Workers

VARIABLES
  inFlight,  \* workers with an operation in flight
  opened,    \* the gate has opened
  ended,     \* workers that have completed an operation
  status     \* "running", "done" or "aborted"

gatedVars == <<inFlight, opened, ended, status>>

GatedInit ==
  /\ inFlight = {}
  /\ opened = FALSE
  /\ ended = {}
  /\ status = "running"

BeginOperation(w) ==
  /\ status = "running"
  /\ w \notin inFlight
  /\ inFlight' = inFlight \cup {w}
  /\ UNCHANGED <<opened, ended, status>>

OpenGate ==
  /\ status = "running"
  /\ ~opened
  /\ inFlight = Workers
  /\ opened' = TRUE
  /\ UNCHANGED <<inFlight, ended, status>>

EndOperation(w) ==
  /\ opened
  /\ w \in inFlight
  /\ inFlight' = inFlight \ {w}
  /\ ended' = ended \cup {w}
  /\ UNCHANGED <<opened, status>>

FinishPhase ==
  /\ status = "running"
  /\ opened
  /\ inFlight = {}
  /\ ended = Workers
  /\ status' = "done"
  /\ UNCHANGED <<inFlight, opened, ended>>

AbortPhase ==
  /\ status = "running"
  /\ ~opened
  /\ inFlight = {}
  /\ status' = "aborted"
  /\ UNCHANGED <<inFlight, opened, ended>>

GatedNext ==
  \/ \E w \in Workers : BeginOperation(w) \/ EndOperation(w)
  \/ OpenGate
  \/ FinishPhase
  \/ AbortPhase

GatedSpec == GatedInit /\ [][GatedNext]_gatedVars

=============================================================================
