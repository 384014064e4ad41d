--------------------------- MODULE MCH2LoadPhase ---------------------------
(***************************************************************************)
(* As many workers as slots, the shape of every committed profile.         *)
(***************************************************************************)
EXTENDS H2LoadPhase

CONSTANTS w1, w2

TwoWorkers == {w1, w2}

=============================================================================
