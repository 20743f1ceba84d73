----------------------------- MODULE MCJobSystem -----------------------------
(***************************************************************************)
(* Model values for TLC's runs of JobSystem.                               *)
(***************************************************************************)
EXTENDS JobSystem, TLC

CONSTANTS j1, w1, w2

OneJob     == {j1}
TwoWorkers == {w1, w2}
=============================================================================
