------------------------------ MODULE MCJobSse ------------------------------
(***************************************************************************)
(* Model values for TLC's runs of JobSse.                                  *)
(***************************************************************************)
EXTENDS JobSse

CONSTANTS c1, c2

TwoConns == {c1, c2}
=============================================================================
