----------------------------- MODULE MCLanding ------------------------------
(***************************************************************************)
(* Small instances of landing for TLC.                                     *)
(***************************************************************************)
EXTENDS Landing

CONSTANTS r1, r2
=============================================================================
