--------------------------- MODULE MCClientReads ----------------------------
(***************************************************************************)
(* Small instances of the reads for TLC: five accounts, one of them asked  *)
(* for twice and one missing, in batches of at most four; two outputs; and *)
(* a program that calls and is called by another.                          *)
(***************************************************************************)
EXTENDS ClientReads

CONSTANTS a, b, d, e, p, q

MCKeys == <<a, b, a, d, e>>
=============================================================================
