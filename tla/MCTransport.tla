---------------------------- MODULE MCTransport -----------------------------
(***************************************************************************)
(* A small instance of the transport for TLC: one signed transaction, sent *)
(* and confirmed any number of times.  What the model keeps of a           *)
(* transaction is independent of every other, so a second one would add    *)
(* states and no behaviour.                                                *)
(***************************************************************************)
EXTENDS Transport

CONSTANTS t1
=============================================================================
