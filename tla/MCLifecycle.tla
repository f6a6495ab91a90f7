---------------------------- MODULE MCLifecycle -----------------------------
(***************************************************************************)
(* Small instances of the document's life for TLC.                         *)
(***************************************************************************)
EXTENDS LifecycleProperties, TLC

CONSTANTS c1, c2

\* A bond of 3 at half reward leaves an odd lamport to round.
MCTerms ==
  [challengeWindowSlots |-> 1, responseWindowSlots |-> 1,
   challengerBondLamports |-> 1, executorBondLamports |-> 3,
   executorRewardBps |-> 5000, settlementProgram |-> "nonzero",
   customSettleWindowSlots |-> 1, resultRetentionSlots |-> 1]

\* An executor bond of one lamport, and a settlement program that may keep its
\* callback failing until the custom window has passed.
MCCustomTerms ==
  [challengeWindowSlots |-> 1, responseWindowSlots |-> 1,
   challengerBondLamports |-> 1, executorBondLamports |-> 1,
   executorRewardBps |-> 10000, settlementProgram |-> "nonzero",
   customSettleWindowSlots |-> 1, resultRetentionSlots |-> 2]

\* The output is at the second of the document's two positions.
MCBinding ==
  [executor |-> "nonzero", requestId |-> "nonzero", consumerDigest |-> "nonzero",
   outputFirstPosition |-> 1, outputCount |-> 1, outputWidth |-> 16]

Symmetry == Permutations({c1, c2})
=============================================================================
