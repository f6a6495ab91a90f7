----------------------------- MODULE MCChallenge -----------------------------
(***************************************************************************)
(* A small challenge: three segments revealed in chunks of one or two,     *)
(* three rounds to an entry and three to a summary leaf, each of three     *)
(* digests.  The choice 256 is the first that does not fit its byte.       *)
(***************************************************************************)
EXTENDS ChallengeProperties

MCChoices == {0, 1, 2, 3, 256}

MCTerms ==
  [challengeWindowSlots |-> 1, responseWindowSlots |-> 2,
   challengerBondLamports |-> 1, executorBondLamports |-> 3,
   executorRewardBps |-> 5000, settlementProgram |-> "nonzero",
   customSettleWindowSlots |-> 2, resultRetentionSlots |-> 1]

MCBinding ==
  [executor |-> "nonzero", requestId |-> "zero", consumerDigest |-> "zero",
   outputFirstPosition |-> 0, outputCount |-> 1, outputWidth |-> 4]
=============================================================================
