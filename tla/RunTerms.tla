------------------------------ MODULE RunTerms ------------------------------
(***************************************************************************)
(* The committed terms of one run: the DDT2 block (RunTerms) and the DRB1  *)
(* block (RunBinding), the checks every encoder and decoder of the SDK     *)
(* applies to them, and the built-in division of the executor bond.        *)
(* Both blocks are hashed into the descriptor and never change afterwards, *)
(* so a run's terms are constants of the specification.                    *)
(***************************************************************************)
EXTENDS Integers

CONSTANTS
  Terms,          \* the run's DDT2 block
  Binding,        \* the run's DRB1 block
  PositionCount,  \* P, the number of positions of the document
  WINDOW_CAP,     \* the longest window, 2^62 slots in the code
  U64_MAX         \* the largest slot and lamport amount, 2^64 - 1 in the code

BPS_DENOMINATOR  == 10000
MAX_OUTPUT_WIDTH == 32
MAX_ACCOUNT_BYTES == 10 * 1024 * 1024
RESULT_V5_HEADER == 336

\* A 32-byte key or digest matters to these checks only as zero or nonzero.
Digest == {"zero", "nonzero"}
isZero(value) == value = "zero"

-----------------------------------------------------------------------------
(* DDT2                                                                    *)

RunTermsBlocks ==
  [challengeWindowSlots    : Nat,
   responseWindowSlots     : Nat,
   challengerBondLamports  : Nat,
   executorBondLamports    : Nat,
   executorRewardBps       : Nat,
   settlementProgram       : Digest,
   customSettleWindowSlots : Nat,
   resultRetentionSlots    : Nat]

checkRunTerms(terms, roundFloorSlots) ==
  /\ terms.challengeWindowSlots \in 1..WINDOW_CAP
  /\ terms.responseWindowSlots \in roundFloorSlots..WINDOW_CAP
  /\ terms.challengerBondLamports \in 0..U64_MAX
  /\ terms.executorBondLamports \in 0..U64_MAX
  /\ terms.executorRewardBps \in 0..BPS_DENOMINATOR
  /\ isZero(terms.settlementProgram) <=> terms.customSettleWindowSlots = 0
  /\ isZero(terms.settlementProgram) \/ terms.customSettleWindowSlots \in 1..WINDOW_CAP
  /\ terms.resultRetentionSlots \in 1..WINDOW_CAP

\* Mutant: both shares are rounded down.
builtInSettlement_RoundsBoth(terms) ==
  [reward |-> (terms.executorBondLamports * terms.executorRewardBps) \div BPS_DENOMINATOR,
   burn   |-> (terms.executorBondLamports * (BPS_DENOMINATOR - terms.executorRewardBps))
                \div BPS_DENOMINATOR]

\* The winner's share of the executor bond, rounded down, and the exact
\* remainder, which is burned.
builtInSettlement(terms) ==
  LET reward == (terms.executorBondLamports * terms.executorRewardBps) \div BPS_DENOMINATOR
  IN  [reward |-> reward, burn |-> terms.executorBondLamports - reward]

-----------------------------------------------------------------------------
(* DRB1                                                                    *)

RunBindings ==
  [executor            : Digest,
   requestId           : Digest,
   consumerDigest      : Digest,
   outputFirstPosition : Nat,
   outputCount         : Nat,
   outputWidth         : Nat]

resultV5Bytes(count, width) ==
  RESULT_V5_HEADER + count * width + (count + 7) \div 8

checkRunBinding(binding, positionCount) ==
  /\ ~ isZero(binding.executor)
  /\ isZero(binding.requestId) <=> isZero(binding.consumerDigest)
  /\ binding.outputCount >= 1
  /\ binding.outputWidth \in 1..MAX_OUTPUT_WIDTH
  /\ resultV5Bytes(binding.outputCount, binding.outputWidth) <= MAX_ACCOUNT_BYTES
  /\ binding.outputFirstPosition + binding.outputCount <= positionCount

-----------------------------------------------------------------------------
(* What UnifiedInit has checked before a document exists.                  *)

ASSUME LimitsAssumption ==
  /\ WINDOW_CAP \in Nat
  /\ U64_MAX \in Nat
  /\ PositionCount \in Nat \ {0}

ASSUME TermsAssumption ==
  /\ Terms \in RunTermsBlocks
  /\ checkRunTerms(Terms, 1)

ASSUME BindingAssumption ==
  /\ Binding \in RunBindings
  /\ checkRunBinding(Binding, PositionCount)
=============================================================================
