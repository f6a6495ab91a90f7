----------------------------- MODULE Lifecycle ------------------------------
(***************************************************************************)
(* The life of one DCG document: its header account DCM2, its result       *)
(* record DCR2, the challenge records DCR1 opened against it, and the      *)
(* lamports held in escrow, from UnifiedInit to the tombstone DCRZ.        *)
(*                                                                         *)
(* Each action is one instruction, executed atomically at the current      *)
(* slot: a refused transaction is rolled back, so a refusal is an action   *)
(* that is not enabled.  Instructions are sent by independent parties (the *)
(* executor, challengers, anyone) in any order.                            *)
(*                                                                         *)
(* The SDK holds the reference code of the result handlers (finalize,      *)
(* resolve, close document, close result) and of the landing handler.  The *)
(* challenge handlers run only in the on-chain program; they are modelled  *)
(* from the records, flags, counters and deadlines the SDK decodes, and    *)
(* with the detail of a round left to whose turn it is.                    *)
(***************************************************************************)
EXTENDS RunTerms, FiniteSets

CONSTANTS
  ChallengeAddresses,  \* DCR1 addresses: one per challenger and nonce
  MaxBatch,            \* most roots one LandPositionRoots carries
  FirstSlot,           \* the slot at which the behaviour starts
  MaxSlot,             \* bound: the clock stops here
  MaxOpens,            \* bound: challenges opened, over the whole behaviour
  MaxRounds            \* bound: turns answered in one challenge

ASSUME LifecycleAssumption ==
  /\ IsFiniteSet(ChallengeAddresses)
  /\ MaxBatch \in Nat
  /\ FirstSlot \in Nat \ {0}
  /\ MaxSlot \in Nat
  /\ MaxSlot <= U64_MAX
  /\ FirstSlot <= MaxSlot
  /\ MaxOpens \in Nat
  /\ MaxRounds \in Nat

VARIABLES
  slot,        \* the Clock slot
  document,    \* the DCM2 account
  result,      \* the DCR2 account, later the DCRZ tombstone
  challenges,  \* the DCR1 accounts
  opened,      \* how many challenges were ever opened, for MaxOpens
  bank         \* lamports in escrow, and each side's net flow

vars == <<slot, document, result, challenges, opened, bank>>

-----------------------------------------------------------------------------
(* Accounts                                                                *)

STATUS_PENDING == "PENDING"
STATUS_FINAL   == "FINAL"
STATUS_REFUTED == "REFUTED"
STATUS_SETTLED == "SETTLED"
USABLE_STATUSES == {STATUS_FINAL, STATUS_SETTLED}
Statuses == {STATUS_PENDING, STATUS_FINAL, STATUS_REFUTED, STATUS_SETTLED}

\* The flags that change; ARMED, ROOT_ONLY and SEALED are set at init for good.
FLAG_FINAL   == "FLAG_FINAL"
FLAG_REFUTED == "FLAG_REFUTED"

BOND_NONE     == "NONE"
BOND_HELD     == "HELD"
BOND_PAID     == "PAID"
BOND_RETURNED == "RETURNED"

Slots   == 0..MaxSlot
Outputs == 0..(Binding.outputCount - 1)

\* A document root commits to the first n landed positions: it is abstracted to
\* n, and the zero root to 0.
Roots == 0..PositionCount

Documents ==
  [account           : {"empty", "live", "drained"},
   flags             : SUBSET {FLAG_FINAL, FLAG_REFUTED},
   positionsComplete : Roots,
   documentRoot      : Roots,
   openChallenges    : Nat,
   challengerWins    : Nat,
   finalizeSlot      : Slots,
   disputeDeadline   : Slots,
   executorBondState : {BOND_NONE, BOND_HELD, BOND_PAID, BOND_RETURNED}]

Results ==
  [account            : {"empty", "DCR2", "DCRZ"},
   status             : Statuses,
   documentClosed     : {0, 1},
   documentRoot       : Roots,
   finalizeSlot       : Slots,
   disputeDeadline    : Slots,
   statusSlot         : Slots,
   challengerWins     : Nat,
   retentionStartSlot : Slots,
   retentionDeadline  : 0..U64_MAX,
   outputs            : SUBSET Outputs,
   closedSlot         : Slots]

\* A round of a challenge waits for one party; the other wins if it stays silent.
EXECUTOR_TURN   == "executorTurn"
CHALLENGER_TURN == "challengerTurn"
RULED           == "ruled"
ABSENT          == "absent"

WINNER_EXECUTOR   == "executor"
WINNER_CHALLENGER == "challenger"
NoWinner          == "nobody"

ChallengeRecords ==
  [phase                    : {ABSENT, EXECUTOR_TURN, CHALLENGER_TURN, RULED},
   winner                   : {NoWinner, WINNER_EXECUTOR, WINNER_CHALLENGER},
   deadline                 : Slots,
   customSettlementDeadline : Slots,
   rounds                   : 0..MaxRounds]

NoRecord ==
  [phase |-> ABSENT, winner |-> NoWinner, deadline |-> 0,
   customSettlementDeadline |-> 0, rounds |-> 0]

\* Lamports held for each kind of account, and each side's balance since the start.
Banks ==
  [document : Int, records : Int, executor : Int, challengers : Int, burned : Int]

Live == {c \in ChallengeAddresses : challenges[c].phase # ABSENT}

Finalized == FLAG_FINAL \in document.flags
Refuted   == FLAG_REFUTED \in document.flags

-----------------------------------------------------------------------------
(* Derived values of the result record                                     *)

outputsAttested == Cardinality(result.outputs)
AllAttested == result.outputs = Outputs

usable ==
  /\ result.account = "DCR2"
  /\ result.status \in USABLE_STATUSES
  /\ result.documentRoot # 0
  /\ AllAttested

-----------------------------------------------------------------------------
(* Creation                                                                *)

EmptyDocument ==
  [account |-> "empty", flags |-> {}, positionsComplete |-> 0,
   documentRoot |-> 0, openChallenges |-> 0, challengerWins |-> 0,
   finalizeSlot |-> 0, disputeDeadline |-> 0, executorBondState |-> BOND_NONE]

NewDocument ==
  [EmptyDocument EXCEPT
    !.account = "live",
    !.executorBondState =
        IF Terms.executorBondLamports = 0 THEN BOND_NONE ELSE BOND_HELD]

EmptyResult ==
  [account |-> "empty", status |-> STATUS_PENDING, documentClosed |-> 0,
   documentRoot |-> 0, finalizeSlot |-> 0, disputeDeadline |-> 0,
   statusSlot |-> 0, challengerWins |-> 0, retentionStartSlot |-> 0,
   retentionDeadline |-> 0, outputs |-> {}, closedSlot |-> 0]

atInit == [EmptyResult EXCEPT !.account = "DCR2"]

Init ==
  /\ slot = FirstSlot
  /\ document = EmptyDocument
  /\ result = EmptyResult
  /\ challenges = [c \in ChallengeAddresses |-> NoRecord]
  /\ opened = 0
  /\ bank = [document |-> 0, records |-> 0,
             executor |-> 0, challengers |-> 0, burned |-> 0]

\* Tag 161.  Creating an account that already holds data fails, so a descriptor
\* whose result account holds a record or a tombstone cannot be created again.
UnifiedInit ==
  /\ document.account # "live"
  /\ result.account = "empty"
  /\ document' = NewDocument
  /\ result' = atInit
  /\ bank' = [bank EXCEPT !.document = @ + Terms.executorBondLamports,
                          !.executor = @ - Terms.executorBondLamports]
  /\ UNCHANGED <<slot, challenges, opened>>

Tick ==
  /\ slot < MaxSlot
  /\ slot' = slot + 1
  /\ UNCHANGED <<document, result, challenges, opened, bank>>

-----------------------------------------------------------------------------
(* Committing to a run                                                     *)

\* Mutant: the batch is not held to the document's length.
landPositionRoots_PastEnd(first, count) ==
  /\ document.account = "live"
  /\ ~ Finalized
  /\ first = document.positionsComplete
  /\ document' = [document EXCEPT !.positionsComplete = first + count]
  /\ UNCHANGED <<slot, result, challenges, opened, bank>>

\* Tag 162, sent by the executor.
landPositionRoots(first, count) ==
  /\ document.account = "live"
  /\ ~ Finalized
  /\ first = document.positionsComplete
  /\ first + count <= PositionCount
  /\ document' = [document EXCEPT !.positionsComplete = first + count]
  /\ UNCHANGED <<slot, result, challenges, opened, bank>>

\* Tag 177, sent by anyone.
AttestOutput(index) ==
  /\ document.account = "live"
  /\ result.account = "DCR2"
  /\ result.documentClosed = 0
  /\ index \notin result.outputs
  /\ Binding.outputFirstPosition + index < document.positionsComplete
  /\ result' = [result EXCEPT !.outputs = @ \cup {index}]
  /\ UNCHANGED <<slot, document, challenges, opened, bank>>

\* The result half of tag 165: the record takes the document's root and slots.
finalizeResult(doc) ==
  result' = [result EXCEPT !.documentRoot = doc.documentRoot,
                           !.finalizeSlot = doc.finalizeSlot,
                           !.disputeDeadline = doc.disputeDeadline]

\* Tag 165, sent by the executor.  Bound: the challenge window ends before the
\* clock stops.
FinalizeDocument ==
  /\ document.account = "live"
  /\ ~ Finalized
  /\ document.positionsComplete = PositionCount
  /\ slot + Terms.challengeWindowSlots < MaxSlot
  /\ document' = [document EXCEPT
                    !.flags = @ \cup {FLAG_FINAL},
                    !.documentRoot = document.positionsComplete,
                    !.finalizeSlot = slot,
                    !.disputeDeadline = slot + Terms.challengeWindowSlots]
  /\ finalizeResult(document')
  /\ UNCHANGED <<slot, challenges, opened, bank>>

-----------------------------------------------------------------------------
(* Challenges                                                              *)

\* Bound: a round deadline falls before the clock stops.
RoundDeadline == slot + Terms.responseWindowSlots
RoundFits == RoundDeadline < MaxSlot

\* Bound: a custom deadline past the last slot of the clock is the last slot.
CustomDeadline ==
  IF slot + Terms.customSettleWindowSlots <= MaxSlot
    THEN slot + Terms.customSettleWindowSlots ELSE MaxSlot

\* Every ruling, by whatever path.  A ruling for the challenger marks the
\* document; the custom settlement window opens only for such a ruling.
RuledRecord(winner) ==
  [phase |-> RULED, winner |-> winner, deadline |-> 0, rounds |-> 0,
   customSettlementDeadline |->
     IF winner = WINNER_CHALLENGER /\ ~ isZero(Terms.settlementProgram)
       THEN CustomDeadline ELSE 0]

Rule(c, winner) == challenges' = [challenges EXCEPT ![c] = RuledRecord(winner)]

\* The document's side of a ruling.
MarkRuling(doc, winner) ==
  IF winner = WINNER_CHALLENGER
    THEN [doc EXCEPT !.flags = @ \cup {FLAG_REFUTED}, !.challengerWins = @ + 1]
    ELSE doc

\* Mutant: the challenge window is not checked.
MayOpen_Late(c) ==
  /\ document.account = "live"
  /\ Finalized
  /\ challenges[c].phase = ABSENT
  /\ opened < MaxOpens

MayOpen(c) ==
  /\ document.account = "live"
  /\ Finalized
  /\ slot <= document.disputeDeadline
  /\ challenges[c].phase = ABSENT
  /\ opened < MaxOpens

PostChallengerBond ==
  bank' = [bank EXCEPT !.records = @ + Terms.challengerBondLamports,
                       !.challengers = @ - Terms.challengerBondLamports]

\* Mutant: an opened challenge is not counted.
CountOpen_Forgotten(doc) == doc

CountOpen(doc) == [doc EXCEPT !.openChallenges = @ + 1]

\* The first turn is the executor's.
OpenedRecord == [NoRecord EXCEPT !.phase = EXECUTOR_TURN, !.deadline = RoundDeadline]

\* Tags 166, 167, 171.
OpenChallenge(c) ==
  /\ MayOpen(c)
  /\ RoundFits
  /\ challenges' = [challenges EXCEPT ![c] = OpenedRecord]
  /\ document' = CountOpen(document)
  /\ opened' = opened + 1
  /\ PostChallengerBond
  /\ UNCHANGED <<slot, result>>

\* Tag 166 whose class check convicts: opened and ruled by one instruction.
OpenAndConvict(c) ==
  /\ MayOpen(c)
  /\ Rule(c, WINNER_CHALLENGER)
  /\ document' = MarkRuling(CountOpen(document), WINNER_CHALLENGER)
  /\ opened' = opened + 1
  /\ PostChallengerBond
  /\ UNCHANGED <<slot, result>>

\* After an answer it is some party's turn, with a new deadline: mostly the other
\* party's, but a sealed response and a summary leaf fixed early leave it the
\* executor's.
AnsweredRecord(record, turn) ==
  [record EXCEPT !.phase = turn, !.deadline = RoundDeadline, !.rounds = @ + 1]

Respond(c) ==
  /\ challenges[c].phase \in {EXECUTOR_TURN, CHALLENGER_TURN}
  /\ slot <= challenges[c].deadline
  /\ challenges[c].rounds < MaxRounds
  /\ RoundFits
  /\ \E turn \in {EXECUTOR_TURN, CHALLENGER_TURN} :
       challenges' = [challenges EXCEPT ![c] = AnsweredRecord(@, turn)]
  /\ UNCHANGED <<slot, document, result, opened, bank>>

\* The executor's last answer is executed and judged either way; the
\* challenger's last descent can only convict.
Verdict(c, winner) ==
  /\ challenges[c].phase \in {EXECUTOR_TURN, CHALLENGER_TURN}
  /\ challenges[c].phase = CHALLENGER_TURN => winner = WINNER_CHALLENGER
  /\ slot <= challenges[c].deadline
  /\ Rule(c, winner)
  /\ document' = MarkRuling(document, winner)
  /\ UNCHANGED <<slot, result, opened, bank>>

\* Mutant: a silent challenger is never timed out.
Timeout_ExecutorOnly(c) ==
  /\ challenges[c].phase = EXECUTOR_TURN
  /\ slot > challenges[c].deadline
  /\ Rule(c, WINNER_CHALLENGER)
  /\ document' = MarkRuling(document, WINNER_CHALLENGER)
  /\ UNCHANGED <<slot, result, opened, bank>>

\* Tag 132, sent by anyone: the silent party loses.
Timeout(c) ==
  LET winner == IF challenges[c].phase = EXECUTOR_TURN
                  THEN WINNER_CHALLENGER ELSE WINNER_EXECUTOR
  IN  /\ challenges[c].phase \in {EXECUTOR_TURN, CHALLENGER_TURN}
      /\ slot > challenges[c].deadline
      /\ Rule(c, winner)
      /\ document' = MarkRuling(document, winner)
      /\ UNCHANGED <<slot, result, opened, bank>>

-----------------------------------------------------------------------------
(* Settlement, tag 131, sent by anyone                                     *)

\* How the executor bond may be divided: by the built-in rule, or by the
\* settlement program in any way that pays out the whole pot.
BuiltInRoute == {[winner |-> builtInSettlement(Terms).reward, loser |-> 0,
                  burned |-> builtInSettlement(Terms).burn]}
CustomRoute ==
  LET pot == Terms.executorBondLamports
  IN  {split \in [winner : 0..pot, loser : 0..pot, burned : 0..pot] :
         split.winner + split.loser + split.burned = pot}

Route(c) ==
  IF ~ isZero(Terms.settlementProgram) /\ slot < challenges[c].customSettlementDeadline
    THEN CustomRoute ELSE BuiltInRoute

ReturnedBond(winner) ==
  [bank EXCEPT
    !.records = @ - Terms.challengerBondLamports,
    !.executor = IF winner = WINNER_EXECUTOR
                   THEN @ + Terms.challengerBondLamports ELSE @,
    !.challengers = IF winner = WINNER_CHALLENGER
                      THEN @ + Terms.challengerBondLamports ELSE @]

DivideBond(b, split) ==
  [b EXCEPT !.document = @ - Terms.executorBondLamports,
            !.challengers = @ + split.winner,
            !.executor = @ + split.loser,
            !.burned = @ + split.burned]

\* The record closes and its bond goes to the ruling winner.
CloseRecord(c) ==
  /\ challenges[c].phase = RULED
  /\ challenges' = [challenges EXCEPT ![c] = NoRecord]
  /\ UNCHANGED <<slot, result, opened>>

\* Mutant: the bond is divided but not marked paid.
SettleWithPot_Unmarked(c) ==
  /\ CloseRecord(c)
  /\ challenges[c].winner = WINNER_CHALLENGER
  /\ document.executorBondState = BOND_HELD
  /\ document' = [document EXCEPT !.openChallenges = @ - 1]
  /\ \E split \in Route(c) :
       bank' = DivideBond(ReturnedBond(WINNER_CHALLENGER), split)

\* The first settled challenger win divides the executor bond.
SettleWithPot(c) ==
  /\ CloseRecord(c)
  /\ challenges[c].winner = WINNER_CHALLENGER
  /\ document.executorBondState = BOND_HELD
  /\ document' = [document EXCEPT !.openChallenges = @ - 1,
                                  !.executorBondState = BOND_PAID]
  /\ \E split \in Route(c) :
       bank' = DivideBond(ReturnedBond(WINNER_CHALLENGER), split)

\* Mutant: a winning challenger may be settled without its share.
SettleWithoutPot_Always(c) ==
  /\ CloseRecord(c)
  /\ document' = [document EXCEPT !.openChallenges = @ - 1]
  /\ bank' = ReturnedBond(challenges[c].winner)

\* Mutant: the settled challenge stays counted.
SettleWithoutPot_Counted(c) ==
  /\ CloseRecord(c)
  /\ \/ challenges[c].winner = WINNER_EXECUTOR
     \/ document.executorBondState # BOND_HELD
  /\ bank' = ReturnedBond(challenges[c].winner)
  /\ UNCHANGED document

SettleWithoutPot(c) ==
  /\ CloseRecord(c)
  /\ \/ challenges[c].winner = WINNER_EXECUTOR
     \/ document.executorBondState # BOND_HELD
  /\ document' = [document EXCEPT !.openChallenges = @ - 1]
  /\ bank' = ReturnedBond(challenges[c].winner)

-----------------------------------------------------------------------------
(* The result record                                                       *)

\* Mutant: the win counter is not copied.
WriteStatus_NoWins(r, status) == [r EXCEPT !.status = status, !.statusSlot = slot]

WriteStatus(r, status) ==
  [r EXCEPT !.status = status,
            !.statusSlot = slot,
            !.challengerWins = document.challengerWins]

\* Mutant: the last slot of the challenge window counts as past it.
FinalReady_AtDeadline ==
  /\ ~ Refuted
  /\ Finalized
  /\ slot >= document.disputeDeadline
  /\ document.openChallenges = 0
  /\ AllAttested

FinalReady ==
  /\ ~ Refuted
  /\ Finalized
  /\ slot > document.disputeDeadline
  /\ document.openChallenges = 0
  /\ AllAttested

\* Tag 178, sent by anyone.
ResolveResult ==
  /\ document.account = "live"
  /\ result.account = "DCR2"
  /\ result.status = STATUS_PENDING
  /\ result.documentClosed = 0
  /\ \/ /\ Refuted
        /\ result' = WriteStatus(result, STATUS_REFUTED)
     \/ /\ FinalReady
        /\ result' = WriteStatus(result, STATUS_FINAL)
  /\ UNCHANGED <<slot, document, challenges, opened, bank>>

\* Mutant: retention is counted from the end of the challenge window.
StartRetention_FromDispute(r) ==
  [r EXCEPT !.documentClosed = 1,
            !.retentionStartSlot = slot,
            !.retentionDeadline = r.disputeDeadline + Terms.resultRetentionSlots]

StartRetention(r) ==
  [r EXCEPT !.documentClosed = 1,
            !.retentionStartSlot = slot,
            !.retentionDeadline = slot + Terms.resultRetentionSlots]

\* Mutant: the bound of the check is one too large.
RetentionFits_OneMore == slot + Terms.resultRetentionSlots <= U64_MAX + 1

\* The end of the retention, were it to start now, fits its 64-bit field.
RetentionFits == slot + Terms.resultRetentionSlots <= U64_MAX

\* What every close does, once the status it leaves is known.
CloseWith(status) ==
  LET r == IF status = result.status THEN result ELSE WriteStatus(result, status)
  IN  /\ document.account = "live"
      /\ result.account = "DCR2"
      /\ result.documentClosed = 0
      /\ RetentionFits
      /\ document' = [document EXCEPT
                        !.account = "drained",
                        !.executorBondState = IF @ = BOND_HELD THEN BOND_RETURNED ELSE @]
      /\ result' = StartRetention(r)
      /\ bank' = IF document.executorBondState = BOND_HELD
                   THEN [bank EXCEPT !.document = @ - Terms.executorBondLamports,
                                     !.executor = @ + Terms.executorBondLamports]
                   ELSE bank
      /\ UNCHANGED <<slot, challenges, opened>>

\* Tag 172 before finalization: only the executor may abandon the document.
AbandonDocument ==
  /\ ~ Finalized
  /\ CloseWith(result.status)

\* Mutant: an open challenge does not hold the document.
DisputeOver_IgnoresOpen ==
  /\ Finalized
  /\ slot > document.disputeDeadline

DisputeOver ==
  /\ Finalized
  /\ slot > document.disputeDeadline
  /\ document.openChallenges = 0

\* Tag 172 after finalization, sent by anyone.
CloseDocument ==
  /\ DisputeOver
  /\ \/ /\ Refuted
        /\ CloseWith(STATUS_REFUTED)
     \/ /\ ~ Refuted
        /\ AllAttested
        /\ CloseWith(STATUS_SETTLED)

\* Mutants: one slot early, and at one slot only.
RetentionOver_Early == slot + 1 >= result.retentionDeadline
RetentionOver_Exact == slot = result.retentionDeadline

RetentionOver == slot >= result.retentionDeadline

\* Tag 185, sent by anyone: the tombstone keeps only the retention slots.
CloseResult ==
  /\ result.account = "DCR2"
  /\ result.documentClosed = 1
  /\ result.retentionStartSlot # 0
  /\ result.retentionDeadline = result.retentionStartSlot + Terms.resultRetentionSlots
  /\ RetentionOver
  /\ result' = [EmptyResult EXCEPT
                  !.account = "DCRZ",
                  !.retentionStartSlot = result.retentionStartSlot,
                  !.retentionDeadline = result.retentionDeadline,
                  !.closedSlot = slot]
  /\ UNCHANGED <<slot, document, challenges, opened, bank>>

-----------------------------------------------------------------------------

LandPositionRoots ==
  \E count \in 1..MaxBatch : landPositionRoots(document.positionsComplete, count)

Settle(c) == SettleWithPot(c) \/ SettleWithoutPot(c)

ChallengeStep(c) ==
  \/ OpenChallenge(c)
  \/ OpenAndConvict(c)
  \/ Respond(c)
  \/ \E winner \in {WINNER_EXECUTOR, WINNER_CHALLENGER} : Verdict(c, winner)
  \/ Timeout(c)
  \/ Settle(c)

Next ==
  \/ UnifiedInit
  \/ Tick
  \/ LandPositionRoots
  \/ \E index \in Outputs : AttestOutput(index)
  \/ FinalizeDocument
  \/ \E c \in ChallengeAddresses : ChallengeStep(c)
  \/ ResolveResult
  \/ AbandonDocument
  \/ CloseDocument
  \/ CloseResult

Spec == Init /\ [][Next]_vars

\* A settle that does not depend on the settlement program's callback, which may
\* fail as long as it likes before the custom deadline.
SettleWithoutCallback(c) ==
  /\ slot >= challenges[c].customSettlementDeadline
  /\ Settle(c)

\* Time passes, and for every permissionless instruction there is some party
\* with a reason to send it.  Nothing is assumed of the executor's or the
\* challengers' own turns, nor of the settlement program.
Fairness ==
  /\ WF_vars(Tick)
  /\ \A index \in Outputs : WF_vars(AttestOutput(index))
  /\ \A c \in ChallengeAddresses : WF_vars(Timeout(c)) /\ WF_vars(SettleWithoutCallback(c))
  /\ WF_vars(ResolveResult)
  /\ WF_vars(CloseDocument)
  /\ WF_vars(CloseResult)

FairSpec == Spec /\ Fairness
=============================================================================
