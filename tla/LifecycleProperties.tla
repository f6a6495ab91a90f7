------------------------ MODULE LifecycleProperties -------------------------
(***************************************************************************)
(* What must hold of a document's life, whatever the order in which the    *)
(* executor, the challengers and everybody else send their instructions.   *)
(***************************************************************************)
EXTENDS Lifecycle

\* Types: every account keeps the shape its decoder accepts field by field.
TypeOK ==
  /\ slot \in Slots
  /\ document \in Documents
  /\ result \in Results
  /\ challenges \in [ChallengeAddresses -> ChallengeRecords]
  /\ opened \in 0..MaxOpens
  /\ bank \in Banks

-----------------------------------------------------------------------------
(* Acceptance                                                              *)

\* A usable result is beyond dispute: the executor lost no challenge, none is
\* still open, none can be opened any more, and the root and deadlines read
\* from the result are those the document was finalized with.
UsableIsUncontested ==
  usable =>
    /\ document.challengerWins = 0
    /\ Live = {}
    /\ slot > document.disputeDeadline
    /\ result.documentRoot = document.documentRoot
    /\ result.disputeDeadline = document.disputeDeadline
    /\ result.challengerWins = 0

\* A refuted result was refuted by a ruling: the executor really lost.
RefutedWasRuled ==
  result.status = STATUS_REFUTED =>
    /\ Refuted
    /\ result.challengerWins \in 1..document.challengerWins

\* What a consumer has accepted never changes: a usable result keeps its root
\* and its outputs and stays usable, until the retention deadline has passed
\* and it is replaced by the tombstone.
AnswerIsStable ==
  [][usable =>
      \/ /\ usable'
         /\ result'.documentRoot = result.documentRoot
         /\ result'.outputs = result.outputs
      \/ /\ result'.account = "DCRZ"
         /\ slot >= result.retentionDeadline]_vars

-----------------------------------------------------------------------------
(* Challenges                                                              *)

\* The counter that guards resolve and close is exact, and a document stays
\* alive and finalized as long as a challenge against it is not settled: no
\* close can strand a challenge record and the bond in it.
OpenChallengesExact ==
  /\ document.openChallenges = Cardinality(Live)
  /\ Live # {} => document.account = "live" /\ Finalized

-----------------------------------------------------------------------------
(* Escrow                                                                  *)

\* The escrow accounts hold exactly the bonds of the disputes still undecided:
\* the executor's while its bond is held, a challenger's while its record lives.
EscrowBacked ==
  /\ bank.document = IF document.account = "live" /\ document.executorBondState = BOND_HELD
                       THEN Terms.executorBondLamports ELSE 0
  /\ bank.records = Terms.challengerBondLamports * Cardinality(Live)

\* Lamports are neither made nor lost, whichever route divides a bond.
LamportsConserved ==
  /\ bank.document + bank.records + bank.executor + bank.challengers + bank.burned = 0
  /\ bank.burned >= 0

\* When a document is closed its executor bond went one way only: divided if
\* the executor lost a challenge, back to the executor if it lost none, and an
\* executor that lost none has lost nothing.
BondFate ==
  document.account = "drained" =>
    IF document.challengerWins > 0
      THEN document.executorBondState \in {BOND_NONE, BOND_PAID}
      ELSE /\ document.executorBondState \in {BOND_NONE, BOND_RETURNED}
           /\ bank.executor >= 0
           /\ bank.burned = 0

-----------------------------------------------------------------------------
(* Records                                                                 *)

\* The conditions under which ResultV5 and Dcm2V6 encode and decode: the deadline is
\* an unsigned 64-bit field.
ResultV5Decodes(r) ==
  /\ r.retentionDeadline <= U64_MAX
  /\ IF r.retentionStartSlot = 0
       THEN r.retentionDeadline = 0
       ELSE r.retentionDeadline = r.retentionStartSlot + Terms.resultRetentionSlots

Dcm2V6Decodes(d) ==
  (d.executorBondState = BOND_NONE) <=> (Terms.executorBondLamports = 0)

\* Every account the handlers leave behind can be read back: the record and the
\* header satisfy their decoders, and a result is closed exactly when its
\* retention has started, so it can be retired.
StoredRecordsDecode ==
  /\ document.account = "live" => Dcm2V6Decodes(document)
  /\ result.account = "DCR2" =>
       /\ ResultV5Decodes(result)
       /\ (result.documentClosed = 1) <=> (result.retentionStartSlot # 0)

\* A result is kept for its whole retention and a descriptor is used once: the
\* record is replaced only by a tombstone and only when its retention, counted
\* from the close, has run; and a tombstone stays for ever.
RetentionHonoured ==
  [][/\ result.account = "DCR2" /\ result'.account # "DCR2" =>
          /\ result'.account = "DCRZ"
          /\ document.account = "drained"
          /\ slot >= result.retentionStartSlot + Terms.resultRetentionSlots
     /\ result.account = "DCRZ" => result' = result]_vars

-----------------------------------------------------------------------------
(* Instructions                                                            *)

Sent == INSTANCE Instructions

If(condition, account) == IF condition THEN {account} ELSE {}

\* The accounts whose data or lamports a step changes.  Created and drained, the
\* document takes its position table and its family slots along.
Touched ==
  If(document' # document, "document")
  \cup If(document'.positionsComplete # document.positionsComplete, "positions")
  \cup (IF document'.account # document.account THEN {"positions", "familySlots"} ELSE {})
  \cup If(result' # result, "result")
  \cup If(challenges' # challenges \/ bank'.records # bank.records, "record")
  \cup If(bank'.document # bank.document, "document")
  \cup If(bank'.executor # bank.executor \/ (result.account = "DCR2" /\ result'.account = "DCRZ"),
          "executor")
  \cup If(bank'.challengers # bank.challengers, "challenger")
  \cup If(bank'.burned # bank.burned, "incinerator")

Within(instructions) == \A ix \in instructions : Touched \subseteq Sent!WritableOf(ix)

\* The instruction that carries out a step, as the SDK builds it, marks every
\* account writable that the step changes; the runtime would refuse the rest.
\* Where a step stands for several instructions, each of them does.
ChangesAreDeclared ==
  [][LET custom == ~ isZero(Terms.settlementProgram)
     IN  /\ UnifiedInit => Within({Sent!unifiedInit})
         /\ LandPositionRoots => Within({Sent!landPositionRoots})
         /\ (\E i \in Outputs : AttestOutput(i)) => Within({Sent!attestOutput("anyone")})
         /\ FinalizeDocument => Within({Sent!finalizeDocument})
         /\ (\E c \in ChallengeAddresses : OpenChallenge(c)) =>
              Within({Sent!challengeLeaf(0), Sent!challengePosition(0), Sent!challengeSummary(0)})
         /\ (\E c \in ChallengeAddresses : OpenAndConvict(c)) => Within({Sent!challengeLeaf(0)})
         /\ (\E c \in ChallengeAddresses : Timeout(c)) => Within({Sent!timeout})
         /\ (\E c \in ChallengeAddresses : Settle(c)) =>
              Within({Sent!settle(winner, custom) : winner \in {"executor", "challenger"}})
         /\ ResolveResult => Within({Sent!resolveResult})
         /\ AbandonDocument \/ CloseDocument => Within({Sent!closeDocument("anyone")})
         /\ CloseResult => Within({Sent!closeResult("anyone")})]_vars

-----------------------------------------------------------------------------
(* The promise to consumers                                                *)

Stage ==
  CASE result.account = "empty" -> "absent"
    [] result.account = "DCRZ" -> "retired"
    [] result.account = "DCR2" /\ result.status = STATUS_PENDING -> "pending"
    [] result.account = "DCR2" /\ result.status \in USABLE_STATUSES -> "accepted"
    [] result.account = "DCR2" /\ result.status = STATUS_REFUTED -> "refuted"

ConsumerView == INSTANCE ResultPromise WITH
  stage    <- Stage,
  closed   <- document.account = "drained",
  proven   <- result.outputs,
  disputed <- document.challengerWins > 0

\* The document's life implements the promise: whatever the interleaving, a
\* consumer that reads only the result record sees nothing else.
PromiseKept == ConsumerView!Promise

-----------------------------------------------------------------------------
(* Progress                                                                *)

\* Every challenge ends and gives its bond back, even when the party whose turn
\* it is stays silent for ever.
ChallengesEnd ==
  \A c \in ChallengeAddresses : challenges[c].phase # ABSENT ~> challenges[c].phase = ABSENT

\* A finalized document gets a verdict, however many challenges are opened.
FinalizedIsDecided == Finalized ~> result.status # STATUS_PENDING \/ result.account = "DCRZ"

\* A closed result is retired some day, and gives its rent back.
ClosedIsRetired == result.documentClosed = 1 ~> result.account = "DCRZ"

-----------------------------------------------------------------------------
(* The inductive invariant behind the safety properties                    *)

\* The two accounts are created together, and the record knows of the close.
AccountsCoupled ==
  /\ document.account = "empty" => document = EmptyDocument /\ result = EmptyResult
  /\ document.account = "live" => result.account = "DCR2" /\ result.documentClosed = 0
  /\ document.account = "drained" =>
       \/ result.account = "DCR2" /\ result.documentClosed = 1
       \/ result.account = "DCRZ"

\* The refuted flag and the win counter say the same, and each ruled record
\* that names the challenger is among the rulings counted.
RefutationRecorded ==
  /\ Refuted <=> document.challengerWins > 0
  /\ Refuted => Finalized
  /\ \A c \in ChallengeAddresses :
       challenges[c].phase = RULED /\ challenges[c].winner = WINNER_CHALLENGER => Refuted
  /\ \A c \in ChallengeAddresses :
       challenges[c].phase = RULED => challenges[c].winner # NoWinner

\* The record carries the document's root and deadline.
ResultCopiesDocument ==
  /\ document.documentRoot = IF Finalized THEN PositionCount ELSE 0
  /\ result.account = "DCR2" =>
       /\ result.documentRoot = document.documentRoot
       /\ result.disputeDeadline = document.disputeDeadline

\* Why a status was written, and that the reason still holds.
StatusJustified ==
  /\ result.status \in USABLE_STATUSES =>
       /\ Finalized
       /\ ~ Refuted
       /\ Live = {}
       /\ slot > document.disputeDeadline
       /\ AllAttested
       /\ result.challengerWins = 0
  /\ RefutedWasRuled

\* The executor bond is paid out only after a ruling for a challenger, and as
\* long as such a document still holds it, the winning record is there to
\* claim it.
BondJustified ==
  /\ document.account # "empty" =>
       ((document.executorBondState = BOND_NONE) <=> (Terms.executorBondLamports = 0))
  /\ document.executorBondState = BOND_PAID => Refuted
  /\ document.executorBondState = BOND_RETURNED => document.account = "drained" /\ ~ Refuted
  /\ document.executorBondState = BOND_HELD /\ Refuted =>
       \E c \in ChallengeAddresses :
         challenges[c].phase = RULED /\ challenges[c].winner = WINNER_CHALLENGER
  /\ document.executorBondState = BOND_HELD => document.account = "live"

\* Slot 0 is past: a retention that starts now can be told from none.
ClockStarted == slot # 0

IInv ==
  /\ TypeOK
  /\ ClockStarted
  /\ OpenChallengesExact
  /\ AccountsCoupled
  /\ RefutationRecorded
  /\ ResultCopiesDocument
  /\ StatusJustified
  /\ BondJustified
  /\ StoredRecordsDecode

\* The ledger behind the escrow properties.  Lamports are burned only by the
\* division of an executor bond, and until then the executor is short of no more
\* than the bond it has posted.
EscrowAccounted ==
  /\ EscrowBacked
  /\ LamportsConserved
  /\ document.executorBondState # BOND_PAID =>
       /\ bank.burned = 0
       /\ bank.executor >= IF document.executorBondState = BOND_HELD
                             THEN - Terms.executorBondLamports ELSE 0
=============================================================================
