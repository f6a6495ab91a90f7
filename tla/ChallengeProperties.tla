------------------------ MODULE ChallengeProperties -------------------------
(***************************************************************************)
(* What is expected of a challenge: that the party in turn has a move, and *)
(* that the instruction the SDK builds for it is accepted; that a record   *)
(* reads back as what was written; that a dispute ends in time; and that   *)
(* the phases implement the turns of Lifecycle.                            *)
(***************************************************************************)
EXTENDS Challenge

\* The instructions that carry the challenge on from this state, with every
\* choice the program would take.  Bound: a phase that starts now must end
\* before the clock stops.
Answers ==
  CASE record.phase = PHASE_POSITION_REVEAL ->
         {revealPosition(record.staged, Chunk(record.staged, count)) :
            count \in 1..Least({MaxChunk, SegmentCount - record.staged})}
    [] record.phase = PHASE_SELECT -> {selectSegment(n) : n \in 0..(SegmentCount - 1)}
    [] record.phase = PHASE_REVEAL -> {RoundReveal([choice |-> 0, fixpoint |-> LastRound])}
    [] record.phase = PHASE_DESCEND ->
         {RoundDescend([choice |-> n, fixpoint |-> LastRound]) : n \in 0..(Width - 1)}
    [] record.phase = PHASE_SUMMARY_REVEAL -> {summaryReveal(Width)}
    [] record.phase = PHASE_SUMMARY_DESCEND -> {summarySelect(byte(n)) : n \in 0..(Width - 1)}
    [] record.phase = PHASE_SUMMARY_ANSWER ->
         {summaryAnswer("anyone", n) : n \in (0..(SummarySlots - 1)) \ record.answered}
    [] record.phase \in {PHASE_RESPOND, PHASE_SEALED} ->
         IF record.table < FamilyCount
           THEN {revealFamilyTable("anyone", record.table, 1)} ELSE {}
    [] OTHER -> {}

Moves ==
  CASE record.phase \in LivePhases /\ ~ InTime -> {timeout}
    [] record.phase \in LivePhases /\ InTime -> IF RoundFits THEN Answers ELSE {}
    [] record.phase = PHASE_RULED ->
         {settle(record.winner, ~ isZero(Terms.settlementProgram))}
         \cup (IF response = "absent" THEN {} ELSE {closeResponse})
    [] OTHER -> IF ~ opened /\ slot <= DisputeDeadline /\ RoundFits THEN Openings ELSE {}

NeedsMoreAccounts(ix) == Handle(ix) /\ ~ (Touched \subseteq WritableOf(ix))

\* The party in turn always has a move: there is a chunk, a choice, a slot or a table left
\* to send, or the executor can go on with the answer the SDK has no builder for.
TurnIsPlayable ==
  record.phase \in LivePhases =>
    \/ Answers # {}
    \/ record.phase = PHASE_RESPOND
    \/ record.phase = PHASE_SEALED /\ record.table = FamilyCount /\ record.reads \in {0, 1}

\* At every point of a challenge the party in turn has a move, and on time or late the
\* instruction the SDK builds for the next move is accepted, and whatever the handler
\* decides to write, the list marks writable: a party that has its answer in time is
\* never timed out because of how its instruction was built.
MovesAccepted ==
  /\ TurnIsPlayable
  /\ \A ix \in Moves : ENABLED Execute(ix) /\ ~ ENABLED NeedsMoreAccounts(ix)

\* decodeChallengeRecord reads the bytes 170 to 182, which mean different things
\* in different phases, as what was last written there: the staging of a reveal,
\* the entry and its verified reads, or the custom deadline and the cause of a
\* ruling.  It refuses no record the handlers leave.
RecordReadsTrue ==
  LET read == decodeChallengeRecord(record)
  IN  /\ decodes(record)
      /\ record.phase \in {PHASE_POSITION_REVEAL, PHASE_SELECT} =>
           /\ read.positionStaged = record.staged
           /\ read.positionSegmentCount = SegmentCount
           /\ read.positionVerified = 1 <=> record.phase = PHASE_SELECT
      /\ record.phase \in {PHASE_RESPOND, PHASE_SEALED} =>
           /\ read.entry = record.entry
           /\ read.targetVerified = 1 <=> record.phase = PHASE_SEALED
           /\ read.readCount = record.reads
      /\ record.phase = PHASE_RULED =>
           /\ read.customSettlementDeadline = <<record.customDeadline, 0, 0>>
           /\ read.rulingCause = record.cause

\* Most turns a challenge takes: along the position path a reveal, a selection, two
\* for each round and the answer; along the summary path two for each round.
MostTurns ==
  IF 2 * Depth + 3 >= 2 * SummaryDepth THEN 2 * Depth + 3 ELSE 2 * SummaryDepth

\* A dispute has an end that can be told in advance.  Every turn sets a new deadline,
\* but no party can stretch a challenge by it: the current deadline is no later than
\* one response window for each turn taken and one more after the last slot for an
\* opening, turns are used up, and what can be repeated (a chunk, a table, a slot)
\* leaves the deadline as it is.
DisputeIsBounded ==
  /\ turns <= MostTurns
  /\ record.phase \in LivePhases =>
       record.deadline <= DisputeDeadline + (turns + 1) * Terms.responseWindowSlots

-----------------------------------------------------------------------------
(* The refinement                                                          *)

Bond == Terms.challengerBondLamports
Pot == Terms.executorBondLamports
IsOpen == record.phase # Closed

\* The first win that is settled divides the executor bond.
Divided == paid = WINNER_CHALLENGER

BondSeen == IF Pot = 0 THEN "NONE" ELSE IF Divided THEN "PAID" ELSE "HELD"

\* What Lifecycle sees of the accounts: a document finalized in the first slot, its
\* result still pending.
DocumentSeen ==
  [account |-> "live",
   flags |-> IF document.refuted THEN {"FLAG_FINAL", "FLAG_REFUTED"} ELSE {"FLAG_FINAL"},
   positionsComplete |-> PositionCount, documentRoot |-> PositionCount,
   openChallenges |-> document.openChallenges,
   challengerWins |-> document.challengerWins,
   finalizeSlot |-> FirstSlot, disputeDeadline |-> DisputeDeadline,
   executorBondState |-> BondSeen]

ResultSeen ==
  [account |-> "DCR2", status |-> "PENDING", documentClosed |-> 0,
   documentRoot |-> PositionCount, finalizeSlot |-> FirstSlot,
   disputeDeadline |-> DisputeDeadline, statusSlot |-> 0, challengerWins |-> 0,
   retentionStartSlot |-> 0, retentionDeadline |-> 0, outputs |-> {}, closedSlot |-> 0]

PhaseSeen ==
  CASE record.phase = Closed -> "absent"
    [] record.phase = PHASE_RULED -> "ruled"
    [] record.phase \in ChallengerPhases -> "challengerTurn"
    [] OTHER -> "executorTurn"

RecordSeen ==
  [phase |-> PhaseSeen, winner |-> record.winner, deadline |-> record.deadline,
   customSettlementDeadline |-> record.customDeadline, rounds |-> turns]

ChallengesSeen == [c \in {"challenge"} |-> RecordSeen]

OpenedSeen == IF opened THEN 1 ELSE 0

\* The pot is divided by the built-in rule, one of the ways a settlement program has
\* too.
SharesSeen == IF Divided THEN builtInSettlement(Terms) ELSE [reward |-> 0, burn |-> 0]

BankSeen ==
  [document |-> IF Divided THEN 0 ELSE Pot,
   records |-> IF IsOpen THEN Bond ELSE 0,
   executor |-> (IF paid = WINNER_EXECUTOR THEN Bond ELSE 0) - Pot,
   challengers |-> (IF opened /\ ~ Divided THEN 0 - Bond ELSE 0) + SharesSeen.reward,
   burned |-> SharesSeen.burn]

L == INSTANCE Lifecycle WITH
  ChallengeAddresses <- {"challenge"},
  MaxBatch <- 1,
  MaxOpens <- 1,
  MaxRounds <- MostTurns,
  document <- DocumentSeen,
  result <- ResultSeen,
  challenges <- ChallengesSeen,
  opened <- OpenedSeen,
  bank <- BankSeen

\* Whatever the phases do, Lifecycle sees only its own turns, rulings and
\* settlement, with the deadline, winner and counters it expects of each; a chunk
\* of a reveal, a family table or an answered slot is nothing to it.  So what is
\* proved of Lifecycle holds of challenges played phase by phase.
ImplementsLifecycle ==
  [][L!Tick \/ L!ChallengeStep("challenge")]_<<L!vars>>

-----------------------------------------------------------------------------
(* The inductive invariant behind both                                     *)

\* The fields of a record, and the pieces of its bytes.
IsRecord(rec) ==
  /\ rec = [phase |-> rec.phase, winner |-> rec.winner, deadline |-> rec.deadline,
            customDeadline |-> rec.customDeadline, cause |-> rec.cause, staged |-> rec.staged,
            level |-> rec.level, entry |-> rec.entry, reads |-> rec.reads,
            table |-> rec.table, answered |-> rec.answered, bytes |-> rec.bytes]
  /\ rec.bytes = [w170 |-> rec.bytes.w170, w174 |-> rec.bytes.w174, w176 |-> rec.bytes.w176,
                  w178 |-> rec.bytes.w178, w180 |-> rec.bytes.w180]

\* A record the handlers build: each phase with the bytes it has written, and a
\* round to play while there is one to come.
GoodRecord(rec) ==
  /\ IsRecord(rec)
  /\ rec.phase \in LivePhases \cup {Closed, PHASE_RULED}
  /\ rec.phase = Closed => rec = NoRecord
  /\ rec.staged \in Nat /\ rec.table \in Nat
  /\ rec.phase \in {PHASE_POSITION_REVEAL, PHASE_SELECT} =>
       /\ rec.bytes.w176 = rec.staged
       /\ rec.bytes.w178 = SegmentCount
       /\ rec.bytes.w180 = IF rec.phase = PHASE_SELECT THEN 1 ELSE 0
  /\ rec.phase \in {PHASE_RESPOND, PHASE_SEALED} =>
       /\ rec.bytes.w170 = rec.entry
       /\ rec.bytes.w176 = IF rec.phase = PHASE_SEALED THEN 1 ELSE 0
       /\ rec.bytes.w178 = rec.reads
  /\ rec.phase \notin {PHASE_SEALED, PHASE_RULED} => rec.reads = 0
  /\ rec.phase = PHASE_RULED =>
       /\ rec.bytes.w170 = rec.customDeadline
       /\ rec.bytes.w174 = 0 /\ rec.bytes.w176 = 0
       /\ rec.bytes.w178 = rec.cause
       /\ rec.cause \in {CAUSE_VERDICT, CAUSE_CONVICT, CAUSE_TIMEOUT}
       /\ rec.winner \in {WINNER_EXECUTOR, WINNER_CHALLENGER}
  /\ rec.phase \in {PHASE_REVEAL, PHASE_DESCEND, PHASE_SUMMARY_REVEAL, PHASE_SUMMARY_DESCEND} =>
       rec.level \in Nat \ {0}

\* Turns a challenge may still take.
TurnsLeft(rec) ==
  CASE rec.phase = PHASE_POSITION_REVEAL -> 2 * Depth + 3
    [] rec.phase = PHASE_SELECT          -> 2 * Depth + 2
    [] rec.phase = PHASE_REVEAL          -> 2 * rec.level + 1
    [] rec.phase = PHASE_DESCEND         -> 2 * rec.level
    [] rec.phase = PHASE_RESPOND         -> 1
    [] rec.phase = PHASE_SUMMARY_REVEAL  -> 2 * rec.level
    [] rec.phase = PHASE_SUMMARY_DESCEND -> 2 * rec.level - 1
    [] OTHER                             -> 0

ChallengeInv ==
  /\ slot \in Nat
  /\ document = [openChallenges |-> document.openChallenges,
                 challengerWins |-> document.challengerWins, refuted |-> document.refuted]
  /\ GoodRecord(record)
  /\ record.phase # Closed => opened
  /\ record.phase # Closed \/ ~ opened => paid = NoWinner
  /\ record.phase \notin LivePhases => turns = 0
  /\ turns \in Nat
  /\ turns + TurnsLeft(record) <= MostTurns
  /\ record.phase \in LivePhases => record.deadline \in Nat
  /\ DisputeIsBounded

\* What the party in turn has done never fills up without the phase ending, so there is
\* always something left for it to do.
WorkIsLeft ==
  /\ record.table \in 0..FamilyCount
  /\ record.answered \subseteq 0..(SummarySlots - 1)
  /\ record.answered # 0..(SummarySlots - 1)
  /\ record.phase = PHASE_POSITION_REVEAL => record.staged < SegmentCount
  /\ record.phase = PHASE_SEALED => record.reads \in {0, 1}
=============================================================================
