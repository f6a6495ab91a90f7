----------------------------- MODULE Challenge ------------------------------
(***************************************************************************)
(* One challenge against a finalized document, phase by phase: the leaf,   *)
(* position and summary paths, from the opening instruction to settlement. *)
(*                                                                         *)
(* The instructions are those the watcher and the builders of the SDK      *)
(* make; anyone may send any of them at any time, so late, repeated and    *)
(* lost ones are all covered.  The handlers run on chain: they are         *)
(* modelled from the phases, turns and record fields the SDK knows, and    *)
(* like the runtime they refuse to change an account the instruction did   *)
(* not mark writable.  A refused instruction changes nothing.              *)
(*                                                                         *)
(* The SDK has no builders for the executor's answer to a fixed entry (the *)
(* phases respond and sealed) and for tag 170; those instructions are      *)
(* modelled by what they leave in the record.                              *)
(***************************************************************************)
EXTENDS Instructions, RunTerms, FiniteSets

CONSTANTS
  SegmentCount,    \* segments of the challenged position
  MaxChunk,        \* most segment roots one reveal carries
  Depth,           \* rounds from a segment root to an entry
  SummaryDepth,    \* rounds from a family root to a summary leaf
  Width,           \* digests in a round
  SummarySlots,    \* slot writes a summary leaf is answered with
  FamilyCount,     \* roots of the family table
  Choices,         \* the choices callers may ask for
  DisputeDeadline, \* last slot for an opening
  FirstSlot,
  MaxSlot          \* bound: the clock stops here

ASSUME ChallengeAssumption ==
  /\ {SegmentCount, MaxChunk, Depth, SummaryDepth, Width, SummarySlots, FamilyCount}
       \subseteq Nat \ {0}
  /\ FirstSlot \in Nat \ {0} /\ DisputeDeadline \in Nat
  /\ MaxSlot \in Nat /\ FirstSlot <= MaxSlot /\ DisputeDeadline < MaxSlot /\ MaxSlot <= U64_MAX
  /\ Choices \subseteq Nat

VARIABLES
  slot,      \* the Clock slot
  document,  \* the counters and the flag of the document a challenge touches
  record,    \* the challenge record
  response,  \* the response account of the record: absent, staging or sealed
  opened,    \* whether the challenge was ever opened
  turns,     \* how many turns were answered
  paid       \* to whom settlement gave the challenger bond, or nobody

vars == <<slot, document, record, response, opened, turns, paid>>

-----------------------------------------------------------------------------
(* The record                                                              *)

PHASE_RESPOND == 1
PHASE_SEALED == 2
PHASE_RULED == 3
PHASE_SETTLED == 4
PHASE_REVEAL == 5
PHASE_DESCEND == 6
PHASE_POSITION_REVEAL == 7
PHASE_SELECT == 8
PHASE_SUMMARY_REVEAL == 9
PHASE_SUMMARY_DESCEND == 10
PHASE_SUMMARY_ANSWER == 11
Closed == 0

\* The phases that wait for the challenger.  A summary leaf may be answered by
\* anyone, but the executor has the answers.
ChallengerPhases == {PHASE_DESCEND, PHASE_SELECT, PHASE_SUMMARY_DESCEND}
ExecutorPhases == {PHASE_RESPOND, PHASE_SEALED, PHASE_REVEAL, PHASE_POSITION_REVEAL,
                   PHASE_SUMMARY_REVEAL, PHASE_SUMMARY_ANSWER}
LivePhases == ChallengerPhases \cup ExecutorPhases

CAUSE_VERDICT == 1
CAUSE_CONVICT == 2
CAUSE_TIMEOUT == 3

WINNER_EXECUTOR == "executor"
WINNER_CHALLENGER == "challenger"
NoWinner == "nobody"

\* Bytes 170 to 182 in five little-endian pieces, each named for its offset.
EmptyBytes == [w170 |-> 0, w174 |-> 0, w176 |-> 0, w178 |-> 0, w180 |-> 0]

NoRecord ==
  [phase |-> Closed, winner |-> NoWinner, deadline |-> 0, customDeadline |-> 0, cause |-> 0,
   staged |-> 0, level |-> 0, entry |-> 0, reads |-> 0, table |-> 0, answered |-> {},
   bytes |-> EmptyBytes]

\* Mutant: the cause of a ruling is looked for one field too late.
decodeChallengeRecord_CauseAt180(rec) ==
  LET b == rec.bytes
  IN  IF rec.phase \in {PHASE_RULED, PHASE_SETTLED}
        THEN [customSettlementDeadline |-> <<b.w170, b.w174, b.w176>>,
              rulingCause |-> b.w180 % 256]
        ELSE [entry |-> b.w170, form |-> b.w174, positionStaged |-> b.w176,
              positionSegmentCount |-> b.w178, positionVerified |-> b.w180 % 256,
              targetVerified |-> b.w176 % 256, readCount |-> b.w178, writeCount |-> b.w180]

\* decodeChallengeRecord, of the fields that share those bytes.  An integer of
\* eight bytes is left in its three pieces.
decodeChallengeRecord(rec) ==
  LET b == rec.bytes
  IN  IF rec.phase \in {PHASE_RULED, PHASE_SETTLED}
        THEN [customSettlementDeadline |-> <<b.w170, b.w174, b.w176>>,
              rulingCause |-> b.w178 % 256]
        ELSE [entry |-> b.w170, form |-> b.w174, positionStaged |-> b.w176,
              positionSegmentCount |-> b.w178, positionVerified |-> b.w180 % 256,
              targetVerified |-> b.w176 % 256, readCount |-> b.w178, writeCount |-> b.w180]

\* It refuses a ruled record with an unknown cause.
decodes(rec) ==
  rec.phase \in {PHASE_RULED, PHASE_SETTLED} =>
    decodeChallengeRecord(rec).rulingCause \in {CAUSE_VERDICT, CAUSE_CONVICT, CAUSE_TIMEOUT}

-----------------------------------------------------------------------------
(* What the watcher sends                                                  *)

\* A TypeScript byte is cut off, not refused.
byte(value) == value % 256

fixpointAccounts == Machine \o <<Reads("registry"), Reads("pt1s")>>

\* descentInstructions, one round of it.
RoundReveal(round) ==
  revealDescent(Width, round.fixpoint, IF round.fixpoint THEN fixpointAccounts ELSE <<>>)
RoundDescend(round) ==
  descend(byte(round.choice), round.fixpoint,
          IF round.fixpoint THEN fixpointAccounts ELSE <<>>)

Rounds == [choice : Choices, fixpoint : BOOLEAN]

Openings == {challengeLeaf(0), challengePosition(0), challengeSummary(0)}

\* Segment i has root i.
Chunk(first, count) == [i \in 1..count |-> first + i - 1]

Instructions ==
  Openings
  \cup {revealPosition(first, Chunk(first, count)) :
          first \in 0..(SegmentCount - 1), count \in 1..MaxChunk}
  \cup {selectSegment(ordinal) : ordinal \in 0..SegmentCount}
  \cup {RoundReveal(round) : round \in Rounds} \cup {RoundDescend(round) : round \in Rounds}
  \cup {summaryReveal(Width)} \cup {summarySelect(byte(choice)) : choice \in Choices}
  \cup {summaryAnswer("anyone", n) : n \in 0..SummarySlots}
  \cup {revealFamilyTable("anyone", first, 1) : first \in 0..(FamilyCount - 1)}
  \cup {timeout, closeResponse}
  \cup {settle(winner, custom) : winner \in {"executor", "challenger"}, custom \in BOOLEAN}

-----------------------------------------------------------------------------
(* What the handlers do                                                    *)

FinalizedDocument == [openChallenges |-> 0, challengerWins |-> 0, refuted |-> FALSE]

Least(numbers) == CHOOSE n \in numbers : \A other \in numbers : n <= other

RoundDeadline == slot + Terms.responseWindowSlots

\* Bound: a round deadline falls before the clock stops.
RoundFits == RoundDeadline < MaxSlot

\* Mutant: the next party gets what is left of the last party's time.
Enter_KeepsDeadline(rec, phase) ==
  [rec EXCEPT !.phase = phase, !.deadline = IF @ = 0 THEN RoundDeadline ELSE @]

\* Every phase change sets a new deadline.
Enter(rec, phase) == [rec EXCEPT !.phase = phase, !.deadline = RoundDeadline]

\* The three pieces that count what was staged or verified.
Write176(rec, w176, w178, w180) ==
  [rec EXCEPT !.bytes = [@ EXCEPT !.w176 = w176, !.w178 = w178, !.w180 = w180]]

\* A fixed entry: its number and form, with no verified target and no reads.
Fixed(rec, entry) ==
  [Enter(rec, PHASE_RESPOND) EXCEPT
     !.entry = entry,
     !.bytes = [EmptyBytes EXCEPT !.w170 = entry, !.w174 = 1]]

Opened(tag) ==
  CASE tag = 166 -> Fixed(NoRecord, 0)
    [] tag = 167 -> Write176(Enter(NoRecord, PHASE_POSITION_REVEAL), 0, SegmentCount, 0)
    [] tag = 171 -> [Enter(NoRecord, PHASE_SUMMARY_REVEAL) EXCEPT !.level = SummaryDepth]

CustomDeadline(winner) ==
  IF winner = WINNER_CHALLENGER /\ ~ isZero(Terms.settlementProgram)
    THEN Least({slot + Terms.customSettleWindowSlots, MaxSlot}) ELSE 0

\* A ruling writes its deadline and its cause over the bytes of the entry.
Ruled(rec, winner, cause) ==
  LET deadline == CustomDeadline(winner)
  IN  [rec EXCEPT !.phase = PHASE_RULED, !.winner = winner, !.deadline = 0,
                  !.customDeadline = deadline, !.cause = cause,
                  !.bytes = [@ EXCEPT !.w170 = deadline, !.w174 = 0, !.w176 = 0,
                                      !.w178 = cause]]

Marked(doc, winner) ==
  IF winner = WINNER_CHALLENGER
    THEN [doc EXCEPT !.challengerWins = @ + 1, !.refuted = TRUE] ELSE doc

Rule(winner, cause) ==
  /\ record' = Ruled(record, winner, cause)
  /\ document' = Marked(document, winner)
  /\ turns' = 0
  /\ UNCHANGED <<slot, response, opened, paid>>

\* Mutant: an answer one slot late still counts.
InTime_OneLate == slot <= record.deadline + 1

InTime == slot <= record.deadline

\* The party whose turn it was has acted.
Turn(rec) ==
  /\ RoundFits
  /\ record' = rec
  /\ turns' = turns + 1
  /\ UNCHANGED <<slot, document, response, opened, paid>>

\* It has acted and must act again before the same deadline.
Stay(rec) ==
  /\ record' = rec
  /\ UNCHANGED <<slot, document, response, opened, turns, paid>>

\* Tags 166, 167 and 171.  The class check of a leaf may convict at once.
Open(ix) ==
  /\ ix \in Openings
  /\ ~ opened
  /\ slot <= DisputeDeadline
  /\ LET counted == [document EXCEPT !.openChallenges = @ + 1]
     IN  \/ /\ RoundFits
            /\ record' = Opened(ix.tag)
            /\ document' = counted
         \/ /\ ix.tag = 166
            /\ record' = Ruled(Fixed(NoRecord, 0), WINNER_CHALLENGER, CAUSE_CONVICT)
            /\ document' = Marked(counted, WINNER_CHALLENGER)
  /\ opened' = TRUE
  /\ UNCHANGED <<slot, response, turns, paid>>

\* Tag 163: chunks in order; the last one must give the landed position root.
RevealChunk(ix) ==
  LET first == ix.data[1]
      staged == first + Len(ix.data[2])
      verified == IF staged = SegmentCount THEN 1 ELSE 0
      next == Write176([record EXCEPT !.staged = staged], staged, SegmentCount, verified)
  IN  /\ ix.tag = 163
      /\ record.phase = PHASE_POSITION_REVEAL
      /\ InTime
      /\ first = record.staged
      /\ staged <= SegmentCount
      /\ ix.data[2] = Chunk(first, Len(ix.data[2]))
      /\ IF verified = 1 THEN Turn(Enter(next, PHASE_SELECT)) ELSE Stay(next)

\* Tag 164 clears the staging bytes.
Select(ix) ==
  /\ ix.tag = 164
  /\ record.phase = PHASE_SELECT
  /\ InTime
  /\ ix.data[1] < SegmentCount
  /\ Turn(Write176([Enter(record, PHASE_REVEAL) EXCEPT !.staged = 0, !.level = Depth], 0, 0, 0))

LastRound == record.level = 1
FixpointGiven(ix) ==
  {fixpointAccounts[i].account : i \in DOMAIN fixpointAccounts} \subseteq AccountsOf(ix)

\* Tag 168.  In the last round it may already meet the class check.
Reveal(ix) ==
  /\ ix.tag = 168
  /\ record.phase = PHASE_REVEAL
  /\ InTime
  /\ ix.data[1] = Width
  /\ \/ Turn(Enter(record, PHASE_DESCEND))
     \/ LastRound /\ FixpointGiven(ix) /\ Rule(WINNER_CHALLENGER, CAUSE_CONVICT)

\* Tag 169.  The last descent fixes the entry: it is admitted or convicts.
Descend(ix) ==
  LET entry == record.entry * Width + ix.data[1]
  IN  /\ ix.tag = 169
      /\ record.phase = PHASE_DESCEND
      /\ InTime
      /\ ix.data[1] < Width
      /\ IF LastRound
           THEN /\ FixpointGiven(ix)
                /\ \/ Turn(Fixed([record EXCEPT !.level = 0], entry))
                   \/ Rule(WINNER_CHALLENGER, CAUSE_CONVICT)
           ELSE Turn([Enter(record, PHASE_REVEAL) EXCEPT !.level = @ - 1, !.entry = entry])

\* Tag 179.
RevealSummary(ix) ==
  /\ ix.tag = 179
  /\ record.phase = PHASE_SUMMARY_REVEAL
  /\ InTime
  /\ ix.data[1] = Width
  /\ Turn(Enter(record, PHASE_SUMMARY_DESCEND))

\* Tag 180.
SelectSummary(ix) ==
  /\ ix.tag = 180
  /\ record.phase = PHASE_SUMMARY_DESCEND
  /\ InTime
  /\ ix.data[1] < Width
  /\ IF LastRound
       THEN Turn([Enter(record, PHASE_SUMMARY_ANSWER) EXCEPT !.level = 0])
       ELSE Turn([Enter(record, PHASE_SUMMARY_REVEAL) EXCEPT !.level = @ - 1])

\* Tag 181: the last slot to be answered has the leaf judged.
AnswerSummary(ix) ==
  LET answered == record.answered \cup {ix.data[1]}
  IN  /\ ix.tag = 181
      /\ record.phase = PHASE_SUMMARY_ANSWER
      /\ InTime
      /\ ix.data[1] \in (0..(SummarySlots - 1)) \ record.answered
      /\ IF Cardinality(answered) = SummarySlots
           THEN \E winner \in {WINNER_EXECUTOR, WINNER_CHALLENGER} : Rule(winner, CAUSE_VERDICT)
           ELSE Stay([record EXCEPT !.answered = answered])

\* Tag 173, sent by anyone.
RevealTable(ix) ==
  /\ ix.tag = 173
  /\ record.phase \in {PHASE_RESPOND, PHASE_SEALED}
  /\ InTime
  /\ ix.data[1] = record.table
  /\ record.table + ix.data[2] <= FamilyCount
  /\ Stay([record EXCEPT !.table = @ + ix.data[2]])

\* Tag 132: the silent party loses.
Timeout(ix) ==
  /\ ix.tag = 132
  /\ record.phase \in LivePhases
  /\ slot > record.deadline
  /\ Rule(IF record.phase \in ChallengerPhases THEN WINNER_EXECUTOR ELSE WINNER_CHALLENGER,
          CAUSE_TIMEOUT)

\* Tag 182 returns the rent of the response to the executor.
CloseResponse(ix) ==
  /\ ix.tag = 182
  /\ record.phase = PHASE_RULED
  /\ response # "absent"
  /\ response' = "absent"
  /\ UNCHANGED <<slot, document, record, opened, turns, paid>>

\* Tag 131 holds the caller to the ruling winner, third in the list, and to the
\* length of the list.  It drains a response that is still there.
Settle(ix) ==
  /\ ix.tag = 131
  /\ record.phase = PHASE_RULED
  /\ Len(ix.accounts) = IF isZero(Terms.settlementProgram) THEN 7 ELSE 11
  /\ ix.accounts[3].account = record.winner
  /\ record' = NoRecord
  /\ response' = "absent"
  /\ document' = [document EXCEPT !.openChallenges = @ - 1]
  /\ paid' = record.winner
  /\ UNCHANGED <<slot, opened, turns>>

\* The accounts an instruction wrote to.
Touched ==
  (IF record' # record THEN {"record"} ELSE {})
  \cup (IF document' # document THEN {"document"} ELSE {})
  \cup (IF response' # response THEN {"response", "executor"} ELSE {})
  \cup (IF opened' # opened THEN {"challenger"} ELSE {})
  \cup (IF paid' # paid THEN {paid', "challenger"} ELSE {})

Handle(ix) ==
  \/ Open(ix)
  \/ RevealChunk(ix)
  \/ Select(ix)
  \/ Reveal(ix)
  \/ Descend(ix)
  \/ RevealSummary(ix)
  \/ SelectSummary(ix)
  \/ AnswerSummary(ix)
  \/ RevealTable(ix)
  \/ Timeout(ix)
  \/ CloseResponse(ix)
  \/ Settle(ix)

Execute(ix) == Handle(ix) /\ Touched \subseteq WritableOf(ix)

-----------------------------------------------------------------------------
(* Instructions the SDK has no builder for                                 *)

\* Tags 115 to 118 and 125 fill and seal the response account; they only read the
\* record.
StageResponse ==
  /\ record.phase = PHASE_RESPOND
  /\ response' = IF response = "absent" THEN "staging" ELSE "sealed"
  /\ UNCHANGED <<slot, document, record, opened, turns, paid>>

\* Tag 120 is the first that may write both.
VerifyTarget ==
  /\ record.phase = PHASE_RESPOND
  /\ InTime
  /\ response = "sealed"
  /\ Turn(Write176(Enter(record, PHASE_SEALED), 1, 0, 0))

\* Tags 121 and 129.  The entry is one that reads from a family table.
VerifyReads ==
  /\ record.phase = PHASE_SEALED
  /\ InTime
  /\ record.table = FamilyCount
  /\ record.reads = 0
  /\ Stay(Write176([record EXCEPT !.reads = 1], 1, 1, 1))

\* Tag 124: the replay is compared with the entry.
ExecuteReplay ==
  /\ record.phase = PHASE_SEALED
  /\ InTime
  /\ record.reads = 1
  /\ \E winner \in {WINNER_EXECUTOR, WINNER_CHALLENGER} : Rule(winner, CAUSE_VERDICT)

\* Tag 170: the challenger fixes a summary leaf without descending to it.
SummaryLeaf ==
  /\ record.phase \in {PHASE_SUMMARY_REVEAL, PHASE_SUMMARY_DESCEND}
  /\ InTime
  /\ Turn([Enter(record, PHASE_SUMMARY_ANSWER) EXCEPT !.level = 0])

-----------------------------------------------------------------------------

Init ==
  /\ slot = FirstSlot
  /\ document = FinalizedDocument
  /\ record = NoRecord
  /\ response = "absent"
  /\ opened = FALSE
  /\ turns = 0
  /\ paid = NoWinner

Tick ==
  /\ slot < MaxSlot
  /\ slot' = slot + 1
  /\ UNCHANGED <<document, record, response, opened, turns, paid>>

Next ==
  \/ Tick
  \/ \E ix \in Instructions : Execute(ix)
  \/ StageResponse
  \/ VerifyTarget
  \/ VerifyReads
  \/ ExecuteReplay
  \/ SummaryLeaf

Spec == Init /\ [][Next]_vars
=============================================================================
