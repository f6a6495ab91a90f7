-------------------------- MODULE ChallengeProofs ---------------------------
(***************************************************************************)
(* What holds of a challenge for any number of segments, rounds and slots, *)
(* any window and any terms: its record reads back as what was written,    *)
(* its phases implement the turns of Lifecycle and so keep its invariants, *)
(* it ends, and the party in turn has a move that is accepted.             *)
(***************************************************************************)
EXTENDS ChallengeProperties, FiniteSetTheorems, TLAPS

-----------------------------------------------------------------------------
(* The records the handlers build                                          *)

\* A phase begins.
LEMMA EnterFacts ==
  ASSUME NEW rec, IsRecord(rec), NEW phase
  PROVE  LET out == Enter(rec, phase)
         IN  /\ IsRecord(out)
             /\ out.phase = phase
             /\ out.winner = rec.winner
             /\ out.deadline = RoundDeadline
             /\ out.customDeadline = rec.customDeadline
             /\ out.cause = rec.cause
             /\ out.staged = rec.staged
             /\ out.level = rec.level
             /\ out.entry = rec.entry
             /\ out.reads = rec.reads
             /\ out.table = rec.table
             /\ out.answered = rec.answered
             /\ out.bytes = rec.bytes
<1> DEFINE out == Enter(rec, phase)
<1>1. out = [rec EXCEPT !.phase = phase, !.deadline = RoundDeadline]
  BY DEF Enter
<1> HIDE DEF out
<1>2. out = [phase |-> phase, winner |-> rec.winner, deadline |-> RoundDeadline,
             customDeadline |-> rec.customDeadline, cause |-> rec.cause,
             staged |-> rec.staged, level |-> rec.level, entry |-> rec.entry,
             reads |-> rec.reads, table |-> rec.table, answered |-> rec.answered,
             bytes |-> rec.bytes]
  BY <1>1 DEF IsRecord
<1>4. /\ out.phase = phase
      /\ out.winner = rec.winner
      /\ out.deadline = RoundDeadline
      /\ out.customDeadline = rec.customDeadline
      /\ out.cause = rec.cause
      /\ out.staged = rec.staged
      /\ out.level = rec.level
      /\ out.entry = rec.entry
      /\ out.reads = rec.reads
      /\ out.table = rec.table
      /\ out.answered = rec.answered
  BY <1>2
<1>5. IsRecord(out)
  BY <1>2, <1>4 DEF IsRecord
<1> QED
  BY <1>2, <1>4, <1>5 DEF out

\* The counting bytes are written.
LEMMA WriteFacts ==
  ASSUME NEW rec, IsRecord(rec),
         NEW w176, NEW w178, NEW w180
  PROVE  LET out == Write176(rec, w176, w178, w180)
         IN  /\ IsRecord(out)
             /\ out.phase = rec.phase
             /\ out.winner = rec.winner
             /\ out.deadline = rec.deadline
             /\ out.customDeadline = rec.customDeadline
             /\ out.cause = rec.cause
             /\ out.staged = rec.staged
             /\ out.level = rec.level
             /\ out.entry = rec.entry
             /\ out.reads = rec.reads
             /\ out.table = rec.table
             /\ out.answered = rec.answered
             /\ out.bytes.w170 = rec.bytes.w170
             /\ out.bytes.w174 = rec.bytes.w174
             /\ out.bytes.w176 = w176
             /\ out.bytes.w178 = w178
             /\ out.bytes.w180 = w180
<1> DEFINE out == Write176(rec, w176, w178, w180)
           bytes == [rec.bytes EXCEPT !.w176 = w176, !.w178 = w178, !.w180 = w180]
<1>1. out = [rec EXCEPT !.bytes = bytes]
  BY DEF Write176
<1>3. bytes = [w170 |-> rec.bytes.w170, w174 |-> rec.bytes.w174, w176 |-> w176, w178 |-> w178, w180 |-> w180]
  <2> DEFINE b == bytes
  <2>1. b = bytes
    OBVIOUS
  <2> HIDE DEF b
  <2>2. b = [w170 |-> rec.bytes.w170, w174 |-> rec.bytes.w174, w176 |-> w176, w178 |-> w178, w180 |-> w180]
    BY <2>1 DEF IsRecord, EmptyBytes
  <2> QED
    BY <2>1, <2>2
<1> HIDE DEF out, bytes
<1>2. out = [phase |-> rec.phase, winner |-> rec.winner, deadline |-> rec.deadline,
             customDeadline |-> rec.customDeadline, cause |-> rec.cause,
             staged |-> rec.staged, level |-> rec.level, entry |-> rec.entry,
             reads |-> rec.reads, table |-> rec.table, answered |-> rec.answered,
             bytes |-> bytes]
  BY <1>1 DEF IsRecord
<1>4. /\ out.phase = rec.phase
      /\ out.winner = rec.winner
      /\ out.deadline = rec.deadline
      /\ out.customDeadline = rec.customDeadline
      /\ out.cause = rec.cause
      /\ out.staged = rec.staged
      /\ out.level = rec.level
      /\ out.entry = rec.entry
      /\ out.reads = rec.reads
      /\ out.table = rec.table
      /\ out.answered = rec.answered
      /\ out.bytes = bytes
  BY <1>2
<1>5. IsRecord(out)
  BY <1>2, <1>3, <1>4 DEF IsRecord
<1> QED
  BY <1>3, <1>4, <1>5 DEF out

\* Segments are staged.
WithStaged(rec, staged) == [rec EXCEPT !.staged = staged]

LEMMA StagedFacts ==
  ASSUME NEW rec, IsRecord(rec), NEW staged
  PROVE  LET out == WithStaged(rec, staged)
         IN  /\ IsRecord(out)
             /\ out.phase = rec.phase
             /\ out.winner = rec.winner
             /\ out.deadline = rec.deadline
             /\ out.customDeadline = rec.customDeadline
             /\ out.cause = rec.cause
             /\ out.staged = staged
             /\ out.level = rec.level
             /\ out.entry = rec.entry
             /\ out.reads = rec.reads
             /\ out.table = rec.table
             /\ out.answered = rec.answered
             /\ out.bytes = rec.bytes
<1> DEFINE out == WithStaged(rec, staged)
<1>1. out = [rec EXCEPT !.staged = staged]
  BY DEF WithStaged
<1> HIDE DEF out
<1>2. out = [phase |-> rec.phase, winner |-> rec.winner, deadline |-> rec.deadline,
             customDeadline |-> rec.customDeadline, cause |-> rec.cause,
             staged |-> staged, level |-> rec.level, entry |-> rec.entry,
             reads |-> rec.reads, table |-> rec.table, answered |-> rec.answered,
             bytes |-> rec.bytes]
  BY <1>1 DEF IsRecord
<1>4. /\ out.phase = rec.phase
      /\ out.winner = rec.winner
      /\ out.deadline = rec.deadline
      /\ out.customDeadline = rec.customDeadline
      /\ out.cause = rec.cause
      /\ out.staged = staged
      /\ out.level = rec.level
      /\ out.entry = rec.entry
      /\ out.reads = rec.reads
      /\ out.table = rec.table
      /\ out.answered = rec.answered
  BY <1>2
<1>5. IsRecord(out)
  BY <1>2, <1>4 DEF IsRecord
<1> QED
  BY <1>2, <1>4, <1>5 DEF out

\* The staging ends and a descent begins.
WithDescent(rec, staged, level) == [rec EXCEPT !.staged = staged, !.level = level]

LEMMA DescentFacts ==
  ASSUME NEW rec, IsRecord(rec), NEW staged, NEW level
  PROVE  LET out == WithDescent(rec, staged, level)
         IN  /\ IsRecord(out)
             /\ out.phase = rec.phase
             /\ out.winner = rec.winner
             /\ out.deadline = rec.deadline
             /\ out.customDeadline = rec.customDeadline
             /\ out.cause = rec.cause
             /\ out.staged = staged
             /\ out.level = level
             /\ out.entry = rec.entry
             /\ out.reads = rec.reads
             /\ out.table = rec.table
             /\ out.answered = rec.answered
             /\ out.bytes = rec.bytes
<1> DEFINE out == WithDescent(rec, staged, level)
<1>1. out = [rec EXCEPT !.staged = staged, !.level = level]
  BY DEF WithDescent
<1> HIDE DEF out
<1>2. out = [phase |-> rec.phase, winner |-> rec.winner, deadline |-> rec.deadline,
             customDeadline |-> rec.customDeadline, cause |-> rec.cause,
             staged |-> staged, level |-> level, entry |-> rec.entry,
             reads |-> rec.reads, table |-> rec.table, answered |-> rec.answered,
             bytes |-> rec.bytes]
  BY <1>1 DEF IsRecord
<1>4. /\ out.phase = rec.phase
      /\ out.winner = rec.winner
      /\ out.deadline = rec.deadline
      /\ out.customDeadline = rec.customDeadline
      /\ out.cause = rec.cause
      /\ out.staged = staged
      /\ out.level = level
      /\ out.entry = rec.entry
      /\ out.reads = rec.reads
      /\ out.table = rec.table
      /\ out.answered = rec.answered
  BY <1>2
<1>5. IsRecord(out)
  BY <1>2, <1>4 DEF IsRecord
<1> QED
  BY <1>2, <1>4, <1>5 DEF out

\* A round is played, and the one below is next.
WithLevel(rec, level) == [rec EXCEPT !.level = level]

LEMMA LevelFacts ==
  ASSUME NEW rec, IsRecord(rec), NEW level
  PROVE  LET out == WithLevel(rec, level)
         IN  /\ IsRecord(out)
             /\ out.phase = rec.phase
             /\ out.winner = rec.winner
             /\ out.deadline = rec.deadline
             /\ out.customDeadline = rec.customDeadline
             /\ out.cause = rec.cause
             /\ out.staged = rec.staged
             /\ out.level = level
             /\ out.entry = rec.entry
             /\ out.reads = rec.reads
             /\ out.table = rec.table
             /\ out.answered = rec.answered
             /\ out.bytes = rec.bytes
<1> DEFINE out == WithLevel(rec, level)
<1>1. out = [rec EXCEPT !.level = level]
  BY DEF WithLevel
<1> HIDE DEF out
<1>2. out = [phase |-> rec.phase, winner |-> rec.winner, deadline |-> rec.deadline,
             customDeadline |-> rec.customDeadline, cause |-> rec.cause,
             staged |-> rec.staged, level |-> level, entry |-> rec.entry,
             reads |-> rec.reads, table |-> rec.table, answered |-> rec.answered,
             bytes |-> rec.bytes]
  BY <1>1 DEF IsRecord
<1>4. /\ out.phase = rec.phase
      /\ out.winner = rec.winner
      /\ out.deadline = rec.deadline
      /\ out.customDeadline = rec.customDeadline
      /\ out.cause = rec.cause
      /\ out.staged = rec.staged
      /\ out.level = level
      /\ out.entry = rec.entry
      /\ out.reads = rec.reads
      /\ out.table = rec.table
      /\ out.answered = rec.answered
  BY <1>2
<1>5. IsRecord(out)
  BY <1>2, <1>4 DEF IsRecord
<1> QED
  BY <1>2, <1>4, <1>5 DEF out

\* A round is played, and the entry is narrowed.
WithRound(rec, level, entry) == [rec EXCEPT !.level = level, !.entry = entry]

LEMMA RoundFacts ==
  ASSUME NEW rec, IsRecord(rec), NEW level, NEW entry
  PROVE  LET out == WithRound(rec, level, entry)
         IN  /\ IsRecord(out)
             /\ out.phase = rec.phase
             /\ out.winner = rec.winner
             /\ out.deadline = rec.deadline
             /\ out.customDeadline = rec.customDeadline
             /\ out.cause = rec.cause
             /\ out.staged = rec.staged
             /\ out.level = level
             /\ out.entry = entry
             /\ out.reads = rec.reads
             /\ out.table = rec.table
             /\ out.answered = rec.answered
             /\ out.bytes = rec.bytes
<1> DEFINE out == WithRound(rec, level, entry)
<1>1. out = [rec EXCEPT !.level = level, !.entry = entry]
  BY DEF WithRound
<1> HIDE DEF out
<1>2. out = [phase |-> rec.phase, winner |-> rec.winner, deadline |-> rec.deadline,
             customDeadline |-> rec.customDeadline, cause |-> rec.cause,
             staged |-> rec.staged, level |-> level, entry |-> entry,
             reads |-> rec.reads, table |-> rec.table, answered |-> rec.answered,
             bytes |-> rec.bytes]
  BY <1>1 DEF IsRecord
<1>4. /\ out.phase = rec.phase
      /\ out.winner = rec.winner
      /\ out.deadline = rec.deadline
      /\ out.customDeadline = rec.customDeadline
      /\ out.cause = rec.cause
      /\ out.staged = rec.staged
      /\ out.level = level
      /\ out.entry = entry
      /\ out.reads = rec.reads
      /\ out.table = rec.table
      /\ out.answered = rec.answered
  BY <1>2
<1>5. IsRecord(out)
  BY <1>2, <1>4 DEF IsRecord
<1> QED
  BY <1>2, <1>4, <1>5 DEF out

\* The reads of the entry are verified.
WithReads(rec, reads) == [rec EXCEPT !.reads = reads]

LEMMA ReadsFacts ==
  ASSUME NEW rec, IsRecord(rec), NEW reads
  PROVE  LET out == WithReads(rec, reads)
         IN  /\ IsRecord(out)
             /\ out.phase = rec.phase
             /\ out.winner = rec.winner
             /\ out.deadline = rec.deadline
             /\ out.customDeadline = rec.customDeadline
             /\ out.cause = rec.cause
             /\ out.staged = rec.staged
             /\ out.level = rec.level
             /\ out.entry = rec.entry
             /\ out.reads = reads
             /\ out.table = rec.table
             /\ out.answered = rec.answered
             /\ out.bytes = rec.bytes
<1> DEFINE out == WithReads(rec, reads)
<1>1. out = [rec EXCEPT !.reads = reads]
  BY DEF WithReads
<1> HIDE DEF out
<1>2. out = [phase |-> rec.phase, winner |-> rec.winner, deadline |-> rec.deadline,
             customDeadline |-> rec.customDeadline, cause |-> rec.cause,
             staged |-> rec.staged, level |-> rec.level, entry |-> rec.entry,
             reads |-> reads, table |-> rec.table, answered |-> rec.answered,
             bytes |-> rec.bytes]
  BY <1>1 DEF IsRecord
<1>4. /\ out.phase = rec.phase
      /\ out.winner = rec.winner
      /\ out.deadline = rec.deadline
      /\ out.customDeadline = rec.customDeadline
      /\ out.cause = rec.cause
      /\ out.staged = rec.staged
      /\ out.level = rec.level
      /\ out.entry = rec.entry
      /\ out.reads = reads
      /\ out.table = rec.table
      /\ out.answered = rec.answered
  BY <1>2
<1>5. IsRecord(out)
  BY <1>2, <1>4 DEF IsRecord
<1> QED
  BY <1>2, <1>4, <1>5 DEF out

\* A part of the family table is revealed.
WithTable(rec, table) == [rec EXCEPT !.table = table]

LEMMA TableFacts ==
  ASSUME NEW rec, IsRecord(rec), NEW table
  PROVE  LET out == WithTable(rec, table)
         IN  /\ IsRecord(out)
             /\ out.phase = rec.phase
             /\ out.winner = rec.winner
             /\ out.deadline = rec.deadline
             /\ out.customDeadline = rec.customDeadline
             /\ out.cause = rec.cause
             /\ out.staged = rec.staged
             /\ out.level = rec.level
             /\ out.entry = rec.entry
             /\ out.reads = rec.reads
             /\ out.table = table
             /\ out.answered = rec.answered
             /\ out.bytes = rec.bytes
<1> DEFINE out == WithTable(rec, table)
<1>1. out = [rec EXCEPT !.table = table]
  BY DEF WithTable
<1> HIDE DEF out
<1>2. out = [phase |-> rec.phase, winner |-> rec.winner, deadline |-> rec.deadline,
             customDeadline |-> rec.customDeadline, cause |-> rec.cause,
             staged |-> rec.staged, level |-> rec.level, entry |-> rec.entry,
             reads |-> rec.reads, table |-> table, answered |-> rec.answered,
             bytes |-> rec.bytes]
  BY <1>1 DEF IsRecord
<1>4. /\ out.phase = rec.phase
      /\ out.winner = rec.winner
      /\ out.deadline = rec.deadline
      /\ out.customDeadline = rec.customDeadline
      /\ out.cause = rec.cause
      /\ out.staged = rec.staged
      /\ out.level = rec.level
      /\ out.entry = rec.entry
      /\ out.reads = rec.reads
      /\ out.table = table
      /\ out.answered = rec.answered
  BY <1>2
<1>5. IsRecord(out)
  BY <1>2, <1>4 DEF IsRecord
<1> QED
  BY <1>2, <1>4, <1>5 DEF out

\* A slot of a summary leaf is answered.
WithAnswered(rec, answered) == [rec EXCEPT !.answered = answered]

LEMMA AnsweredFacts ==
  ASSUME NEW rec, IsRecord(rec), NEW answered
  PROVE  LET out == WithAnswered(rec, answered)
         IN  /\ IsRecord(out)
             /\ out.phase = rec.phase
             /\ out.winner = rec.winner
             /\ out.deadline = rec.deadline
             /\ out.customDeadline = rec.customDeadline
             /\ out.cause = rec.cause
             /\ out.staged = rec.staged
             /\ out.level = rec.level
             /\ out.entry = rec.entry
             /\ out.reads = rec.reads
             /\ out.table = rec.table
             /\ out.answered = answered
             /\ out.bytes = rec.bytes
<1> DEFINE out == WithAnswered(rec, answered)
<1>1. out = [rec EXCEPT !.answered = answered]
  BY DEF WithAnswered
<1> HIDE DEF out
<1>2. out = [phase |-> rec.phase, winner |-> rec.winner, deadline |-> rec.deadline,
             customDeadline |-> rec.customDeadline, cause |-> rec.cause,
             staged |-> rec.staged, level |-> rec.level, entry |-> rec.entry,
             reads |-> rec.reads, table |-> rec.table, answered |-> answered,
             bytes |-> rec.bytes]
  BY <1>1 DEF IsRecord
<1>4. /\ out.phase = rec.phase
      /\ out.winner = rec.winner
      /\ out.deadline = rec.deadline
      /\ out.customDeadline = rec.customDeadline
      /\ out.cause = rec.cause
      /\ out.staged = rec.staged
      /\ out.level = rec.level
      /\ out.entry = rec.entry
      /\ out.reads = rec.reads
      /\ out.table = rec.table
      /\ out.answered = answered
  BY <1>2
<1>5. IsRecord(out)
  BY <1>2, <1>4 DEF IsRecord
<1> QED
  BY <1>2, <1>4, <1>5 DEF out

\* An entry is fixed.
LEMMA FixedFacts ==
  ASSUME NEW rec, IsRecord(rec), NEW entry
  PROVE  LET out == Fixed(rec, entry)
         IN  /\ IsRecord(out)
             /\ out.phase = PHASE_RESPOND
             /\ out.winner = rec.winner
             /\ out.deadline = RoundDeadline
             /\ out.customDeadline = rec.customDeadline
             /\ out.cause = rec.cause
             /\ out.staged = rec.staged
             /\ out.level = rec.level
             /\ out.entry = entry
             /\ out.reads = rec.reads
             /\ out.table = rec.table
             /\ out.answered = rec.answered
             /\ out.bytes.w170 = entry
             /\ out.bytes.w174 = 1
             /\ out.bytes.w176 = 0
             /\ out.bytes.w178 = 0
             /\ out.bytes.w180 = 0
<1> DEFINE out == Fixed(rec, entry)
           bytes == [EmptyBytes EXCEPT !.w170 = entry, !.w174 = 1]
<1>1. out = [rec EXCEPT !.phase = PHASE_RESPOND, !.deadline = RoundDeadline, !.entry = entry,
                 !.bytes = bytes]
  BY DEF Fixed, Enter
<1>3. bytes = [w170 |-> entry, w174 |-> 1, w176 |-> 0, w178 |-> 0, w180 |-> 0]
  <2> DEFINE b == bytes
  <2>1. b = bytes
    OBVIOUS
  <2> HIDE DEF b
  <2>2. b = [w170 |-> entry, w174 |-> 1, w176 |-> 0, w178 |-> 0, w180 |-> 0]
    BY <2>1 DEF IsRecord, EmptyBytes
  <2> QED
    BY <2>1, <2>2
<1> HIDE DEF out, bytes
<1>2. out = [phase |-> PHASE_RESPOND, winner |-> rec.winner,
             deadline |-> RoundDeadline, customDeadline |-> rec.customDeadline,
             cause |-> rec.cause, staged |-> rec.staged, level |-> rec.level,
             entry |-> entry, reads |-> rec.reads, table |-> rec.table,
             answered |-> rec.answered, bytes |-> bytes]
  BY <1>1 DEF IsRecord
<1>4. /\ out.phase = PHASE_RESPOND
      /\ out.winner = rec.winner
      /\ out.deadline = RoundDeadline
      /\ out.customDeadline = rec.customDeadline
      /\ out.cause = rec.cause
      /\ out.staged = rec.staged
      /\ out.level = rec.level
      /\ out.entry = entry
      /\ out.reads = rec.reads
      /\ out.table = rec.table
      /\ out.answered = rec.answered
      /\ out.bytes = bytes
  BY <1>2
<1>5. IsRecord(out)
  BY <1>2, <1>3, <1>4 DEF IsRecord
<1> QED
  BY <1>3, <1>4, <1>5 DEF out

\* A ruling is written.
LEMMA RuledFacts ==
  ASSUME NEW rec, IsRecord(rec), NEW winner, NEW cause
  PROVE  LET out == Ruled(rec, winner, cause)
         IN  /\ IsRecord(out)
             /\ out.phase = PHASE_RULED
             /\ out.winner = winner
             /\ out.deadline = 0
             /\ out.customDeadline = CustomDeadline(winner)
             /\ out.cause = cause
             /\ out.staged = rec.staged
             /\ out.level = rec.level
             /\ out.entry = rec.entry
             /\ out.reads = rec.reads
             /\ out.table = rec.table
             /\ out.answered = rec.answered
             /\ out.bytes.w170 = CustomDeadline(winner)
             /\ out.bytes.w174 = 0
             /\ out.bytes.w176 = 0
             /\ out.bytes.w178 = cause
             /\ out.bytes.w180 = rec.bytes.w180
<1> DEFINE out == Ruled(rec, winner, cause)
           bytes == [rec.bytes EXCEPT !.w170 = CustomDeadline(winner), !.w174 = 0,
                                 !.w176 = 0, !.w178 = cause]
<1>1. out = [rec EXCEPT !.phase = PHASE_RULED, !.winner = winner, !.deadline = 0,
                 !.customDeadline = CustomDeadline(winner), !.cause = cause,
                 !.bytes = bytes]
  BY DEF Ruled
<1>3. bytes = [w170 |-> CustomDeadline(winner), w174 |-> 0, w176 |-> 0, w178 |-> cause, w180 |-> rec.bytes.w180]
  <2> DEFINE b == bytes
  <2>1. b = bytes
    OBVIOUS
  <2> HIDE DEF b
  <2>2. b = [w170 |-> CustomDeadline(winner), w174 |-> 0, w176 |-> 0, w178 |-> cause, w180 |-> rec.bytes.w180]
    BY <2>1 DEF IsRecord, EmptyBytes
  <2> QED
    BY <2>1, <2>2
<1> HIDE DEF out, bytes
<1>2. out = [phase |-> PHASE_RULED, winner |-> winner, deadline |-> 0,
             customDeadline |-> CustomDeadline(winner), cause |-> cause,
             staged |-> rec.staged, level |-> rec.level, entry |-> rec.entry,
             reads |-> rec.reads, table |-> rec.table, answered |-> rec.answered,
             bytes |-> bytes]
  BY <1>1 DEF IsRecord
<1>4. /\ out.phase = PHASE_RULED
      /\ out.winner = winner
      /\ out.deadline = 0
      /\ out.customDeadline = CustomDeadline(winner)
      /\ out.cause = cause
      /\ out.staged = rec.staged
      /\ out.level = rec.level
      /\ out.entry = rec.entry
      /\ out.reads = rec.reads
      /\ out.table = rec.table
      /\ out.answered = rec.answered
      /\ out.bytes = bytes
  BY <1>2
<1>5. IsRecord(out)
  BY <1>2, <1>3, <1>4 DEF IsRecord
<1> QED
  BY <1>3, <1>4, <1>5 DEF out

-----------------------------------------------------------------------------
(* What the actions do to the record                                       *)

USE DEF PHASE_RESPOND, PHASE_SEALED, PHASE_RULED, PHASE_SETTLED, PHASE_REVEAL, PHASE_DESCEND,
        PHASE_POSITION_REVEAL, PHASE_SELECT, PHASE_SUMMARY_REVEAL, PHASE_SUMMARY_DESCEND,
        PHASE_SUMMARY_ANSWER, Closed, ChallengerPhases, ExecutorPhases, LivePhases

LEMMA Sizes ==
  /\ Depth \in Nat \ {0}
  /\ SummaryDepth \in Nat \ {0}
  /\ MostTurns \in Nat
  /\ 2 * Depth + 3 <= MostTurns
  /\ 2 * SummaryDepth <= MostTurns
BY ChallengeAssumption DEF MostTurns

\* The party in turn has acted in time, and a new turn begins.
TurnTaken ==
  /\ record.phase \in LivePhases
  /\ InTime
  /\ RoundFits
  /\ GoodRecord(record')
  /\ record'.phase \in LivePhases
  /\ record'.winner = record.winner
  /\ record'.customDeadline = record.customDeadline
  /\ record'.deadline = RoundDeadline
  /\ turns' = turns + 1
  /\ TurnsLeft(record) \in Nat
  /\ TurnsLeft(record') \in Nat
  /\ TurnsLeft(record') < TurnsLeft(record)
  /\ UNCHANGED <<slot, document, opened, paid>>

\* It has acted, and the same turn goes on.
TurnGoesOn ==
  /\ record.phase \in LivePhases
  /\ GoodRecord(record')
  /\ record'.phase = record.phase
  /\ record'.winner = record.winner
  /\ record'.customDeadline = record.customDeadline
  /\ record'.deadline = record.deadline
  /\ TurnsLeft(record') = TurnsLeft(record)
  /\ UNCHANGED <<slot, document, opened, turns, paid>>

\* The challenge is ruled: in time by what was answered, or for the party that did
\* not keep the other waiting.
IsRuled ==
  \E winner \in {WINNER_EXECUTOR, WINNER_CHALLENGER},
     cause \in {CAUSE_VERDICT, CAUSE_CONVICT, CAUSE_TIMEOUT} :
    /\ record.phase \in LivePhases
    /\ Rule(winner, cause)
    /\ \/ InTime /\ (record.phase \in ChallengerPhases => winner = WINNER_CHALLENGER)
       \/ /\ slot > record.deadline
          /\ winner = IF record.phase \in ChallengerPhases
                        THEN WINNER_EXECUTOR ELSE WINNER_CHALLENGER

\* A chunk of the SDK is a run of segments, and carries its length.
LEMMA ChunkLength ==
  ASSUME NEW first, NEW count \in Nat
  PROVE  Len(Chunk(first, count)) = count
BY DEF Chunk

LEMMA ChunksCarryRoots ==
  ASSUME NEW ix \in Instructions, ix.tag = 163
  PROVE  ix.data[1] \in Nat /\ Len(ix.data[2]) \in Nat
<1>1. PICK first \in 0..(SegmentCount - 1), count \in 1..MaxChunk :
        ix = revealPosition(first, Chunk(first, count))
  BY DEF Instructions, Openings, challengeLeaf, challengePosition, challengeSummary,
         selectSegment, RoundReveal, revealDescent, RoundDescend, descend, summaryReveal,
         summarySelect, summaryAnswer, revealFamilyTable, timeout, closeResponse, settle,
         instruction
<1>2. ix.data = <<first, Chunk(first, count)>>
  BY <1>1 DEF revealPosition, instruction
<1> QED
  BY <1>2, ChunkLength

LEMMA RevealChunkDoes ==
  ASSUME ChallengeInv, NEW ix \in Instructions, RevealChunk(ix) PROVE TurnTaken \/ TurnGoesOn
<1> DEFINE staged == ix.data[1] + Len(ix.data[2])
           verified == IF staged = SegmentCount THEN 1 ELSE 0
           moved == WithStaged(record, staged)
           next == Write176(moved, staged, SegmentCount, verified)
           entered == Enter(next, PHASE_SELECT)
<1>1. /\ record.phase = PHASE_POSITION_REVEAL
      /\ InTime
      /\ IF verified = 1 THEN Turn(entered) ELSE Stay(next)
  BY DEF RevealChunk, WithStaged
<1>2. /\ IsRecord(record) /\ record.reads = 0
      /\ record.staged \in Nat /\ record.table \in Nat
  BY <1>1 DEF ChallengeInv, GoodRecord
<1>8. staged \in Nat
  BY ChunksCarryRoots DEF RevealChunk
<1> HIDE DEF staged
<1>3. /\ IsRecord(moved)
      /\ moved.phase = record.phase
      /\ moved.winner = record.winner
      /\ moved.deadline = record.deadline
      /\ moved.customDeadline = record.customDeadline
      /\ moved.staged = staged
      /\ moved.reads = record.reads
      /\ moved.table \in Nat
      /\ moved.staged \in Nat
  BY <1>2, <1>8, StagedFacts
<1> HIDE DEF moved, verified
<1>4. /\ IsRecord(next)
      /\ next.phase = record.phase
      /\ next.winner = record.winner
      /\ next.deadline = record.deadline
      /\ next.customDeadline = record.customDeadline
      /\ next.staged = staged
      /\ next.reads = 0
      /\ next.table \in Nat
      /\ next.staged \in Nat
      /\ next.bytes.w176 = staged
      /\ next.bytes.w178 = SegmentCount
      /\ next.bytes.w180 = verified
  BY <1>2, <1>3, WriteFacts
<1> HIDE DEF next
<1>5. /\ IsRecord(entered)
      /\ entered.phase = PHASE_SELECT
      /\ entered.winner = record.winner
      /\ entered.deadline = RoundDeadline
      /\ entered.customDeadline = record.customDeadline
      /\ entered.staged = staged
      /\ entered.reads = 0
      /\ entered.table \in Nat
      /\ entered.staged \in Nat
      /\ entered.bytes = next.bytes
  BY <1>4, EnterFacts
<1> HIDE DEF entered
<1>6. CASE verified = 1
  <2>1. GoodRecord(entered)
    BY <1>4, <1>5, <1>6 DEF GoodRecord
  <2>2. TurnsLeft(record) = 2 * Depth + 3 /\ TurnsLeft(entered) = 2 * Depth + 2
    BY <1>1, <1>5 DEF TurnsLeft
  <2>3. Turn(entered)
    BY <1>1, <1>6
  <2>4. TurnTaken
    BY <1>1, <1>5, <2>1, <2>2, <2>3, Sizes DEF TurnTaken, Turn
  <2> QED
    BY <2>4
<1>7. CASE verified # 1
  <2>1. verified = 0
    BY <1>7 DEF verified
  <2>2. GoodRecord(next)
    BY <1>1, <1>4, <2>1 DEF GoodRecord
  <2>3. TurnsLeft(record) = 2 * Depth + 3 /\ TurnsLeft(next) = 2 * Depth + 3
    BY <1>1, <1>4 DEF TurnsLeft
  <2>4. Stay(next)
    BY <1>1, <1>7
  <2>5. TurnGoesOn
    BY <1>1, <1>4, <2>2, <2>3, <2>4 DEF TurnGoesOn, Stay
  <2> QED
    BY <2>5
<1> QED
  BY <1>6, <1>7

LEMMA SelectDoes ==
  ASSUME ChallengeInv, NEW ix, Select(ix) PROVE TurnTaken
<1> DEFINE entered == Enter(record, PHASE_REVEAL)
           moved == WithDescent(entered, 0, Depth)
           next == Write176(moved, 0, 0, 0)
<1>1. record.phase = PHASE_SELECT /\ InTime /\ Turn(next)
  BY DEF Select, WithDescent
<1>2. /\ IsRecord(record) /\ record.reads = 0
      /\ record.staged \in Nat /\ record.table \in Nat
  BY <1>1 DEF ChallengeInv, GoodRecord
<1>3. /\ IsRecord(entered)
      /\ entered.phase = PHASE_REVEAL
      /\ entered.winner = record.winner
      /\ entered.deadline = RoundDeadline
      /\ entered.customDeadline = record.customDeadline
      /\ entered.reads = 0
      /\ entered.table \in Nat
      /\ entered.staged \in Nat
  BY <1>2, EnterFacts
<1> HIDE DEF entered
<1>4. /\ IsRecord(moved)
      /\ moved.phase = PHASE_REVEAL
      /\ moved.winner = record.winner
      /\ moved.deadline = RoundDeadline
      /\ moved.customDeadline = record.customDeadline
      /\ moved.level = Depth
      /\ moved.reads = 0
      /\ moved.table \in Nat
      /\ moved.staged \in Nat
  BY <1>3, DescentFacts
<1> HIDE DEF moved
<1>5. /\ IsRecord(next)
      /\ next.phase = PHASE_REVEAL
      /\ next.winner = record.winner
      /\ next.deadline = RoundDeadline
      /\ next.customDeadline = record.customDeadline
      /\ next.level = Depth
      /\ next.reads = 0
      /\ next.table \in Nat
      /\ next.staged \in Nat
  BY <1>4, WriteFacts
<1> HIDE DEF next
<1>6. GoodRecord(next)
  BY <1>5, Sizes DEF GoodRecord
<1>7. TurnsLeft(record) = 2 * Depth + 2 /\ TurnsLeft(next) = 2 * Depth + 1
  BY <1>1, <1>5 DEF TurnsLeft
<1> QED
  BY <1>1, <1>5, <1>6, <1>7, Sizes DEF TurnTaken, Turn

LEMMA RevealDoes ==
  ASSUME ChallengeInv, NEW ix, Reveal(ix) PROVE TurnTaken \/ IsRuled
<1> DEFINE next == Enter(record, PHASE_DESCEND)
<1>1. record.phase = PHASE_REVEAL /\ InTime
  BY DEF Reveal
<1>2. CASE Rule(WINNER_CHALLENGER, CAUSE_CONVICT)
  BY <1>1, <1>2 DEF IsRuled
<1>3. CASE Turn(next)
  <2>1. /\ IsRecord(record) /\ record.reads = 0 /\ record.level \in Nat \ {0}
      /\ record.staged \in Nat /\ record.table \in Nat
    BY <1>1 DEF ChallengeInv, GoodRecord
  <2>2. /\ IsRecord(next)
        /\ next.phase = PHASE_DESCEND
        /\ next.winner = record.winner
        /\ next.deadline = RoundDeadline
        /\ next.customDeadline = record.customDeadline
        /\ next.level = record.level
        /\ next.reads = 0
        /\ next.table \in Nat
        /\ next.staged \in Nat
    BY <2>1, EnterFacts
  <2> HIDE DEF next
  <2>3. GoodRecord(next)
    BY <2>1, <2>2 DEF GoodRecord
  <2>4. TurnsLeft(record) = 2 * record.level + 1 /\ TurnsLeft(next) = 2 * record.level
    BY <1>1, <2>2 DEF TurnsLeft
  <2>5. TurnTaken
    BY <1>1, <1>3, <2>1, <2>2, <2>3, <2>4 DEF TurnTaken, Turn
  <2> QED
    BY <2>5
<1> QED
  BY <1>2, <1>3 DEF Reveal

LEMMA DescendDoes ==
  ASSUME ChallengeInv, NEW ix, Descend(ix) PROVE TurnTaken \/ IsRuled
<1> DEFINE entry == record.entry * Width + ix.data[1]
           bottom == WithLevel(record, 0)
           fixed == Fixed(bottom, entry)
           entered == Enter(record, PHASE_REVEAL)
           next == WithRound(entered, entered.level - 1, entry)
<1>1. /\ record.phase = PHASE_DESCEND
      /\ InTime
      /\ IF LastRound
           THEN Turn(fixed) \/ Rule(WINNER_CHALLENGER, CAUSE_CONVICT)
           ELSE Turn(next)
  BY DEF Descend, WithLevel, WithRound
<1>2. /\ IsRecord(record) /\ record.reads = 0 /\ record.level \in Nat \ {0}
      /\ record.staged \in Nat /\ record.table \in Nat
  BY <1>1 DEF ChallengeInv, GoodRecord
<1>3. TurnsLeft(record) = 2 * record.level
  BY <1>1 DEF TurnsLeft
<1> HIDE DEF entry
<1>4. CASE LastRound /\ Turn(fixed)
  <2>1. /\ IsRecord(bottom)
        /\ bottom.winner = record.winner
        /\ bottom.customDeadline = record.customDeadline
        /\ bottom.reads = 0
        /\ bottom.table \in Nat
        /\ bottom.staged \in Nat
    BY <1>2, LevelFacts
  <2> HIDE DEF bottom
  <2>2. /\ IsRecord(fixed)
        /\ fixed.phase = PHASE_RESPOND
        /\ fixed.winner = record.winner
        /\ fixed.deadline = RoundDeadline
        /\ fixed.customDeadline = record.customDeadline
        /\ fixed.entry = entry
        /\ fixed.reads = 0
        /\ fixed.table \in Nat
        /\ fixed.staged \in Nat
        /\ fixed.bytes.w170 = entry
        /\ fixed.bytes.w176 = 0
        /\ fixed.bytes.w178 = 0
    BY <2>1, FixedFacts
  <2> HIDE DEF fixed
  <2>3. GoodRecord(fixed)
    BY <2>2 DEF GoodRecord
  <2>4. TurnsLeft(fixed) = 1
    BY <2>2 DEF TurnsLeft
  <2>5. TurnTaken
    BY <1>1, <1>2, <1>3, <1>4, <2>2, <2>3, <2>4 DEF TurnTaken, Turn
  <2> QED
    BY <2>5
<1>5. CASE Rule(WINNER_CHALLENGER, CAUSE_CONVICT)
  BY <1>1, <1>5 DEF IsRuled
<1>6. CASE ~ LastRound /\ Turn(next)
  <2>1. /\ IsRecord(entered)
        /\ entered.phase = PHASE_REVEAL
        /\ entered.winner = record.winner
        /\ entered.deadline = RoundDeadline
        /\ entered.customDeadline = record.customDeadline
        /\ entered.level = record.level
        /\ entered.reads = 0
        /\ entered.table \in Nat
        /\ entered.staged \in Nat
    BY <1>2, EnterFacts
  <2> HIDE DEF entered
  <2>2. /\ IsRecord(next)
        /\ next.phase = PHASE_REVEAL
        /\ next.winner = record.winner
        /\ next.deadline = RoundDeadline
        /\ next.customDeadline = record.customDeadline
        /\ next.level = entered.level - 1
        /\ next.reads = 0
        /\ next.table \in Nat
        /\ next.staged \in Nat
    BY <2>1, RoundFacts
  <2> HIDE DEF next
  <2>3. record.level - 1 \in Nat \ {0}
    BY <1>2, <1>6 DEF LastRound
  <2>4. GoodRecord(next)
    BY <2>1, <2>2, <2>3 DEF GoodRecord
  <2>5. TurnsLeft(next) = 2 * (record.level - 1) + 1
    BY <2>1, <2>2 DEF TurnsLeft
  <2>6. TurnTaken
    BY <1>1, <1>2, <1>3, <1>6, <2>2, <2>3, <2>4, <2>5 DEF TurnTaken, Turn
  <2> QED
    BY <2>6
<1> QED
  BY <1>1, <1>4, <1>5, <1>6

LEMMA RevealSummaryDoes ==
  ASSUME ChallengeInv, NEW ix, RevealSummary(ix) PROVE TurnTaken
<1> DEFINE next == Enter(record, PHASE_SUMMARY_DESCEND)
<1>1. record.phase = PHASE_SUMMARY_REVEAL /\ InTime /\ Turn(next)
  BY DEF RevealSummary
<1>2. /\ IsRecord(record) /\ record.reads = 0 /\ record.level \in Nat \ {0}
      /\ record.staged \in Nat /\ record.table \in Nat
  BY <1>1 DEF ChallengeInv, GoodRecord
<1>3. /\ IsRecord(next)
      /\ next.phase = PHASE_SUMMARY_DESCEND
      /\ next.winner = record.winner
      /\ next.deadline = RoundDeadline
      /\ next.customDeadline = record.customDeadline
      /\ next.level = record.level
      /\ next.reads = 0
      /\ next.table \in Nat
      /\ next.staged \in Nat
  BY <1>2, EnterFacts
<1> HIDE DEF next
<1>4. GoodRecord(next)
  BY <1>2, <1>3 DEF GoodRecord
<1>5. TurnsLeft(record) = 2 * record.level /\ TurnsLeft(next) = 2 * record.level - 1
  BY <1>1, <1>3 DEF TurnsLeft
<1> QED
  BY <1>1, <1>2, <1>3, <1>4, <1>5 DEF TurnTaken, Turn

\* A summary leaf is reached: by the last descent, or at once by tag 170.
LEMMA LeafReached ==
  ASSUME ChallengeInv, InTime, record.phase \in {PHASE_SUMMARY_REVEAL, PHASE_SUMMARY_DESCEND},
         Turn(WithLevel(Enter(record, PHASE_SUMMARY_ANSWER), 0))
  PROVE  TurnTaken
<1> DEFINE entered == Enter(record, PHASE_SUMMARY_ANSWER)
           next == WithLevel(entered, 0)
<1>2. /\ IsRecord(record) /\ record.reads = 0 /\ record.level \in Nat \ {0}
      /\ record.staged \in Nat /\ record.table \in Nat
  BY DEF ChallengeInv, GoodRecord
<1>3. /\ IsRecord(entered)
      /\ entered.phase = PHASE_SUMMARY_ANSWER
      /\ entered.winner = record.winner
      /\ entered.deadline = RoundDeadline
      /\ entered.customDeadline = record.customDeadline
      /\ entered.reads = 0
      /\ entered.table \in Nat
      /\ entered.staged \in Nat
  BY <1>2, EnterFacts
<1> HIDE DEF entered
<1>4. /\ IsRecord(next)
      /\ next.phase = PHASE_SUMMARY_ANSWER
      /\ next.winner = record.winner
      /\ next.deadline = RoundDeadline
      /\ next.customDeadline = record.customDeadline
      /\ next.reads = 0
      /\ next.table \in Nat
      /\ next.staged \in Nat
  BY <1>3, LevelFacts
<1>1. Turn(next)
  BY DEF entered
<1> HIDE DEF next
<1>5. GoodRecord(next)
  BY <1>4 DEF GoodRecord
<1>6. /\ TurnsLeft(record) \in {2 * record.level, 2 * record.level - 1}
      /\ TurnsLeft(next) = 0
  BY <1>4 DEF TurnsLeft
<1> QED
  BY <1>1, <1>2, <1>4, <1>5, <1>6 DEF TurnTaken, Turn

LEMMA SelectSummaryDoes ==
  ASSUME ChallengeInv, NEW ix, SelectSummary(ix) PROVE TurnTaken
<1> DEFINE entered == Enter(record, PHASE_SUMMARY_REVEAL)
           next == WithLevel(entered, entered.level - 1)
<1>1. /\ record.phase = PHASE_SUMMARY_DESCEND
      /\ InTime
      /\ IF LastRound
           THEN Turn(WithLevel(Enter(record, PHASE_SUMMARY_ANSWER), 0))
           ELSE Turn(next)
  BY DEF SelectSummary, WithLevel
<1>2. /\ IsRecord(record) /\ record.reads = 0 /\ record.level \in Nat \ {0}
      /\ record.staged \in Nat /\ record.table \in Nat
  BY <1>1 DEF ChallengeInv, GoodRecord
<1>3. CASE LastRound
  BY <1>1, <1>3, LeafReached
<1>4. CASE ~ LastRound
  <2>1. /\ IsRecord(entered)
        /\ entered.phase = PHASE_SUMMARY_REVEAL
        /\ entered.winner = record.winner
        /\ entered.deadline = RoundDeadline
        /\ entered.customDeadline = record.customDeadline
        /\ entered.level = record.level
        /\ entered.reads = 0
        /\ entered.table \in Nat
        /\ entered.staged \in Nat
    BY <1>2, EnterFacts
  <2> HIDE DEF entered
  <2>2. /\ IsRecord(next)
        /\ next.phase = PHASE_SUMMARY_REVEAL
        /\ next.winner = record.winner
        /\ next.deadline = RoundDeadline
        /\ next.customDeadline = record.customDeadline
        /\ next.level = entered.level - 1
        /\ next.reads = 0
        /\ next.table \in Nat
        /\ next.staged \in Nat
    BY <2>1, LevelFacts
  <2>6. Turn(next)
    BY <1>1, <1>4
  <2> HIDE DEF next
  <2>3. record.level - 1 \in Nat \ {0}
    BY <1>2, <1>4 DEF LastRound
  <2>4. GoodRecord(next)
    BY <2>1, <2>2, <2>3 DEF GoodRecord
  <2>5. TurnsLeft(record) = 2 * record.level - 1 /\ TurnsLeft(next) = 2 * (record.level - 1)
    BY <1>1, <2>1, <2>2 DEF TurnsLeft
  <2> QED
    BY <1>1, <1>2, <2>2, <2>3, <2>4, <2>5, <2>6 DEF TurnTaken, Turn
<1> QED
  BY <1>3, <1>4

LEMMA AnswerSummaryDoes ==
  ASSUME ChallengeInv, NEW ix, AnswerSummary(ix) PROVE TurnGoesOn \/ IsRuled
<1> DEFINE answered == record.answered \cup {ix.data[1]}
           next == WithAnswered(record, answered)
<1>1. /\ record.phase = PHASE_SUMMARY_ANSWER
      /\ InTime
      /\ \/ \E winner \in {WINNER_EXECUTOR, WINNER_CHALLENGER} : Rule(winner, CAUSE_VERDICT)
         \/ Stay(next)
  BY DEF AnswerSummary, WithAnswered
<1>2. CASE \E winner \in {WINNER_EXECUTOR, WINNER_CHALLENGER} : Rule(winner, CAUSE_VERDICT)
  BY <1>1, <1>2 DEF IsRuled
<1> HIDE DEF answered
<1>3. CASE Stay(next)
  <2>1. /\ IsRecord(record) /\ record.reads = 0
      /\ record.staged \in Nat /\ record.table \in Nat
    BY <1>1 DEF ChallengeInv, GoodRecord
  <2>2. /\ IsRecord(next)
        /\ next.phase = PHASE_SUMMARY_ANSWER
        /\ next.winner = record.winner
        /\ next.deadline = record.deadline
        /\ next.customDeadline = record.customDeadline
        /\ next.reads = 0
        /\ next.table \in Nat
        /\ next.staged \in Nat
    BY <1>1, <2>1, AnsweredFacts
  <2> HIDE DEF next
  <2>3. GoodRecord(next)
    BY <2>2 DEF GoodRecord
  <2>4. TurnsLeft(record) = 0 /\ TurnsLeft(next) = 0
    BY <1>1, <2>2 DEF TurnsLeft
  <2>5. TurnGoesOn
    BY <1>1, <1>3, <2>2, <2>3, <2>4 DEF TurnGoesOn, Stay
  <2> QED
    BY <2>5
<1> QED
  BY <1>1, <1>2, <1>3

\* A family table is revealed root by root.
LEMMA TablesCountRoots ==
  ASSUME NEW ix \in Instructions, ix.tag = 173
  PROVE  ix.data[2] = 1
BY DEF Instructions, Openings, challengeLeaf, challengePosition, challengeSummary,
       revealPosition, selectSegment, RoundReveal, revealDescent, RoundDescend, descend,
       summaryReveal, summarySelect, summaryAnswer, revealFamilyTable, timeout,
       closeResponse, settle, instruction

LEMMA RevealTableDoes ==
  ASSUME ChallengeInv, NEW ix \in Instructions, RevealTable(ix) PROVE TurnGoesOn
<1> DEFINE next == WithTable(record, record.table + ix.data[2])
<1>1. record.phase \in {PHASE_RESPOND, PHASE_SEALED} /\ Stay(next)
  BY DEF RevealTable, WithTable
<1>2. /\ GoodRecord(record) /\ IsRecord(record)
      /\ record.staged \in Nat /\ record.table \in Nat
  BY DEF ChallengeInv, GoodRecord
<1>6. ix.data[2] = 1
  BY TablesCountRoots DEF RevealTable
<1>3. /\ IsRecord(next)
      /\ next.phase = record.phase
      /\ next.winner = record.winner
      /\ next.deadline = record.deadline
      /\ next.customDeadline = record.customDeadline
      /\ next.entry = record.entry
      /\ next.reads = record.reads
      /\ next.table \in Nat
      /\ next.staged \in Nat
      /\ next.bytes = record.bytes
  BY <1>2, <1>6, TableFacts
<1> HIDE DEF next
<1>4. GoodRecord(next)
  BY <1>1, <1>2, <1>3 DEF GoodRecord
<1>5. TurnsLeft(next) = TurnsLeft(record)
  BY <1>1, <1>3 DEF TurnsLeft
<1> QED
  BY <1>1, <1>3, <1>4, <1>5 DEF TurnGoesOn, Stay

LEMMA TimeoutDoes ==
  ASSUME ChallengeInv, NEW ix, Timeout(ix) PROVE IsRuled
<1> DEFINE winner == IF record.phase \in ChallengerPhases
                       THEN WINNER_EXECUTOR ELSE WINNER_CHALLENGER
<1>1. record.phase \in LivePhases /\ slot > record.deadline /\ Rule(winner, CAUSE_TIMEOUT)
  BY DEF Timeout
<1>2. winner \in {WINNER_EXECUTOR, WINNER_CHALLENGER}
  OBVIOUS
<1>3. winner = IF record.phase \in ChallengerPhases THEN WINNER_EXECUTOR ELSE WINNER_CHALLENGER
  OBVIOUS
<1> HIDE DEF winner
<1> QED
  BY <1>1, <1>2, <1>3 DEF IsRuled

LEMMA VerifyTargetDoes ==
  ASSUME ChallengeInv, VerifyTarget PROVE TurnTaken
<1> DEFINE entered == Enter(record, PHASE_SEALED)
           next == Write176(entered, 1, 0, 0)
<1>1. record.phase = PHASE_RESPOND /\ InTime /\ Turn(next)
  BY DEF VerifyTarget
<1>2. /\ IsRecord(record) /\ record.reads = 0 /\ record.bytes.w170 = record.entry
      /\ record.staged \in Nat /\ record.table \in Nat
  BY <1>1 DEF ChallengeInv, GoodRecord
<1>3. /\ IsRecord(entered)
      /\ entered.phase = PHASE_SEALED
      /\ entered.winner = record.winner
      /\ entered.deadline = RoundDeadline
      /\ entered.customDeadline = record.customDeadline
      /\ entered.entry = record.entry
      /\ entered.reads = 0
      /\ entered.table \in Nat
      /\ entered.staged \in Nat
      /\ entered.bytes = record.bytes
  BY <1>2, EnterFacts
<1> HIDE DEF entered
<1>4. /\ IsRecord(next)
      /\ next.phase = PHASE_SEALED
      /\ next.winner = record.winner
      /\ next.deadline = RoundDeadline
      /\ next.customDeadline = record.customDeadline
      /\ next.entry = record.entry
      /\ next.reads = 0
      /\ next.table \in Nat
      /\ next.staged \in Nat
      /\ next.bytes.w170 = record.entry
      /\ next.bytes.w176 = 1
      /\ next.bytes.w178 = 0
  BY <1>2, <1>3, WriteFacts
<1> HIDE DEF next
<1>5. GoodRecord(next)
  BY <1>4 DEF GoodRecord
<1>6. TurnsLeft(record) = 1 /\ TurnsLeft(next) = 0
  BY <1>1, <1>4 DEF TurnsLeft
<1> QED
  BY <1>1, <1>4, <1>5, <1>6 DEF TurnTaken, Turn

LEMMA VerifyReadsDoes ==
  ASSUME ChallengeInv, VerifyReads PROVE TurnGoesOn
<1> DEFINE verified == WithReads(record, 1)
           next == Write176(verified, 1, 1, 1)
<1>1. record.phase = PHASE_SEALED /\ Stay(next)
  BY DEF VerifyReads, WithReads
<1>2. /\ IsRecord(record) /\ record.bytes.w170 = record.entry
      /\ record.staged \in Nat /\ record.table \in Nat
  BY <1>1 DEF ChallengeInv, GoodRecord
<1>3. /\ IsRecord(verified)
      /\ verified.phase = PHASE_SEALED
      /\ verified.winner = record.winner
      /\ verified.deadline = record.deadline
      /\ verified.customDeadline = record.customDeadline
      /\ verified.entry = record.entry
      /\ verified.reads = 1
      /\ verified.table \in Nat
      /\ verified.staged \in Nat
      /\ verified.bytes = record.bytes
  BY <1>1, <1>2, ReadsFacts
<1> HIDE DEF verified
<1>4. /\ IsRecord(next)
      /\ next.phase = PHASE_SEALED
      /\ next.winner = record.winner
      /\ next.deadline = record.deadline
      /\ next.customDeadline = record.customDeadline
      /\ next.entry = record.entry
      /\ next.reads = 1
      /\ next.table \in Nat
      /\ next.staged \in Nat
      /\ next.bytes.w170 = record.entry
      /\ next.bytes.w176 = 1
      /\ next.bytes.w178 = 1
  BY <1>2, <1>3, WriteFacts
<1> HIDE DEF next
<1>5. GoodRecord(next)
  BY <1>4 DEF GoodRecord
<1>6. TurnsLeft(record) = 0 /\ TurnsLeft(next) = 0
  BY <1>1, <1>4 DEF TurnsLeft
<1> QED
  BY <1>1, <1>4, <1>5, <1>6 DEF TurnGoesOn, Stay

LEMMA ExecuteReplayDoes ==
  ASSUME ChallengeInv, ExecuteReplay PROVE IsRuled
BY DEF ExecuteReplay, IsRuled

LEMMA SummaryLeafDoes ==
  ASSUME ChallengeInv, SummaryLeaf PROVE TurnTaken
<1>1. /\ record.phase \in {PHASE_SUMMARY_REVEAL, PHASE_SUMMARY_DESCEND}
      /\ InTime
      /\ Turn(WithLevel(Enter(record, PHASE_SUMMARY_ANSWER), 0))
  BY DEF SummaryLeaf, WithLevel
<1> QED
  BY <1>1, LeafReached

\* Nothing about the challenge is changed, but perhaps the response account.
Untouched == UNCHANGED <<slot, document, record, opened, turns, paid>>

NoRecordFacts ==
  /\ IsRecord(NoRecord)
  /\ NoRecord.phase = Closed
  /\ NoRecord.winner = NoWinner
  /\ NoRecord.customDeadline = 0
  /\ NoRecord.reads = 0
  /\ NoRecord.staged \in Nat /\ NoRecord.table \in Nat

LEMMA NoRecordIsRecord == NoRecordFacts
<1> DEFINE rec == NoRecord
           bytes == EmptyBytes
<1>1. rec = [phase |-> Closed, winner |-> NoWinner, deadline |-> 0, customDeadline |-> 0,
             cause |-> 0, staged |-> 0, level |-> 0, entry |-> 0, reads |-> 0, table |-> 0,
             answered |-> {}, bytes |-> bytes]
  BY DEF NoRecord
<1>2. bytes = [w170 |-> 0, w174 |-> 0, w176 |-> 0, w178 |-> 0, w180 |-> 0]
  BY DEF EmptyBytes
<1> HIDE DEF rec, bytes
<1>3. IsRecord(rec)
  BY <1>1, <1>2 DEF IsRecord
<1> QED
  BY <1>1, <1>3 DEF NoRecordFacts, rec

\* A ruled record reads back, whatever was ruled.
LEMMA RulingIsGood ==
  ASSUME NEW rec, IsRecord(rec), rec.staged \in Nat, rec.table \in Nat,
         NEW winner \in {WINNER_EXECUTOR, WINNER_CHALLENGER},
         NEW cause \in {CAUSE_VERDICT, CAUSE_CONVICT, CAUSE_TIMEOUT}
  PROVE  LET out == Ruled(rec, winner, cause)
         IN  /\ GoodRecord(out)
             /\ out.phase = PHASE_RULED
             /\ out.winner = winner
             /\ out.deadline = 0
             /\ out.customDeadline = CustomDeadline(winner)
             /\ TurnsLeft(out) = 0
<1> DEFINE out == Ruled(rec, winner, cause)
<1>1. /\ IsRecord(out)
      /\ out.phase = PHASE_RULED
      /\ out.winner = winner
      /\ out.deadline = 0
      /\ out.customDeadline = CustomDeadline(winner)
      /\ out.cause = cause
      /\ out.staged \in Nat
      /\ out.table \in Nat
      /\ out.bytes.w170 = CustomDeadline(winner)
      /\ out.bytes.w174 = 0
      /\ out.bytes.w176 = 0
      /\ out.bytes.w178 = cause
  BY RuledFacts
<1> HIDE DEF out
<1>2. GoodRecord(out)
  BY <1>1 DEF GoodRecord
<1>3. TurnsLeft(out) = 0
  BY <1>1 DEF TurnsLeft
<1> QED
  BY <1>1, <1>2, <1>3 DEF out

\* A challenge is opened for the executor's first turn.
IsOpened ==
  /\ ~ opened
  /\ slot <= DisputeDeadline
  /\ RoundFits
  /\ GoodRecord(record')
  /\ record'.phase \in ExecutorPhases
  /\ record'.winner = NoWinner
  /\ record'.deadline = RoundDeadline
  /\ record'.customDeadline = 0
  /\ TurnsLeft(record') \in Nat
  /\ TurnsLeft(record') <= MostTurns
  /\ document' = [document EXCEPT !.openChallenges = @ + 1]
  /\ opened' = TRUE
  /\ UNCHANGED <<slot, turns, paid>>

\* Or opened and convicted at once.
IsConvicted ==
  /\ ~ opened
  /\ slot <= DisputeDeadline
  /\ record' = Ruled(Fixed(NoRecord, 0), WINNER_CHALLENGER, CAUSE_CONVICT)
  /\ document' = Marked([document EXCEPT !.openChallenges = @ + 1], WINNER_CHALLENGER)
  /\ opened' = TRUE
  /\ UNCHANGED <<slot, turns, paid>>

LEMMA OpenDoes ==
  ASSUME ChallengeInv, NEW ix, Open(ix) PROVE IsOpened \/ IsConvicted
<1>1. /\ ~ opened
      /\ slot <= DisputeDeadline
      /\ opened' = TRUE
      /\ UNCHANGED <<slot, turns, paid>>
      /\ \/ /\ RoundFits
            /\ record' = Opened(ix.tag)
            /\ document' = [document EXCEPT !.openChallenges = @ + 1]
         \/ /\ record' = Ruled(Fixed(NoRecord, 0), WINNER_CHALLENGER, CAUSE_CONVICT)
            /\ document' = Marked([document EXCEPT !.openChallenges = @ + 1], WINNER_CHALLENGER)
  BY DEF Open
<1>2. ix.tag \in {166, 167, 171}
  BY DEF Open, Openings, challengeLeaf, challengePosition, challengeSummary, instruction
<1>3. NoRecordFacts
  BY NoRecordIsRecord
<1>4. CASE ix.tag = 166 /\ RoundFits /\ record' = Opened(ix.tag)
               /\ document' = [document EXCEPT !.openChallenges = @ + 1]
  <2> DEFINE rec == Fixed(NoRecord, 0)
  <2>1. record' = rec
    BY <1>4 DEF Opened
  <2>2. /\ IsRecord(rec)
        /\ rec.phase = PHASE_RESPOND
        /\ rec.winner = NoWinner
        /\ rec.deadline = RoundDeadline
        /\ rec.customDeadline = 0
        /\ rec.entry = 0
        /\ rec.reads = 0
        /\ rec.table \in Nat
        /\ rec.staged \in Nat
        /\ rec.bytes.w170 = 0
        /\ rec.bytes.w176 = 0
        /\ rec.bytes.w178 = 0
    BY <1>3, FixedFacts DEF NoRecordFacts
  <2> HIDE DEF rec
  <2>3. GoodRecord(rec) /\ TurnsLeft(rec) = 1
    BY <2>2 DEF GoodRecord, TurnsLeft
  <2>4. IsOpened
    BY <1>1, <1>4, <2>1, <2>2, <2>3, Sizes DEF IsOpened
  <2> QED
    BY <2>4
<1>5. CASE ix.tag = 167 /\ RoundFits /\ record' = Opened(ix.tag)
               /\ document' = [document EXCEPT !.openChallenges = @ + 1]
  <2> DEFINE entered == Enter(NoRecord, PHASE_POSITION_REVEAL)
             rec == Write176(entered, 0, SegmentCount, 0)
  <2>1. record' = rec
    BY <1>5 DEF Opened
  <2>2. /\ IsRecord(entered)
        /\ entered.phase = PHASE_POSITION_REVEAL
        /\ entered.winner = NoWinner
        /\ entered.deadline = RoundDeadline
        /\ entered.customDeadline = 0
        /\ entered.staged = NoRecord.staged
        /\ entered.reads = 0
        /\ entered.table \in Nat
        /\ entered.staged \in Nat
    BY <1>3, EnterFacts DEF NoRecordFacts
  <2>3. NoRecord.staged = 0
    BY DEF NoRecord
  <2> HIDE DEF entered
  <2>4. /\ IsRecord(rec)
        /\ rec.phase = PHASE_POSITION_REVEAL
        /\ rec.winner = NoWinner
        /\ rec.deadline = RoundDeadline
        /\ rec.customDeadline = 0
        /\ rec.staged = 0
        /\ rec.reads = 0
        /\ rec.table \in Nat
        /\ rec.staged \in Nat
        /\ rec.bytes.w176 = 0
        /\ rec.bytes.w178 = SegmentCount
        /\ rec.bytes.w180 = 0
    BY <2>2, <2>3, WriteFacts
  <2> HIDE DEF rec
  <2>5. GoodRecord(rec) /\ TurnsLeft(rec) = 2 * Depth + 3
    BY <2>4 DEF GoodRecord, TurnsLeft
  <2>6. IsOpened
    BY <1>1, <1>5, <2>1, <2>4, <2>5, Sizes DEF IsOpened
  <2> QED
    BY <2>6
<1>6. CASE ix.tag = 171 /\ RoundFits /\ record' = Opened(ix.tag)
               /\ document' = [document EXCEPT !.openChallenges = @ + 1]
  <2> DEFINE entered == Enter(NoRecord, PHASE_SUMMARY_REVEAL)
             rec == WithLevel(entered, SummaryDepth)
  <2>1. record' = rec
    BY <1>6 DEF Opened, WithLevel
  <2>2. /\ IsRecord(entered)
        /\ entered.phase = PHASE_SUMMARY_REVEAL
        /\ entered.winner = NoWinner
        /\ entered.deadline = RoundDeadline
        /\ entered.customDeadline = 0
        /\ entered.reads = 0
        /\ entered.table \in Nat
        /\ entered.staged \in Nat
    BY <1>3, EnterFacts DEF NoRecordFacts
  <2> HIDE DEF entered
  <2>4. /\ IsRecord(rec)
        /\ rec.phase = PHASE_SUMMARY_REVEAL
        /\ rec.winner = NoWinner
        /\ rec.deadline = RoundDeadline
        /\ rec.customDeadline = 0
        /\ rec.level = SummaryDepth
        /\ rec.reads = 0
        /\ rec.table \in Nat
        /\ rec.staged \in Nat
    BY <2>2, LevelFacts
  <2> HIDE DEF rec
  <2>5. GoodRecord(rec) /\ TurnsLeft(rec) = 2 * SummaryDepth
    BY <2>4, Sizes DEF GoodRecord, TurnsLeft
  <2>6. IsOpened
    BY <1>1, <1>6, <2>1, <2>4, <2>5, Sizes DEF IsOpened
  <2> QED
    BY <2>6
<1>7. CASE /\ record' = Ruled(Fixed(NoRecord, 0), WINNER_CHALLENGER, CAUSE_CONVICT)
           /\ document' = Marked([document EXCEPT !.openChallenges = @ + 1], WINNER_CHALLENGER)
  BY <1>1, <1>7 DEF IsConvicted
<1> QED
  BY <1>1, <1>2, <1>4, <1>5, <1>6, <1>7

\* The record closes and its bond goes to the winner.
IsSettled ==
  /\ record.phase = PHASE_RULED
  /\ record' = NoRecord
  /\ document' = [document EXCEPT !.openChallenges = @ - 1]
  /\ paid' = record.winner
  /\ UNCHANGED <<slot, opened, turns>>

LEMMA SettleDoes ==
  ASSUME NEW ix, Settle(ix) PROVE IsSettled
BY DEF Settle, IsSettled

\* What a step of the challenge can be.
LEMMA StepDoes ==
  ASSUME ChallengeInv, [Next]_vars
  PROVE  \/ Tick
         \/ TurnTaken
         \/ TurnGoesOn
         \/ IsRuled
         \/ IsOpened
         \/ IsConvicted
         \/ IsSettled
         \/ Untouched
<1>1. ASSUME NEW ix \in Instructions, Handle(ix)
      PROVE  \/ TurnTaken \/ TurnGoesOn \/ IsRuled
             \/ IsOpened \/ IsConvicted \/ IsSettled \/ Untouched
  <2>1. CASE Open(ix)
    BY <2>1, OpenDoes
  <2>2. CASE RevealChunk(ix)
    BY <2>2, RevealChunkDoes
  <2>3. CASE Select(ix)
    BY <2>3, SelectDoes
  <2>4. CASE Reveal(ix)
    BY <2>4, RevealDoes
  <2>5. CASE Descend(ix)
    BY <2>5, DescendDoes
  <2>6. CASE RevealSummary(ix)
    BY <2>6, RevealSummaryDoes
  <2>7. CASE SelectSummary(ix)
    BY <2>7, SelectSummaryDoes
  <2>8. CASE AnswerSummary(ix)
    BY <2>8, AnswerSummaryDoes
  <2>9. CASE RevealTable(ix)
    BY <2>9, RevealTableDoes
  <2>10. CASE Timeout(ix)
    BY <2>10, TimeoutDoes
  <2>11. CASE CloseResponse(ix)
    BY <2>11 DEF CloseResponse, Untouched
  <2>12. CASE Settle(ix)
    BY <2>12, SettleDoes
  <2> QED
    BY <1>1, <2>1, <2>2, <2>3, <2>4, <2>5, <2>6, <2>7, <2>8, <2>9, <2>10, <2>11, <2>12
    DEF Handle
<1>2. CASE \E ix \in Instructions : Execute(ix)
  <2>1. PICK ix \in Instructions : Handle(ix)
    BY <1>2 DEF Execute
  <2> QED
    BY <1>1, <2>1
<1>3. CASE StageResponse
  BY <1>3 DEF StageResponse, Untouched
<1>4. CASE VerifyTarget
  BY <1>4, VerifyTargetDoes
<1>5. CASE VerifyReads
  BY <1>5, VerifyReadsDoes
<1>6. CASE ExecuteReplay
  BY <1>6, ExecuteReplayDoes
<1>7. CASE SummaryLeaf
  BY <1>7, SummaryLeafDoes
<1>8. CASE UNCHANGED vars
  BY <1>8 DEF vars, Untouched
<1> QED
  BY <1>2, <1>3, <1>4, <1>5, <1>6, <1>7, <1>8 DEF Next

-----------------------------------------------------------------------------
(* The inductive invariant                                                 *)

LEMMA ChallengeInit == Init => ChallengeInv
<1> SUFFICES ASSUME Init PROVE ChallengeInv
  OBVIOUS
<1>1. /\ record = NoRecord
      /\ turns = 0
      /\ opened = FALSE
      /\ paid = NoWinner
      /\ slot = FirstSlot
      /\ document = [openChallenges |-> 0, challengerWins |-> 0, refuted |-> FALSE]
  BY DEF Init, FinalizedDocument
<1>2. /\ record.phase = Closed /\ IsRecord(record) /\ record.reads = 0
      /\ record.staged \in Nat /\ record.table \in Nat
  BY <1>1, NoRecordIsRecord DEF NoRecordFacts
<1>3. GoodRecord(record) /\ TurnsLeft(record) = 0
  BY <1>1, <1>2 DEF GoodRecord, TurnsLeft
<1>4. slot \in Nat
  BY <1>1, ChallengeAssumption
<1>5. document = [openChallenges |-> document.openChallenges,
                  challengerWins |-> document.challengerWins, refuted |-> document.refuted]
  BY <1>1
<1>6. DisputeIsBounded
  BY <1>1, <1>2, Sizes DEF DisputeIsBounded
<1> QED
  BY <1>1, <1>2, <1>3, <1>4, <1>5, <1>6, Sizes DEF ChallengeInv

IsDocument(doc) ==
  doc = [openChallenges |-> doc.openChallenges, challengerWins |-> doc.challengerWins,
         refuted |-> doc.refuted]

LEMMA CountedDocument ==
  ASSUME NEW doc, IsDocument(doc), NEW count
  PROVE  LET out == [doc EXCEPT !.openChallenges = count]
         IN  /\ IsDocument(out)
             /\ out.openChallenges = count
             /\ out.challengerWins = doc.challengerWins
             /\ out.refuted = doc.refuted
<1> DEFINE out == [doc EXCEPT !.openChallenges = count]
<1>1. out = [doc EXCEPT !.openChallenges = count]
  OBVIOUS
<1> HIDE DEF out
<1>2. out = [openChallenges |-> count, challengerWins |-> doc.challengerWins,
             refuted |-> doc.refuted]
  BY <1>1 DEF IsDocument
<1>3. IsDocument(out)
  BY <1>2 DEF IsDocument
<1> QED
  BY <1>2, <1>3 DEF out

LEMMA MarkedDocument ==
  ASSUME NEW doc, IsDocument(doc), NEW winner
  PROVE  LET out == Marked(doc, winner)
         IN  /\ IsDocument(out)
             /\ out.openChallenges = doc.openChallenges
             /\ out.challengerWins = IF winner = WINNER_CHALLENGER
                                       THEN doc.challengerWins + 1 ELSE doc.challengerWins
             /\ out.refuted = IF winner = WINNER_CHALLENGER THEN TRUE ELSE doc.refuted
<1> DEFINE out == Marked(doc, winner)
<1>1. CASE winner = WINNER_CHALLENGER
  <2>1. out = [doc EXCEPT !.challengerWins = doc.challengerWins + 1, !.refuted = TRUE]
    BY <1>1 DEF Marked
  <2> HIDE DEF out
  <2>2. out = [openChallenges |-> doc.openChallenges,
               challengerWins |-> doc.challengerWins + 1, refuted |-> TRUE]
    BY <2>1 DEF IsDocument
  <2>3. IsDocument(out)
    BY <2>2 DEF IsDocument
  <2> QED
    BY <1>1, <2>2, <2>3 DEF out
<1>2. CASE winner # WINNER_CHALLENGER
  BY <1>2 DEF Marked
<1> QED
  BY <1>1, <1>2

\* One turn more is one response window more.
LEMMA OneWindowMore ==
  ASSUME NEW n \in Nat
  PROVE  /\ n * Terms.responseWindowSlots \in Nat
         /\ (n + 1) * Terms.responseWindowSlots
              = n * Terms.responseWindowSlots + Terms.responseWindowSlots
         /\ Terms.responseWindowSlots \in Nat
BY TermsAssumption DEF RunTermsBlocks

LEMMA ChallengeStep == ChallengeInv /\ [Next]_vars => ChallengeInv'
<1> SUFFICES ASSUME ChallengeInv, [Next]_vars PROVE ChallengeInv'
  OBVIOUS
<1>1. /\ slot \in Nat
      /\ IsDocument(document)
      /\ GoodRecord(record)
      /\ IsRecord(record)
      /\ record.staged \in Nat /\ record.table \in Nat
      /\ record.phase # Closed => opened
      /\ record.phase # Closed \/ ~ opened => paid = NoWinner
      /\ record.phase \notin LivePhases => turns = 0
      /\ turns \in Nat
      /\ turns + TurnsLeft(record) <= MostTurns
      /\ turns <= MostTurns
      /\ record.phase \in LivePhases =>
           /\ record.deadline \in Nat
           /\ record.deadline <= DisputeDeadline + (turns + 1) * Terms.responseWindowSlots
  BY DEF ChallengeInv, IsDocument, GoodRecord, DisputeIsBounded
<1> DEFINE Window == Terms.responseWindowSlots
<1>0. DisputeDeadline \in Nat /\ Window \in Nat
  BY ChallengeAssumption, TermsAssumption DEF RunTermsBlocks
<1>2. CASE Tick
  BY <1>1, <1>2 DEF Tick, ChallengeInv, IsDocument, DisputeIsBounded
<1>3. CASE TurnTaken
  <2>1. /\ GoodRecord(record')
        /\ record'.phase \in LivePhases
        /\ record.phase \in LivePhases
        /\ turns' = turns + 1
        /\ TurnsLeft(record) \in Nat
        /\ TurnsLeft(record') \in Nat
        /\ TurnsLeft(record') < TurnsLeft(record)
        /\ UNCHANGED <<slot, document, opened, paid>>
    BY <1>3 DEF TurnTaken
  <2>2. turns' + TurnsLeft(record') <= MostTurns /\ turns' \in Nat
    BY <1>1, <2>1, Sizes
  <2>3. record'.deadline \in Nat /\ record'.deadline = slot + Window /\ slot <= record.deadline
    BY <1>0, <1>1, <1>3 DEF TurnTaken, RoundDeadline, InTime
  <2>4. record'.deadline <= DisputeDeadline + (turns + 1 + 1) * Window
    <3> DEFINE windows == (turns + 1) * Window
               more == (turns + 1 + 1) * Window
    <3>1. windows \in Nat /\ more = windows + Window /\ Window \in Nat
      BY <1>0, <1>1, OneWindowMore
    <3>2. record.deadline \in Nat /\ record.deadline <= DisputeDeadline + windows
      BY <1>1, <2>1
    <3> HIDE DEF windows, more, Window
    <3>3. slot + Window <= DisputeDeadline + windows + Window
      BY <1>0, <1>1, <2>3, <3>1, <3>2
    <3>4. DisputeDeadline + more = DisputeDeadline + windows + Window
      BY <1>0, <3>1
    <3>5. record'.deadline <= DisputeDeadline + more
      BY <2>3, <3>3, <3>4
    <3> QED
      BY <3>5 DEF more
  <2>5. turns' <= MostTurns
    BY <2>1, <2>2, Sizes
  <2>6. DisputeIsBounded'
    BY <2>1, <2>4, <2>5 DEF DisputeIsBounded
  <2> QED
    BY <1>1, <2>1, <2>2, <2>3, <2>6 DEF ChallengeInv, IsDocument
<1>4. CASE TurnGoesOn
  BY <1>1, <1>4 DEF TurnGoesOn, ChallengeInv, IsDocument, DisputeIsBounded
<1>5. CASE IsRuled
  <2>1. PICK winner \in {WINNER_EXECUTOR, WINNER_CHALLENGER},
             cause \in {CAUSE_VERDICT, CAUSE_CONVICT, CAUSE_TIMEOUT} :
          record.phase \in LivePhases /\ Rule(winner, cause)
    BY <1>5 DEF IsRuled
  <2>2. /\ record' = Ruled(record, winner, cause)
        /\ document' = Marked(document, winner)
        /\ turns' = 0
        /\ UNCHANGED <<slot, opened, paid>>
    BY <2>1 DEF Rule
  <2>3. GoodRecord(record') /\ record'.phase = PHASE_RULED /\ TurnsLeft(record') = 0
    BY <1>1, <2>2, RulingIsGood
  <2>4. IsDocument(document')
    BY <1>1, <2>2, MarkedDocument
  <2>5. DisputeIsBounded'
    BY <2>2, <2>3, Sizes DEF DisputeIsBounded
  <2> QED
    BY <1>1, <2>1, <2>2, <2>3, <2>4, <2>5, Sizes DEF ChallengeInv, IsDocument
<1>6. CASE IsOpened
  <2>1. IsDocument(document')
    BY <1>1, <1>6, CountedDocument DEF IsOpened
  <2>2. record.phase = Closed /\ turns = 0 /\ paid = NoWinner
    BY <1>1, <1>6 DEF IsOpened
  <2>3. /\ GoodRecord(record')
        /\ record'.phase \in LivePhases
        /\ opened' = TRUE
        /\ UNCHANGED <<slot, turns, paid>>
        /\ TurnsLeft(record') \in Nat
        /\ TurnsLeft(record') <= MostTurns
    BY <1>6 DEF IsOpened, LivePhases
  <2>4. turns' + TurnsLeft(record') <= MostTurns /\ turns' = 0
    BY <2>2, <2>3, Sizes
  <2>5. record'.phase # Closed
    BY <2>3 DEF LivePhases, ChallengerPhases, ExecutorPhases, Closed, PHASE_RESPOND,
      PHASE_SEALED, PHASE_REVEAL, PHASE_DESCEND, PHASE_POSITION_REVEAL, PHASE_SELECT,
      PHASE_SUMMARY_REVEAL, PHASE_SUMMARY_DESCEND, PHASE_SUMMARY_ANSWER
  <2>6. record'.deadline \in Nat /\ DisputeIsBounded'
    <3>1. record'.deadline = slot + Window /\ slot <= DisputeDeadline
      BY <1>6 DEF IsOpened, RoundDeadline
    <3>2. Window \in Nat /\ (turns' + 1) * Window = Window
      BY <2>4, OneWindowMore
    <3> HIDE DEF Window
    <3>3. record'.deadline \in Nat /\ record'.deadline <= DisputeDeadline + (turns' + 1) * Window
      BY <1>0, <1>1, <3>1, <3>2
    <3> QED
      BY <2>4, <3>3, Sizes DEF DisputeIsBounded, Window
  <2> QED
    BY <1>1, <2>1, <2>2, <2>3, <2>4, <2>5, <2>6 DEF ChallengeInv, IsDocument
<1>7. CASE IsConvicted
  <2> DEFINE fixed == Fixed(NoRecord, 0)
             counted == [document EXCEPT !.openChallenges = @ + 1]
  <2>1. record.phase = Closed /\ turns = 0 /\ paid = NoWinner
    BY <1>1, <1>7 DEF IsConvicted
  <2>2. IsRecord(fixed) /\ fixed.staged \in Nat /\ fixed.table \in Nat
    BY NoRecordIsRecord, FixedFacts DEF NoRecordFacts
  <2>3. IsDocument(counted)
    BY <1>1, CountedDocument
  <2>4. /\ record' = Ruled(fixed, WINNER_CHALLENGER, CAUSE_CONVICT)
        /\ document' = Marked(counted, WINNER_CHALLENGER)
        /\ opened' = TRUE
        /\ UNCHANGED <<slot, turns, paid>>
    BY <1>7 DEF IsConvicted
  <2> HIDE DEF fixed, counted
  <2>5. GoodRecord(record') /\ record'.phase = PHASE_RULED /\ TurnsLeft(record') = 0
    BY <2>2, <2>4, RulingIsGood
  <2>6. IsDocument(document')
    BY <2>3, <2>4, MarkedDocument
  <2>7. DisputeIsBounded'
    BY <2>1, <2>4, <2>5, Sizes DEF DisputeIsBounded
  <2> QED
    BY <1>1, <2>1, <2>4, <2>5, <2>6, <2>7, Sizes DEF ChallengeInv, IsDocument
<1>8. CASE IsSettled
  <2>1. /\ record.phase = PHASE_RULED
        /\ record' = NoRecord
        /\ UNCHANGED <<slot, opened, turns>>
        /\ document' = [document EXCEPT !.openChallenges = @ - 1]
    BY <1>8 DEF IsSettled
  <2>2. /\ record'.phase = Closed /\ IsRecord(record') /\ record'.reads = 0
        /\ record'.staged \in Nat /\ record'.table \in Nat
    BY <2>1, NoRecordIsRecord DEF NoRecordFacts
  <2>3. GoodRecord(record') /\ TurnsLeft(record') = 0
    BY <2>1, <2>2 DEF GoodRecord, TurnsLeft
  <2>4. IsDocument(document')
    BY <1>1, <2>1, CountedDocument
  <2>5. opened /\ turns = 0
    BY <1>1, <2>1
  <2>6. DisputeIsBounded'
    BY <2>1, <2>2, <2>5, Sizes DEF DisputeIsBounded
  <2> QED
    BY <1>1, <2>1, <2>2, <2>3, <2>4, <2>5, <2>6, Sizes DEF ChallengeInv, IsDocument
<1>9. CASE Untouched
  BY <1>1, <1>9 DEF Untouched, ChallengeInv, IsDocument, DisputeIsBounded
<1> QED
  BY <1>2, <1>3, <1>4, <1>5, <1>6, <1>7, <1>8, <1>9, StepDoes

\* The inductive invariant holds in every reachable state.
THEOREM ChallengeInductive == Spec => []ChallengeInv
BY ChallengeInit, ChallengeStep, PTL DEF Spec

\* However long the parties play, a dispute has an end that can be told in advance.
THEOREM DisputesAreBounded == Spec => []DisputeIsBounded
<1>1. ChallengeInv => DisputeIsBounded
  BY DEF ChallengeInv
<1> QED
  BY <1>1, ChallengeInductive, PTL

\* A record reads back, in each phase, as what was last written to it.
THEOREM RecordsReadTrue == Spec => []RecordReadsTrue
<1>1. ASSUME ChallengeInv PROVE RecordReadsTrue
  <2>1. GoodRecord(record)
    BY <1>1 DEF ChallengeInv
  <2>2. 0 % 256 = 0 /\ 1 % 256 = 1 /\ 2 % 256 = 2 /\ 3 % 256 = 3
    OBVIOUS
  <2>3. CASE record.phase = PHASE_RULED
    BY <2>1, <2>2, <2>3
    DEF GoodRecord, RecordReadsTrue, decodes, decodeChallengeRecord,
        CAUSE_VERDICT, CAUSE_CONVICT, CAUSE_TIMEOUT
  <2>4. CASE record.phase # PHASE_RULED
    BY <2>1, <2>2, <2>4 DEF GoodRecord, RecordReadsTrue, decodes, decodeChallengeRecord
  <2> QED
    BY <2>3, <2>4
<1> QED
  BY <1>1, ChallengeInductive, PTL

-----------------------------------------------------------------------------
(* The refinement                                                          *)

\* What is proved of Lifecycle, of the accounts it sees here.
P == INSTANCE LifecycleProofs WITH
  ChallengeAddresses <- {"challenge"},
  MaxBatch <- 1,
  MaxOpens <- 1,
  MaxRounds <- MostTurns,
  document <- DocumentSeen,
  result <- ResultSeen,
  challenges <- ChallengesSeen,
  opened <- OpenedSeen,
  bank <- BankSeen

\* Its assumptions follow from those made here.
LEMMA LifecycleAssumed ==
  P!LimitsAssumption /\ P!TermsAssumption /\ P!BindingAssumption /\ P!LifecycleAssumption
<1>1. P!LimitsAssumption /\ P!TermsAssumption /\ P!BindingAssumption
  <2>1. P!LimitsAssumption
    BY LimitsAssumption DEF P!LimitsAssumption
  <2>2. P!TermsAssumption
    BY TermsAssumption
    DEF P!TermsAssumption, P!RunTermsBlocks, P!checkRunTerms, P!Digest, P!isZero,
        P!BPS_DENOMINATOR, RunTermsBlocks, checkRunTerms, Digest, isZero, BPS_DENOMINATOR
  <2>3. P!BindingAssumption
    BY BindingAssumption
    DEF P!BindingAssumption, P!RunBindings, P!checkRunBinding, P!Digest, P!isZero,
        P!MAX_OUTPUT_WIDTH, P!MAX_ACCOUNT_BYTES, P!resultV5Bytes, P!RESULT_V5_HEADER,
        RunBindings, checkRunBinding, Digest, isZero,
        MAX_OUTPUT_WIDTH, MAX_ACCOUNT_BYTES, resultV5Bytes, RESULT_V5_HEADER
  <2> QED
    BY <2>1, <2>2, <2>3
<1>2. MostTurns \in Nat
  BY ChallengeAssumption DEF MostTurns
<1>3. IsFiniteSet({"challenge"})
  <2>1. \A x : IsFiniteSet({x})
    BY FS_Singleton
  <2> QED
    BY <2>1
<1>4. P!LifecycleAssumption
  <2>1. P!IsFiniteSet({"challenge"})
    BY <1>3 DEF IsFiniteSet, P!IsFiniteSet
  <2> QED
    BY <1>2, <2>1, ChallengeAssumption DEF P!LifecycleAssumption
<1> QED
  BY <1>1, <1>4

\* The pot and the two shares of it.
LEMMA PotIsShared ==
  LET shares == builtInSettlement(Terms)
  IN  /\ Pot \in Nat
      /\ shares.reward \in 0..Pot
      /\ shares.burn \in 0..Pot
      /\ shares.reward + shares.burn = Pot
<1> DEFINE pot == Terms.executorBondLamports
           bps == Terms.executorRewardBps
           reward == (pot * bps) \div BPS_DENOMINATOR
           shares == builtInSettlement(Terms)
<1>1. pot \in Nat /\ bps \in 0..BPS_DENOMINATOR
  BY TermsAssumption DEF RunTermsBlocks, checkRunTerms
<1>2. shares.reward = reward /\ shares.burn = pot - reward
  BY DEF builtInSettlement
<1>3. reward \in 0..pot
  <2> HIDE DEF pot, bps
  <2>1. pot * bps <= pot * BPS_DENOMINATOR
    BY <1>1 DEF BPS_DENOMINATOR
  <2>2. pot * bps \in Nat
    BY <1>1 DEF BPS_DENOMINATOR
  <2> DEFINE product == pot * bps
  <2> HIDE DEF product
  <2>3. product \in Nat /\ product <= pot * BPS_DENOMINATOR
    BY <2>1, <2>2 DEF product
  <2>4. product \div BPS_DENOMINATOR \in 0..pot
    BY <1>1, <2>3 DEF BPS_DENOMINATOR
  <2> QED
    BY <2>4 DEF product
<1> HIDE DEF reward, shares
<1>4. /\ pot \in Nat
      /\ shares.reward \in 0..pot
      /\ shares.burn \in 0..pot
      /\ shares.reward + shares.burn = pot
  BY <1>1, <1>2, <1>3
<1> QED
  BY <1>4 DEF Pot, shares

\* As long as nothing is paid, both bonds are where they were.
LEMMA BondKept ==
  /\ BondSeen \in {"NONE", "HELD", "PAID"}
  /\ UNCHANGED paid => UNCHANGED <<BondSeen, Divided, SharesSeen>>
BY DEF BondSeen, Divided, SharesSeen

\* What Lifecycle sees of a record in each phase.
LEMMA PhasesSeen ==
  /\ PhaseSeen \in {"absent", "ruled", "executorTurn", "challengerTurn"}
  /\ record.phase = Closed => PhaseSeen = "absent"
  /\ record.phase = PHASE_RULED => PhaseSeen = "ruled"
  /\ record.phase \in ChallengerPhases => PhaseSeen = "challengerTurn"
  /\ record.phase \in ExecutorPhases => PhaseSeen = "executorTurn"
BY DEF PhaseSeen

LEMMA PhasesSeenNext ==
  /\ PhaseSeen' \in {"absent", "ruled", "executorTurn", "challengerTurn"}
  /\ record'.phase = Closed => PhaseSeen' = "absent"
  /\ record'.phase = PHASE_RULED => PhaseSeen' = "ruled"
  /\ record'.phase \in ChallengerPhases => PhaseSeen' = "challengerTurn"
  /\ record'.phase \in ExecutorPhases => PhaseSeen' = "executorTurn"
BY DEF PhaseSeen

LEMMA LeastOfTwo ==
  ASSUME NEW a \in Nat, NEW b \in Nat
  PROVE  Least({a, b}) = IF a <= b THEN a ELSE b
<1>1. CASE a <= b
  BY <1>1 DEF Least
<1>2. CASE ~ (a <= b)
  BY <1>2 DEF Least
<1> QED
  BY <1>1, <1>2

\* The custom window of a ruling is the one Lifecycle opens.
LEMMA DeadlinesAgree ==
  ASSUME slot \in Nat, NEW winner
  PROVE  /\ L!RuledRecord(winner) =
              [phase |-> "ruled", winner |-> winner, deadline |-> 0,
               customSettlementDeadline |-> CustomDeadline(winner), rounds |-> 0]
         /\ L!RoundDeadline = RoundDeadline
         /\ L!RoundFits <=> RoundFits
<1>1. Terms.customSettleWindowSlots \in Nat /\ MaxSlot \in Nat
  BY TermsAssumption, ChallengeAssumption DEF RunTermsBlocks
<1>2. slot + Terms.customSettleWindowSlots \in Nat
  BY <1>1
<1>3. Least({slot + Terms.customSettleWindowSlots, MaxSlot}) = L!CustomDeadline
  BY <1>1, <1>2, LeastOfTwo DEF L!CustomDeadline
<1>4. L!RoundDeadline = RoundDeadline /\ (L!RoundFits <=> RoundFits)
  BY DEF L!RoundDeadline, L!RoundFits, RoundDeadline, RoundFits
<1>5. CustomDeadline(winner) =
        IF winner = WINNER_CHALLENGER /\ ~ isZero(Terms.settlementProgram)
          THEN L!CustomDeadline ELSE 0
  BY <1>3 DEF CustomDeadline
<1>6. isZero(Terms.settlementProgram) <=> L!isZero(Terms.settlementProgram)
  BY DEF isZero, L!isZero
<1>7. L!RuledRecord(winner) =
        [phase |-> "ruled", winner |-> winner, deadline |-> 0, rounds |-> 0,
         customSettlementDeadline |->
           IF winner = WINNER_CHALLENGER /\ ~ L!isZero(Terms.settlementProgram)
             THEN L!CustomDeadline ELSE 0]
  BY DEF L!RuledRecord, L!RULED, L!WINNER_CHALLENGER, WINNER_CHALLENGER
<1> QED
  BY <1>4, <1>5, <1>6, <1>7

\* A turn that goes on, a step of the response account: nothing to Lifecycle.
LEMMA NothingSeen ==
  ASSUME TurnGoesOn \/ Untouched PROVE UNCHANGED L!vars
<1>1. /\ record'.phase = record.phase
      /\ record'.winner = record.winner
      /\ record'.deadline = record.deadline
      /\ record'.customDeadline = record.customDeadline
      /\ UNCHANGED <<slot, document, opened, turns, paid>>
  BY DEF TurnGoesOn, Untouched
<1>2. PhaseSeen' = PhaseSeen
  BY <1>1 DEF PhaseSeen
<1>3. RecordSeen' = RecordSeen
  BY <1>1, <1>2 DEF RecordSeen
<1>4. ChallengesSeen' = ChallengesSeen
  BY <1>3 DEF ChallengesSeen
<1>5. UNCHANGED <<DocumentSeen, ResultSeen, OpenedSeen, BankSeen>>
  BY <1>1, BondKept DEF DocumentSeen, ResultSeen, OpenedSeen, BankSeen, IsOpen, Pot
<1> QED
  BY <1>1, <1>4, <1>5 DEF L!vars

LEMMA TickSeen ==
  ASSUME Tick PROVE L!Tick
<1>1. UNCHANGED <<document, record, opened, turns, paid>>
  BY DEF Tick
<1>2. UNCHANGED <<DocumentSeen, ResultSeen, ChallengesSeen, OpenedSeen, BankSeen>>
  BY <1>1, BondKept
  DEF DocumentSeen, ResultSeen, ChallengesSeen, RecordSeen, PhaseSeen, OpenedSeen, BankSeen,
      IsOpen, Pot
<1> QED
  BY <1>2 DEF Tick, L!Tick

LEMMA TurnSeen ==
  ASSUME ChallengeInv, TurnTaken PROVE L!Respond("challenge")
<1> DEFINE bound == MostTurns
           answered == [phase |-> PhaseSeen', winner |-> record.winner,
                        deadline |-> RoundDeadline,
                        customSettlementDeadline |-> record.customDeadline,
                        rounds |-> turns + 1]
<1>1. /\ slot \in Nat
      /\ turns \in Nat
      /\ turns + TurnsLeft(record) <= bound
      /\ record.phase \in LivePhases
      /\ slot <= record.deadline
      /\ RoundFits
      /\ record'.phase \in LivePhases
      /\ record'.winner = record.winner
      /\ record'.customDeadline = record.customDeadline
      /\ record'.deadline = RoundDeadline
      /\ turns' = turns + 1
      /\ TurnsLeft(record) \in Nat
      /\ TurnsLeft(record') \in Nat
      /\ TurnsLeft(record') < TurnsLeft(record)
      /\ UNCHANGED <<slot, document, opened, paid>>
  BY DEF ChallengeInv, TurnTaken, InTime
<1>2. turns < bound
  BY <1>1, Sizes
<1>3. /\ PhaseSeen \in {"executorTurn", "challengerTurn"}
      /\ PhaseSeen' \in {"executorTurn", "challengerTurn"}
  BY <1>1, PhasesSeen, PhasesSeenNext DEF LivePhases
<1>4. IsOpen /\ IsOpen'
  BY <1>1 DEF IsOpen, LivePhases, Closed
<1>5. UNCHANGED <<DocumentSeen, ResultSeen, OpenedSeen, BankSeen>>
  BY <1>1, <1>4, BondKept DEF DocumentSeen, ResultSeen, OpenedSeen, BankSeen, Pot
<1>6. /\ RecordSeen.phase = PhaseSeen
      /\ RecordSeen.deadline = record.deadline
      /\ RecordSeen.rounds = turns
  BY DEF RecordSeen
<1>7. RecordSeen' = answered
  BY <1>1 DEF RecordSeen
<1>8. L!AnsweredRecord(RecordSeen, PhaseSeen') = answered
  <2> DEFINE seen == RecordSeen
             out == L!AnsweredRecord(seen, PhaseSeen')
  <2>1. seen = [phase |-> PhaseSeen, winner |-> record.winner, deadline |-> record.deadline,
                customSettlementDeadline |-> record.customDeadline, rounds |-> turns]
    BY DEF RecordSeen
  <2>2. out = [seen EXCEPT !.phase = PhaseSeen', !.deadline = RoundDeadline,
                           !.rounds = seen.rounds + 1]
    BY <1>1, DeadlinesAgree DEF L!AnsweredRecord
  <2> HIDE DEF seen, out
  <2>3. out = answered
    BY <2>1, <2>2
  <2> QED
    BY <2>3 DEF seen, out
<1>9. ChallengesSeen["challenge"] = RecordSeen
  BY DEF ChallengesSeen
<1>10. ChallengesSeen' = [ChallengesSeen EXCEPT !["challenge"] =
                            L!AnsweredRecord(@, PhaseSeen')]
  BY <1>7, <1>8 DEF ChallengesSeen
<1> HIDE DEF bound, answered
<1> QED
  BY <1>1, <1>2, <1>3, <1>5, <1>6, <1>9, <1>10, DeadlinesAgree
  DEF L!Respond, L!EXECUTOR_TURN, L!CHALLENGER_TURN, bound

\* The document as Lifecycle sees it, from the four things a challenge changes.
DocumentAs(open, wins, refuted, bond) ==
  [account |-> "live",
   flags |-> IF refuted THEN {"FLAG_FINAL", "FLAG_REFUTED"} ELSE {"FLAG_FINAL"},
   positionsComplete |-> PositionCount, documentRoot |-> PositionCount,
   openChallenges |-> open, challengerWins |-> wins,
   finalizeSlot |-> FirstSlot, disputeDeadline |-> DisputeDeadline,
   executorBondState |-> bond]

LEMMA DocumentIsSeen ==
  /\ DocumentSeen =
       DocumentAs(document.openChallenges, document.challengerWins, document.refuted, BondSeen)
  /\ DocumentSeen' =
       DocumentAs(document'.openChallenges, document'.challengerWins, document'.refuted,
                  BondSeen')
BY DEF DocumentSeen, DocumentAs

LEMMA CountSeen ==
  ASSUME NEW open, NEW wins, NEW refuted, NEW bond
  PROVE  L!CountOpen(DocumentAs(open, wins, refuted, bond))
           = DocumentAs(open + 1, wins, refuted, bond)
<1> DEFINE doc == DocumentAs(open, wins, refuted, bond)
           flags == IF refuted THEN {"FLAG_FINAL", "FLAG_REFUTED"} ELSE {"FLAG_FINAL"}
<1>1. doc = [account |-> "live", flags |-> flags,
             positionsComplete |-> PositionCount, documentRoot |-> PositionCount,
             openChallenges |-> open, challengerWins |-> wins,
             finalizeSlot |-> FirstSlot, disputeDeadline |-> DisputeDeadline,
             executorBondState |-> bond]
  BY DEF DocumentAs
<1>2. L!CountOpen(doc) = [doc EXCEPT !.openChallenges = doc.openChallenges + 1]
  BY DEF L!CountOpen
<1>3. DocumentAs(open + 1, wins, refuted, bond) =
            [account |-> "live", flags |-> flags,
             positionsComplete |-> PositionCount, documentRoot |-> PositionCount,
             openChallenges |-> open + 1, challengerWins |-> wins,
             finalizeSlot |-> FirstSlot, disputeDeadline |-> DisputeDeadline,
             executorBondState |-> bond]
  BY DEF DocumentAs
<1> HIDE DEF doc, flags
<1>4. L!CountOpen(doc) = DocumentAs(open + 1, wins, refuted, bond)
  BY <1>1, <1>2, <1>3
<1> QED
  BY <1>4 DEF doc

\* A ruling on the document, as a challenge makes it and as Lifecycle sees it.
LEMMA RulingOfDocument ==
  ASSUME NEW doc, IsDocument(doc), NEW winner, NEW bond
  PROVE  LET marked == Marked(doc, winner)
         IN  DocumentAs(marked.openChallenges, marked.challengerWins, marked.refuted, bond) =
               L!MarkRuling(DocumentAs(doc.openChallenges, doc.challengerWins, doc.refuted, bond),
                            winner)
<1> DEFINE marked == Marked(doc, winner)
           seen == DocumentAs(doc.openChallenges, doc.challengerWins, doc.refuted, bond)
           after == DocumentAs(marked.openChallenges, marked.challengerWins, marked.refuted, bond)
           ruled == L!MarkRuling(seen, winner)
           open == doc.openChallenges
           wins == doc.challengerWins
           flags == IF doc.refuted THEN {"FLAG_FINAL", "FLAG_REFUTED"} ELSE {"FLAG_FINAL"}
           both == {"FLAG_FINAL", "FLAG_REFUTED"}
<1>1. /\ marked.openChallenges = open
      /\ marked.challengerWins = IF winner = WINNER_CHALLENGER THEN wins + 1 ELSE wins
      /\ marked.refuted = IF winner = WINNER_CHALLENGER THEN TRUE ELSE doc.refuted
  BY MarkedDocument
<1>2. seen = [account |-> "live", flags |-> flags,
              positionsComplete |-> PositionCount, documentRoot |-> PositionCount,
              openChallenges |-> open, challengerWins |-> wins,
              finalizeSlot |-> FirstSlot, disputeDeadline |-> DisputeDeadline,
              executorBondState |-> bond]
  BY DEF DocumentAs
<1>3. ruled = IF winner = WINNER_CHALLENGER
                THEN [seen EXCEPT !.flags = seen.flags \cup {"FLAG_REFUTED"},
                                  !.challengerWins = seen.challengerWins + 1]
                ELSE seen
  BY DEF L!MarkRuling, L!WINNER_CHALLENGER, L!FLAG_REFUTED, WINNER_CHALLENGER
<1>4. flags \cup {"FLAG_REFUTED"} = both
  OBVIOUS
<1> HIDE DEF marked
<1>5. CASE winner = WINNER_CHALLENGER
  <2>1. after = [account |-> "live", flags |-> both,
                 positionsComplete |-> PositionCount, documentRoot |-> PositionCount,
                 openChallenges |-> open, challengerWins |-> wins + 1,
                 finalizeSlot |-> FirstSlot, disputeDeadline |-> DisputeDeadline,
                 executorBondState |-> bond]
    BY <1>1, <1>5 DEF DocumentAs
  <2> HIDE DEF seen, after, ruled, flags, both, open, wins
  <2>2. after = ruled
    BY <1>2, <1>3, <1>4, <1>5, <2>1
  <2> QED
    BY <2>2 DEF marked, seen, after, ruled, open, wins
<1>6. CASE winner # WINNER_CHALLENGER
  <2>1. after = seen
    BY <1>1, <1>6
  <2> HIDE DEF seen, after, ruled
  <2>2. after = ruled
    BY <1>3, <1>6, <2>1
  <2> QED
    BY <2>2 DEF marked, seen, after, ruled
<1> QED
  BY <1>5, <1>6

\* The record of a ruling, likewise.
LEMMA RulingOfRecord ==
  ASSUME slot \in Nat, NEW rec, IsRecord(rec),
         NEW winner \in {WINNER_EXECUTOR, WINNER_CHALLENGER},
         NEW cause \in {CAUSE_VERDICT, CAUSE_CONVICT, CAUSE_TIMEOUT},
         record' = Ruled(rec, winner, cause), turns' = 0
  PROVE  L!Rule("challenge", winner)
<1>1. /\ record'.phase = PHASE_RULED
      /\ record'.winner = winner
      /\ record'.deadline = 0
      /\ record'.customDeadline = CustomDeadline(winner)
  BY RuledFacts
<1>2. RecordSeen' = [phase |-> "ruled", winner |-> winner, deadline |-> 0,
                     customSettlementDeadline |-> CustomDeadline(winner), rounds |-> 0]
  BY <1>1, PhasesSeenNext DEF RecordSeen
<1>3. RecordSeen' = L!RuledRecord(winner)
  BY <1>2, DeadlinesAgree
<1> QED
  BY <1>3 DEF L!Rule, ChallengesSeen

LEMMA RulingSeen ==
  ASSUME ChallengeInv, IsRuled
  PROVE  \/ \E winner \in {L!WINNER_EXECUTOR, L!WINNER_CHALLENGER} :
                L!Verdict("challenge", winner)
         \/ L!Timeout("challenge")
<1>1. PICK winner \in {WINNER_EXECUTOR, WINNER_CHALLENGER},
           cause \in {CAUSE_VERDICT, CAUSE_CONVICT, CAUSE_TIMEOUT} :
        /\ record.phase \in LivePhases
        /\ Rule(winner, cause)
        /\ \/ InTime /\ (record.phase \in ChallengerPhases => winner = WINNER_CHALLENGER)
           \/ /\ slot > record.deadline
              /\ winner = IF record.phase \in ChallengerPhases
                            THEN WINNER_EXECUTOR ELSE WINNER_CHALLENGER
  BY DEF IsRuled
<1>2. /\ slot \in Nat
      /\ IsRecord(record)
      /\ IsDocument(document)
      /\ record' = Ruled(record, winner, cause)
      /\ document' = Marked(document, winner)
      /\ turns' = 0
      /\ UNCHANGED <<slot, opened, paid>>
  BY <1>1 DEF ChallengeInv, GoodRecord, IsDocument, Rule
<1>3. L!Rule("challenge", winner)
  BY <1>2, RulingOfRecord
<1>4. DocumentSeen' = L!MarkRuling(DocumentSeen, winner)
  BY <1>2, RulingOfDocument, DocumentIsSeen, BondKept
<1>5. IsOpen /\ IsOpen'
  BY <1>1, <1>2, RuledFacts DEF IsOpen, LivePhases, Closed
<1>6. UNCHANGED <<ResultSeen, OpenedSeen, BankSeen>>
  BY <1>2, <1>5, BondKept DEF ResultSeen, OpenedSeen, BankSeen, Pot
<1>7. /\ ChallengesSeen["challenge"].phase = PhaseSeen
      /\ ChallengesSeen["challenge"].deadline = record.deadline
  BY DEF ChallengesSeen, RecordSeen
<1>8. /\ PhaseSeen \in {"executorTurn", "challengerTurn"}
      /\ PhaseSeen = "challengerTurn" <=> record.phase \in ChallengerPhases
  BY <1>1, PhasesSeen DEF LivePhases
<1>9. CASE InTime /\ (record.phase \in ChallengerPhases => winner = WINNER_CHALLENGER)
  <2>1. L!Verdict("challenge", winner)
    BY <1>2, <1>3, <1>4, <1>6, <1>7, <1>8, <1>9
    DEF L!Verdict, L!EXECUTOR_TURN, L!CHALLENGER_TURN, L!WINNER_CHALLENGER,
        InTime, WINNER_CHALLENGER
  <2> QED
    BY <2>1 DEF L!WINNER_EXECUTOR, L!WINNER_CHALLENGER, WINNER_EXECUTOR, WINNER_CHALLENGER
<1>10. CASE /\ slot > record.deadline
            /\ winner = IF record.phase \in ChallengerPhases
                          THEN WINNER_EXECUTOR ELSE WINNER_CHALLENGER
  <2>1. winner = IF PhaseSeen = "executorTurn"
                   THEN L!WINNER_CHALLENGER ELSE L!WINNER_EXECUTOR
    BY <1>8, <1>10
    DEF L!WINNER_EXECUTOR, L!WINNER_CHALLENGER, WINNER_EXECUTOR, WINNER_CHALLENGER
  <2> QED
    BY <1>2, <1>3, <1>4, <1>6, <1>7, <1>8, <1>10, <2>1
    DEF L!Timeout, L!EXECUTOR_TURN, L!CHALLENGER_TURN
<1> QED
  BY <1>1, <1>9, <1>10

LEMMA BondIsLamports == Bond \in Nat
BY TermsAssumption DEF Bond, RunTermsBlocks

\* What every opening does but write the record and the document.
LEMMA OpeningSeen ==
  ASSUME ChallengeInv, ~ opened, slot <= DisputeDeadline,
         opened' = TRUE, record'.phase # Closed, UNCHANGED <<slot, turns, paid>>
  PROVE  /\ L!MayOpen("challenge")
         /\ L!PostChallengerBond
         /\ OpenedSeen' = OpenedSeen + 1
         /\ turns' = 0
         /\ UNCHANGED ResultSeen
<1>1. record.phase = Closed /\ paid = NoWinner /\ turns = 0
  BY DEF ChallengeInv, LivePhases, ChallengerPhases, ExecutorPhases, Closed
<1>2. paid' = NoWinner /\ turns' = 0
  BY <1>1
<1>3. OpenedSeen = 0 /\ OpenedSeen' = 1
  BY DEF OpenedSeen
<1>4. L!MayOpen("challenge")
  <2>1. /\ DocumentSeen.account = "live"
        /\ "FLAG_FINAL" \in DocumentSeen.flags
        /\ DocumentSeen.disputeDeadline = DisputeDeadline
    BY DEF DocumentSeen
  <2>2. ChallengesSeen["challenge"].phase = "absent"
    BY <1>1, PhasesSeen DEF ChallengesSeen, RecordSeen
  <2> QED
    BY <1>3, <2>1, <2>2 DEF L!MayOpen, L!Finalized, L!FLAG_FINAL, L!ABSENT
<1>5. L!PostChallengerBond
  <2> DEFINE before == BankSeen
             after == BankSeen'
             owed == 0 - Bond
             short == 0 - Pot
  <2>0. ~ Divided /\ ~ Divided' /\ 0 + 0 = 0 /\ (0 - Bond) + 0 = owed
    BY <1>1, <1>2, BondIsLamports DEF Divided, NoWinner, WINNER_CHALLENGER
  <2>1. before = [document |-> Pot, records |-> 0, executor |-> short, challengers |-> 0,
                  burned |-> 0]
    BY <1>1, <2>0 DEF BankSeen, SharesSeen, IsOpen, NoWinner, WINNER_EXECUTOR
  <2>2. after = [document |-> Pot, records |-> Bond, executor |-> short, challengers |-> owed,
                 burned |-> 0]
    BY <1>2, <2>0 DEF BankSeen, SharesSeen, IsOpen, NoWinner, WINNER_EXECUTOR, Pot, Bond
  <2> HIDE DEF before, after, short
  <2>3. before.records + Bond = Bond /\ before.challengers - Bond = owed
    BY <2>1, BondIsLamports
  <2> HIDE DEF owed
  <2>4. after = [before EXCEPT !.records = Bond, !.challengers = owed]
    <3> DEFINE out == [before EXCEPT !.records = Bond, !.challengers = owed]
    <3>1. out = [before EXCEPT !.records = Bond, !.challengers = owed]
      OBVIOUS
    <3> HIDE DEF out
    <3>2. out = [document |-> Pot, records |-> Bond, executor |-> short,
                 challengers |-> owed, burned |-> 0]
      BY <2>1, <3>1
    <3> QED
      BY <2>2, <3>2 DEF out
  <2>5. after = [before EXCEPT !.records = before.records + Bond,
                               !.challengers = before.challengers - Bond]
    BY <2>3, <2>4
  <2> QED
    BY <2>5 DEF L!PostChallengerBond, Bond, before, after
<1> QED
  BY <1>2, <1>3, <1>4, <1>5 DEF ResultSeen

LEMMA CountedSeen ==
  ASSUME ChallengeInv, NEW counted, counted = [document EXCEPT !.openChallenges = @ + 1]
  PROVE  /\ IsDocument(counted)
         /\ DocumentAs(counted.openChallenges, counted.challengerWins, counted.refuted,
                      BondSeen)
              = L!CountOpen(DocumentSeen)
<1>1. IsDocument(document)
  BY DEF ChallengeInv, IsDocument
<1>2. /\ IsDocument(counted)
      /\ counted.openChallenges = document.openChallenges + 1
      /\ counted.challengerWins = document.challengerWins
      /\ counted.refuted = document.refuted
  BY <1>1, CountedDocument
<1>3. L!CountOpen(DocumentAs(document.openChallenges, document.challengerWins,
                             document.refuted, BondSeen))
        = DocumentAs(document.openChallenges + 1, document.challengerWins, document.refuted,
                     BondSeen)
  <2> DEFINE open == document.openChallenges
             wins == document.challengerWins
             refuted == document.refuted
             bond == BondSeen
  <2> HIDE DEF open, wins, refuted, bond
  <2>1. L!CountOpen(DocumentAs(open, wins, refuted, bond))
          = DocumentAs(open + 1, wins, refuted, bond)
    BY CountSeen
  <2> QED
    BY <2>1 DEF open, wins, refuted, bond
<1> QED
  BY <1>2, <1>3, DocumentIsSeen

LEMMA OpenSeen ==
  ASSUME ChallengeInv, IsOpened PROVE L!OpenChallenge("challenge")
<1>1. /\ ~ opened
      /\ slot <= DisputeDeadline
      /\ RoundFits
      /\ record'.phase \in ExecutorPhases
      /\ record'.winner = NoWinner
      /\ record'.deadline = RoundDeadline
      /\ record'.customDeadline = 0
      /\ document' = [document EXCEPT !.openChallenges = @ + 1]
      /\ opened' = TRUE
      /\ UNCHANGED <<slot, turns, paid>>
  BY DEF IsOpened
<1>2. slot \in Nat /\ record'.phase # Closed
  BY <1>1 DEF ChallengeInv, ExecutorPhases, Closed
<1>3. /\ L!MayOpen("challenge")
      /\ L!PostChallengerBond
      /\ OpenedSeen' = OpenedSeen + 1
      /\ turns' = 0
      /\ UNCHANGED ResultSeen
  BY <1>1, <1>2, OpeningSeen
<1>4. DocumentSeen' = L!CountOpen(DocumentSeen)
  BY <1>1, CountedSeen, DocumentIsSeen, BondKept
<1>5. RecordSeen' = [phase |-> "executorTurn", winner |-> NoWinner, deadline |-> RoundDeadline,
                     customSettlementDeadline |-> 0, rounds |-> 0]
  BY <1>1, <1>3, PhasesSeenNext DEF RecordSeen
<1>6. L!OpenedRecord = [phase |-> "executorTurn", winner |-> NoWinner,
                        deadline |-> RoundDeadline, customSettlementDeadline |-> 0,
                        rounds |-> 0]
  <2> DEFINE empty == L!NoRecord
             out == L!OpenedRecord
  <2>1. empty = [phase |-> "absent", winner |-> NoWinner, deadline |-> 0,
                 customSettlementDeadline |-> 0, rounds |-> 0]
    BY DEF L!NoRecord, L!ABSENT, L!NoWinner, NoWinner
  <2>2. out = [empty EXCEPT !.phase = "executorTurn", !.deadline = RoundDeadline]
    BY <1>2, DeadlinesAgree DEF L!OpenedRecord, L!EXECUTOR_TURN
  <2> HIDE DEF empty, out
  <2>3. out = [phase |-> "executorTurn", winner |-> NoWinner, deadline |-> RoundDeadline,
               customSettlementDeadline |-> 0, rounds |-> 0]
    BY <2>1, <2>2
  <2> QED
    BY <2>3 DEF out
<1>7. ChallengesSeen' = [ChallengesSeen EXCEPT !["challenge"] = L!OpenedRecord]
  BY <1>5, <1>6 DEF ChallengesSeen
<1> QED
  BY <1>1, <1>2, <1>3, <1>4, <1>7, DeadlinesAgree DEF L!OpenChallenge

LEMMA ConvictionSeen ==
  ASSUME ChallengeInv, IsConvicted PROVE L!OpenAndConvict("challenge")
<1> DEFINE fixed == Fixed(NoRecord, 0)
           counted == [document EXCEPT !.openChallenges = @ + 1]
<1>1. /\ ~ opened
      /\ slot <= DisputeDeadline
      /\ record' = Ruled(fixed, WINNER_CHALLENGER, CAUSE_CONVICT)
      /\ document' = Marked(counted, WINNER_CHALLENGER)
      /\ opened' = TRUE
      /\ UNCHANGED <<slot, turns, paid>>
  BY DEF IsConvicted
<1>2. slot \in Nat /\ IsRecord(fixed)
  BY NoRecordIsRecord, FixedFacts DEF NoRecordFacts, ChallengeInv
<1>3. /\ IsDocument(counted)
      /\ DocumentAs(counted.openChallenges, counted.challengerWins, counted.refuted,
                      BondSeen)
           = L!CountOpen(DocumentSeen)
  BY CountedSeen
<1> HIDE DEF fixed, counted
<1>4. record'.phase # Closed
  BY <1>1, <1>2, RuledFacts DEF Closed
<1>5. /\ L!MayOpen("challenge")
      /\ L!PostChallengerBond
      /\ OpenedSeen' = OpenedSeen + 1
      /\ turns' = 0
      /\ UNCHANGED ResultSeen
  BY <1>1, <1>4, OpeningSeen
<1>6. L!Rule("challenge", WINNER_CHALLENGER)
  BY <1>1, <1>2, <1>5, RulingOfRecord
<1>7. DocumentSeen' = L!MarkRuling(L!CountOpen(DocumentSeen), WINNER_CHALLENGER)
  BY <1>1, <1>3, RulingOfDocument, DocumentIsSeen, BondKept
<1> QED
  BY <1>1, <1>5, <1>6, <1>7 DEF L!OpenAndConvict, L!WINNER_CHALLENGER, WINNER_CHALLENGER

\* The lamports before and after a settlement, and with the challenger bond returned.
LEMMA SettledBank ==
  ASSUME ChallengeInv, IsSettled
  PROVE  LET winner == record.winner
             shares == IF winner = WINNER_CHALLENGER
                         THEN builtInSettlement(Terms) ELSE [reward |-> 0, burn |-> 0]
         IN  /\ BankSeen =
                   [document |-> Pot, records |-> Bond, executor |-> 0 - Pot,
                    challengers |-> 0 - Bond, burned |-> 0]
             /\ BankSeen' =
                   [document |-> IF winner = WINNER_CHALLENGER THEN 0 ELSE Pot, records |-> 0,
                    executor |-> (IF winner = WINNER_EXECUTOR THEN Bond ELSE 0) - Pot,
                    challengers |-> (IF winner = WINNER_CHALLENGER THEN 0 ELSE 0 - Bond)
                                      + shares.reward,
                    burned |-> shares.burn]
             /\ L!ReturnedBond(winner) =
                   [document |-> Pot, records |-> 0,
                    executor |-> (IF winner = WINNER_EXECUTOR THEN Bond ELSE 0) - Pot,
                    challengers |-> IF winner = WINNER_CHALLENGER THEN 0 ELSE 0 - Bond,
                    burned |-> 0]
<1> DEFINE winner == record.winner
           before == BankSeen
           after == BankSeen'
           returned == L!ReturnedBond(winner)
           owed == 0 - Bond
           short == 0 - Pot
<1>1. /\ record.phase = PHASE_RULED
      /\ record' = NoRecord
      /\ paid' = winner
      /\ UNCHANGED opened
  BY DEF IsSettled
<1>2. winner \in {WINNER_EXECUTOR, WINNER_CHALLENGER} /\ opened /\ paid = NoWinner
  BY <1>1 DEF ChallengeInv, GoodRecord, LivePhases, ChallengerPhases, ExecutorPhases, Closed
<1>3. /\ IsOpen /\ ~ IsOpen'
      /\ ~ Divided
      /\ Divided' = (winner = WINNER_CHALLENGER)
      /\ Bond \in Nat /\ Pot \in Nat
  BY <1>1, <1>2, BondIsLamports, PotIsShared
  DEF IsOpen, Divided, NoRecord, Closed, NoWinner, WINNER_CHALLENGER
<1> HIDE DEF winner
<1>4. before = [document |-> Pot, records |-> Bond, executor |-> short, challengers |-> owed,
                burned |-> 0]
  <2>1. 0 - Bond + 0 = 0 - Bond
    BY <1>3
  <2> QED
    BY <1>2, <1>3, <2>1 DEF BankSeen, SharesSeen, NoWinner, WINNER_EXECUTOR
<1>5. after = [document |-> IF winner = WINNER_CHALLENGER THEN 0 ELSE Pot, records |-> 0,
               executor |-> (IF winner = WINNER_EXECUTOR THEN Bond ELSE 0) - Pot,
               challengers |-> (IF winner = WINNER_CHALLENGER THEN 0 ELSE owed)
                                 + SharesSeen'.reward,
               burned |-> SharesSeen'.burn]
  BY <1>1, <1>2, <1>3 DEF BankSeen, Pot, Bond
<1>6. SharesSeen' = IF winner = WINNER_CHALLENGER
                      THEN builtInSettlement(Terms) ELSE [reward |-> 0, burn |-> 0]
  BY <1>3 DEF SharesSeen
<1>7. returned = [before EXCEPT !.records = before.records - Bond,
                                !.executor = IF winner = WINNER_EXECUTOR
                                               THEN before.executor + Bond
                                               ELSE before.executor,
                                !.challengers = IF winner = WINNER_CHALLENGER
                                                  THEN before.challengers + Bond
                                                  ELSE before.challengers]
  BY DEF L!ReturnedBond, L!WINNER_EXECUTOR, L!WINNER_CHALLENGER, WINNER_EXECUTOR,
    WINNER_CHALLENGER, Bond
<1>8. /\ Bond - Bond = 0
      /\ short + Bond = Bond - Pot
      /\ short = 0 - Pot
      /\ owed + Bond = 0
  BY <1>3
<1> HIDE DEF before, after, returned, owed, short
<1>9. returned = [document |-> Pot, records |-> 0,
                  executor |-> IF winner = WINNER_EXECUTOR THEN short + Bond ELSE short,
                  challengers |-> IF winner = WINNER_CHALLENGER THEN owed + Bond ELSE owed,
                  burned |-> 0]
  BY <1>4, <1>7, <1>8
<1>10. returned = [document |-> Pot, records |-> 0,
                   executor |-> (IF winner = WINNER_EXECUTOR THEN Bond ELSE 0) - Pot,
                   challengers |-> IF winner = WINNER_CHALLENGER THEN 0 ELSE owed,
                   burned |-> 0]
  BY <1>8, <1>9
<1> QED
  BY <1>4, <1>5, <1>6, <1>10 DEF winner, before, after, returned, owed, short

\* A settlement closes the record and returns the challenger bond.
LEMMA ClosingSeen ==
  ASSUME ChallengeInv, IsSettled
  PROVE  /\ L!CloseRecord("challenge")
         /\ DocumentSeen' = [DocumentSeen EXCEPT !.openChallenges = @ - 1,
                                                 !.executorBondState = BondSeen']
         /\ ChallengesSeen["challenge"].winner = record.winner
<1> DEFINE winner == record.winner
<1>1. /\ record.phase = PHASE_RULED
      /\ record' = NoRecord
      /\ document' = [document EXCEPT !.openChallenges = @ - 1]
      /\ UNCHANGED <<slot, opened, turns>>
  BY DEF IsSettled
<1>2. turns = 0 /\ IsDocument(document)
  BY <1>1 DEF ChallengeInv, IsDocument, LivePhases, ChallengerPhases, ExecutorPhases
<1>3. L!CloseRecord("challenge")
  <2>1. /\ record'.phase = Closed
        /\ record'.winner = NoWinner
        /\ record'.deadline = 0
        /\ record'.customDeadline = 0
    BY <1>1 DEF NoRecord
  <2>2. RecordSeen' = L!NoRecord
    BY <1>1, <1>2, <2>1, PhasesSeenNext DEF RecordSeen, L!NoRecord, L!ABSENT, L!NoWinner, NoWinner
  <2>3. ChallengesSeen' = [ChallengesSeen EXCEPT !["challenge"] = L!NoRecord]
    BY <2>2 DEF ChallengesSeen
  <2>4. ChallengesSeen["challenge"].phase = "ruled"
    BY <1>1, PhasesSeen DEF ChallengesSeen, RecordSeen
  <2>5. OpenedSeen' = OpenedSeen /\ ResultSeen' = ResultSeen
    BY <1>1 DEF OpenedSeen, ResultSeen
  <2> QED
    BY <1>1, <2>3, <2>4, <2>5 DEF L!CloseRecord, L!RULED
<1>4. DocumentSeen' = [DocumentSeen EXCEPT !.openChallenges = @ - 1,
                                           !.executorBondState = BondSeen']
  <2> DEFINE open == document.openChallenges
             wins == document.challengerWins
             refuted == document.refuted
             held == BondSeen
             left == BondSeen'
             before == DocumentAs(open, wins, refuted, held)
             after == DocumentAs(open - 1, wins, refuted, left)
             flags == IF refuted THEN {"FLAG_FINAL", "FLAG_REFUTED"} ELSE {"FLAG_FINAL"}
  <2>1. /\ document'.openChallenges = open - 1
        /\ document'.challengerWins = wins
        /\ document'.refuted = refuted
    BY <1>1, <1>2, CountedDocument
  <2>2. DocumentSeen = before /\ DocumentSeen' = after
    BY <2>1, DocumentIsSeen
  <2>3. before = [account |-> "live", flags |-> flags,
                  positionsComplete |-> PositionCount, documentRoot |-> PositionCount,
                  openChallenges |-> open, challengerWins |-> wins,
                  finalizeSlot |-> FirstSlot, disputeDeadline |-> DisputeDeadline,
                  executorBondState |-> held]
    BY DEF DocumentAs
  <2>4. after = [account |-> "live", flags |-> flags,
                 positionsComplete |-> PositionCount, documentRoot |-> PositionCount,
                 openChallenges |-> open - 1, challengerWins |-> wins,
                 finalizeSlot |-> FirstSlot, disputeDeadline |-> DisputeDeadline,
                 executorBondState |-> left]
    BY DEF DocumentAs
  <2> DEFINE out == [before EXCEPT !.openChallenges = @ - 1, !.executorBondState = left]
  <2>5. out = [before EXCEPT !.openChallenges = @ - 1, !.executorBondState = left]
    OBVIOUS
  <2> HIDE DEF before, after, flags, wins, refuted, open, held, left, out
  <2>6. after = out
    BY <2>3, <2>4, <2>5
  <2> QED
    BY <2>2, <2>6 DEF out, left
<1>5. ChallengesSeen["challenge"].winner = winner
  BY DEF ChallengesSeen, RecordSeen
<1> QED
  BY <1>3, <1>4, <1>5

\* The built-in rule divides the pot in a way Lifecycle knows.
LEMMA BuiltInIsRoute ==
  LET shares == builtInSettlement(Terms)
  IN  [winner |-> shares.reward, loser |-> 0, burned |-> shares.burn] \in L!Route("challenge")
<1> DEFINE shares == builtInSettlement(Terms)
           split == [winner |-> shares.reward, loser |-> 0, burned |-> shares.burn]
           pot == Terms.executorBondLamports
<1>1. L!builtInSettlement(Terms) = shares
  BY DEF builtInSettlement, L!builtInSettlement, BPS_DENOMINATOR, L!BPS_DENOMINATOR
<1>2. split \in L!BuiltInRoute
  BY <1>1 DEF L!BuiltInRoute
<1>3. split \in L!CustomRoute
  <2>1. /\ pot \in Nat
        /\ shares.reward \in 0..pot
        /\ shares.burn \in 0..pot
        /\ shares.reward + shares.burn = pot
    BY PotIsShared DEF Pot
  <2> HIDE DEF shares, pot
  <2>2. split \in [winner : 0..pot, loser : 0..pot, burned : 0..pot]
    BY <2>1
  <2>3. split.winner + split.loser + split.burned = pot
    BY <2>1
  <2> HIDE DEF split
  <2> QED
    BY <2>2, <2>3 DEF L!CustomRoute, pot
<1> HIDE DEF split
<1>4. split \in L!Route("challenge")
  BY <1>2, <1>3 DEF L!Route
<1> QED
  BY <1>4 DEF split

\* The settlement of a challenger's win divides the pot when there is one.
LEMMA SettlementSeen ==
  ASSUME ChallengeInv, IsSettled PROVE L!Settle("challenge")
<1> DEFINE winner == record.winner
           shares == IF winner = WINNER_CHALLENGER
                       THEN builtInSettlement(Terms) ELSE [reward |-> 0, burn |-> 0]
           returned == L!ReturnedBond(winner)
<1>1. /\ record.phase = PHASE_RULED
      /\ paid' = winner
      /\ winner \in {WINNER_EXECUTOR, WINNER_CHALLENGER}
      /\ paid = NoWinner
  BY DEF IsSettled, ChallengeInv, GoodRecord, Closed, PHASE_RULED
<1>2. /\ L!CloseRecord("challenge")
      /\ DocumentSeen' = [DocumentSeen EXCEPT !.openChallenges = @ - 1,
                                              !.executorBondState = BondSeen']
      /\ ChallengesSeen["challenge"].winner = winner
  BY ClosingSeen
<1>3. DocumentSeen.executorBondState = BondSeen
  BY DEF DocumentSeen
<1>4. BondSeen = IF Pot = 0 THEN "NONE" ELSE "HELD"
  BY <1>1 DEF BondSeen, Divided, NoWinner, WINNER_CHALLENGER
<1>5. BondSeen' = IF Pot = 0 THEN "NONE"
                  ELSE IF winner = WINNER_CHALLENGER THEN "PAID" ELSE "HELD"
  BY <1>1 DEF BondSeen, Divided, Pot
<1>6. Pot \in Nat /\ Bond \in Nat
  BY PotIsShared, BondIsLamports
<1>7. /\ BankSeen' =
            [document |-> IF winner = WINNER_CHALLENGER THEN 0 ELSE Pot, records |-> 0,
             executor |-> (IF winner = WINNER_EXECUTOR THEN Bond ELSE 0) - Pot,
             challengers |-> (IF winner = WINNER_CHALLENGER THEN 0 ELSE 0 - Bond)
                               + shares.reward,
             burned |-> shares.burn]
      /\ returned =
            [document |-> Pot, records |-> 0,
             executor |-> (IF winner = WINNER_EXECUTOR THEN Bond ELSE 0) - Pot,
             challengers |-> IF winner = WINNER_CHALLENGER THEN 0 ELSE 0 - Bond,
             burned |-> 0]
  BY SettledBank
<1> HIDE DEF returned
<1>8. CASE winner = WINNER_EXECUTOR \/ Pot = 0
  <2>1. shares.reward = 0 /\ shares.burn = 0
    BY <1>1, <1>8, PotIsShared DEF WINNER_EXECUTOR, WINNER_CHALLENGER
  <2> HIDE DEF winner, shares
  <2>2. BondSeen' = BondSeen
    BY <1>4, <1>5, <1>8 DEF WINNER_EXECUTOR, WINNER_CHALLENGER
  <2>3. DocumentSeen' = [DocumentSeen EXCEPT !.openChallenges = @ - 1]
    <3> DEFINE before == DocumentSeen
               after == DocumentSeen'
               out == [before EXCEPT !.openChallenges = @ - 1]
               bond == BondSeen
               flags == IF document.refuted THEN {"FLAG_FINAL", "FLAG_REFUTED"}
                                            ELSE {"FLAG_FINAL"}
               open == document.openChallenges - 1
               kept == [account |-> "live", flags |-> flags,
                        positionsComplete |-> PositionCount, documentRoot |-> PositionCount,
                        openChallenges |-> open, challengerWins |-> document.challengerWins,
                        finalizeSlot |-> FirstSlot, disputeDeadline |-> DisputeDeadline,
                        executorBondState |-> bond]
    <3>1. /\ after = [before EXCEPT !.openChallenges = @ - 1, !.executorBondState = bond]
          /\ out = [before EXCEPT !.openChallenges = @ - 1]
      BY <1>2, <2>2
    <3>2. before = [account |-> "live", flags |-> flags,
                    positionsComplete |-> PositionCount, documentRoot |-> PositionCount,
                    openChallenges |-> document.openChallenges,
                    challengerWins |-> document.challengerWins,
                    finalizeSlot |-> FirstSlot, disputeDeadline |-> DisputeDeadline,
                    executorBondState |-> bond]
      BY DEF DocumentSeen
    <3> HIDE DEF before, after, out, bond, flags
    <3>3. before.openChallenges - 1 = open
      BY <3>2
    <3> HIDE DEF open
    <3>4. after = kept
      BY <3>1, <3>2, <3>3
    <3>5. out = kept
      BY <3>1, <3>2, <3>3
    <3> QED
      BY <3>4, <3>5 DEF before, after, out
  <2>4. BankSeen' = returned
    <3>1. (IF winner = WINNER_CHALLENGER THEN 0 ELSE 0 - Bond) + 0
            = IF winner = WINNER_CHALLENGER THEN 0 ELSE 0 - Bond
      BY <1>6
    <3>2. (IF winner = WINNER_CHALLENGER THEN 0 ELSE Pot) = Pot
      BY <1>8 DEF WINNER_EXECUTOR, WINNER_CHALLENGER
    <3> QED
      BY <1>7, <2>1, <3>1, <3>2
  <2>5. winner = WINNER_EXECUTOR \/ BondSeen # "HELD"
    BY <1>4, <1>8
  <2> QED
    BY <1>2, <1>3, <2>3, <2>4, <2>5
    DEF L!Settle, L!SettleWithoutPot, L!BOND_HELD, L!WINNER_EXECUTOR, WINNER_EXECUTOR, returned
<1>9. CASE winner = WINNER_CHALLENGER /\ Pot # 0
  <2> DEFINE split == [winner |-> shares.reward, loser |-> 0, burned |-> shares.burn]
             divided == L!DivideBond(returned, split)
  <2>1. split \in L!Route("challenge")
    BY <1>9, BuiltInIsRoute
  <2>2. shares.reward \in 0..Pot /\ shares.burn \in 0..Pot
    BY <1>9, PotIsShared
  <2> HIDE DEF winner, shares
  <2>3. DocumentSeen' = [DocumentSeen EXCEPT !.openChallenges = @ - 1,
                                             !.executorBondState = "PAID"]
    BY <1>2, <1>5, <1>9
  <2>4. returned = [document |-> Pot, records |-> 0, executor |-> 0 - Pot, challengers |-> 0,
                    burned |-> 0]
    BY <1>7, <1>9 DEF WINNER_EXECUTOR, WINNER_CHALLENGER
  <2>5. divided = [returned EXCEPT !.document = returned.document - Pot,
                                   !.challengers = returned.challengers + shares.reward,
                                   !.executor = returned.executor + 0,
                                   !.burned = returned.burned + shares.burn]
    BY DEF L!DivideBond, Pot
  <2>6. /\ Pot - Pot = 0
        /\ 0 + shares.reward = shares.reward
        /\ (0 - Pot) + 0 = 0 - Pot
        /\ 0 + shares.burn = shares.burn
    BY <1>6, <2>2
  <2> HIDE DEF divided
  <2>7. divided = [document |-> 0, records |-> 0, executor |-> 0 - Pot,
                   challengers |-> shares.reward, burned |-> shares.burn]
    BY <2>4, <2>5, <2>6
  <2>8. BankSeen' = divided
    BY <1>7, <1>9, <2>6, <2>7 DEF WINNER_EXECUTOR, WINNER_CHALLENGER
  <2> HIDE DEF split
  <2>9. BankSeen' = L!DivideBond(L!ReturnedBond(L!WINNER_CHALLENGER), split)
    BY <1>9, <2>8 DEF divided, returned, L!WINNER_CHALLENGER, WINNER_CHALLENGER
  <2> QED
    BY <1>2, <1>3, <1>4, <1>9, <2>1, <2>3, <2>9
    DEF L!Settle, L!SettleWithPot, L!BOND_HELD, L!BOND_PAID, L!WINNER_CHALLENGER,
        WINNER_CHALLENGER
<1> HIDE DEF winner
<1> QED
  BY <1>1, <1>8, <1>9

\* Every step is one of Lifecycle or nothing to it.
LEMMA StepIsSeen ==
  ASSUME ChallengeInv, [Next]_vars
  PROVE  L!Tick \/ L!ChallengeStep("challenge") \/ UNCHANGED L!vars
<1>1. CASE Tick
  BY <1>1, TickSeen
<1>2. CASE TurnTaken
  BY <1>2, TurnSeen DEF L!ChallengeStep
<1>3. CASE TurnGoesOn
  BY <1>3, NothingSeen
<1>4. CASE IsRuled
  BY <1>4, RulingSeen DEF L!ChallengeStep
<1>5. CASE IsOpened
  BY <1>5, OpenSeen DEF L!ChallengeStep
<1>6. CASE IsConvicted
  BY <1>6, ConvictionSeen DEF L!ChallengeStep
<1>7. CASE IsSettled
  BY <1>7, SettlementSeen DEF L!ChallengeStep
<1>8. CASE Untouched
  BY <1>8, NothingSeen
<1> QED
  BY <1>1, <1>2, <1>3, <1>4, <1>5, <1>6, <1>7, <1>8, StepDoes

\* Whatever its phases do, a challenge takes the turns, the rulings and the settlement
\* of Lifecycle.
THEOREM PhasesImplementTurns == Spec => ImplementsLifecycle
<1>1. ASSUME ChallengeInv, [Next]_vars
      PROVE  L!Tick \/ L!ChallengeStep("challenge") \/ UNCHANGED L!vars
  BY <1>1, StepIsSeen
<1>2. UNCHANGED L!vars => UNCHANGED <<L!vars>>
  OBVIOUS
<1> QED
  BY <1>1, <1>2, ChallengeInductive, PTL DEF Spec, ImplementsLifecycle

-----------------------------------------------------------------------------
(* What is proved of Lifecycle holds of challenges played phase by phase    *)

\* The constants of Lifecycle, in its own names.
SameStates ==
  /\ L!EXECUTOR_TURN = P!EXECUTOR_TURN /\ L!CHALLENGER_TURN = P!CHALLENGER_TURN
  /\ L!RULED = P!RULED /\ L!ABSENT = P!ABSENT
  /\ L!WINNER_EXECUTOR = P!WINNER_EXECUTOR /\ L!WINNER_CHALLENGER = P!WINNER_CHALLENGER
  /\ L!NoWinner = P!NoWinner
  /\ L!BOND_HELD = P!BOND_HELD /\ L!BOND_PAID = P!BOND_PAID
  /\ L!FLAG_REFUTED = P!FLAG_REFUTED /\ L!FLAG_FINAL = P!FLAG_FINAL

LEMMA StatesAgree == SameStates
BY DEF SameStates, L!EXECUTOR_TURN, P!EXECUTOR_TURN, L!CHALLENGER_TURN, P!CHALLENGER_TURN,
  L!RULED, P!RULED, L!ABSENT, P!ABSENT, L!WINNER_EXECUTOR, P!WINNER_EXECUTOR,
  L!WINNER_CHALLENGER, P!WINNER_CHALLENGER, L!NoWinner, P!NoWinner, L!BOND_HELD, P!BOND_HELD,
  L!BOND_PAID, P!BOND_PAID, L!FLAG_REFUTED, P!FLAG_REFUTED, L!FLAG_FINAL, P!FLAG_FINAL

\* The helpers of its actions.
LEMMA HelpersAgree ==
  /\ L!RoundDeadline = P!RoundDeadline
  /\ L!RoundFits <=> P!RoundFits
  /\ L!OpenedRecord = P!OpenedRecord
  /\ L!NoRecord = P!NoRecord
  /\ \A winner : L!RuledRecord(winner) = P!RuledRecord(winner)
  /\ \A doc, winner : L!MarkRuling(doc, winner) = P!MarkRuling(doc, winner)
  /\ \A doc : L!CountOpen(doc) = P!CountOpen(doc)
  /\ \A rec, turn : L!AnsweredRecord(rec, turn) = P!AnsweredRecord(rec, turn)
  /\ L!MayOpen("challenge") <=> P!MayOpen("challenge")
  /\ L!PostChallengerBond <=> P!PostChallengerBond
  /\ \A winner : L!ReturnedBond(winner) = P!ReturnedBond(winner)
  /\ \A b, split : L!DivideBond(b, split) = P!DivideBond(b, split)
  /\ L!Route("challenge") = P!Route("challenge")
<1> USE StatesAgree DEF SameStates
<1>1. L!RoundDeadline = P!RoundDeadline /\ (L!RoundFits <=> P!RoundFits)
  BY DEF L!RoundDeadline, P!RoundDeadline, L!RoundFits, P!RoundFits
<1>2. L!NoRecord = P!NoRecord
  BY DEF L!NoRecord, P!NoRecord
<1>3. L!OpenedRecord = P!OpenedRecord
  BY <1>1, <1>2 DEF L!OpenedRecord, P!OpenedRecord
<1>4. L!CustomDeadline = P!CustomDeadline
  BY DEF L!CustomDeadline, P!CustomDeadline
<1>5. \A winner : L!RuledRecord(winner) = P!RuledRecord(winner)
  BY <1>4 DEF L!RuledRecord, P!RuledRecord, L!isZero, P!isZero
<1>6. \A doc, winner : L!MarkRuling(doc, winner) = P!MarkRuling(doc, winner)
  BY DEF L!MarkRuling, P!MarkRuling
<1>7. \A doc : L!CountOpen(doc) = P!CountOpen(doc)
  BY DEF L!CountOpen, P!CountOpen
<1>8. \A rec, turn : L!AnsweredRecord(rec, turn) = P!AnsweredRecord(rec, turn)
  BY <1>1 DEF L!AnsweredRecord, P!AnsweredRecord
<1>9. L!MayOpen("challenge") <=> P!MayOpen("challenge")
  BY DEF L!MayOpen, P!MayOpen, L!Finalized, P!Finalized
<1>10. L!PostChallengerBond <=> P!PostChallengerBond
  BY DEF L!PostChallengerBond, P!PostChallengerBond
<1>11. \A winner : L!ReturnedBond(winner) = P!ReturnedBond(winner)
  BY DEF L!ReturnedBond, P!ReturnedBond
<1>12. \A b, split : L!DivideBond(b, split) = P!DivideBond(b, split)
  BY DEF L!DivideBond, P!DivideBond
<1>13. L!builtInSettlement(Terms) = P!builtInSettlement(Terms)
  BY DEF L!builtInSettlement, P!builtInSettlement, L!BPS_DENOMINATOR, P!BPS_DENOMINATOR
<1>14. L!Route("challenge") = P!Route("challenge")
  BY <1>13 DEF L!Route, P!Route, L!BuiltInRoute, P!BuiltInRoute, L!CustomRoute, P!CustomRoute,
    L!isZero, P!isZero
<1> QED
  BY <1>1, <1>2, <1>3, <1>5, <1>6, <1>7, <1>8, <1>9, <1>10, <1>11, <1>12, <1>14

\* The steps a challenge takes are steps of Lifecycle.
LEMMA StepsAgree ==
  ASSUME L!Tick \/ L!ChallengeStep("challenge") \/ UNCHANGED L!vars
  PROVE  [P!Next]_P!vars
<1> USE StatesAgree, HelpersAgree DEF SameStates
<1>1. CASE L!Tick
  BY <1>1 DEF L!Tick, P!Tick, P!Next
<1>2. CASE L!OpenChallenge("challenge")
  <2>1. P!OpenChallenge("challenge")
    BY <1>2 DEF L!OpenChallenge, P!OpenChallenge
  <2> QED
    BY <2>1 DEF P!Next, P!ChallengeStep
<1>3. CASE L!OpenAndConvict("challenge")
  <2>1. P!OpenAndConvict("challenge")
    BY <1>3 DEF L!OpenAndConvict, P!OpenAndConvict, L!Rule, P!Rule
  <2> QED
    BY <2>1 DEF P!Next, P!ChallengeStep
<1>4. CASE L!Respond("challenge")
  <2>1. P!Respond("challenge")
    BY <1>4 DEF L!Respond, P!Respond
  <2> QED
    BY <2>1 DEF P!Next, P!ChallengeStep
<1>5. CASE \E winner \in {L!WINNER_EXECUTOR, L!WINNER_CHALLENGER} :
             L!Verdict("challenge", winner)
  <2>1. \E winner \in {P!WINNER_EXECUTOR, P!WINNER_CHALLENGER} :
          P!Verdict("challenge", winner)
    BY <1>5 DEF L!Verdict, P!Verdict, L!Rule, P!Rule
  <2> QED
    BY <2>1 DEF P!Next, P!ChallengeStep
<1>6. CASE L!Timeout("challenge")
  <2>1. P!Timeout("challenge")
    BY <1>6 DEF L!Timeout, P!Timeout, L!Rule, P!Rule
  <2> QED
    BY <2>1 DEF P!Next, P!ChallengeStep
<1>7. CASE L!Settle("challenge")
  <2>1. L!CloseRecord("challenge") => P!CloseRecord("challenge")
    BY DEF L!CloseRecord, P!CloseRecord
  <2>2. P!Settle("challenge")
    BY <1>7, <2>1 DEF L!Settle, P!Settle, L!SettleWithPot, P!SettleWithPot, L!SettleWithoutPot,
      P!SettleWithoutPot
  <2> QED
    BY <2>2 DEF P!Next, P!ChallengeStep
<1>8. CASE UNCHANGED L!vars
  BY <1>8 DEF L!vars, P!vars
<1> QED
  BY <1>1, <1>2, <1>3, <1>4, <1>5, <1>6, <1>7, <1>8 DEF L!ChallengeStep

\* The document, the record and the lamports of the first state.
LEMMA FirstSeen ==
  ASSUME Init
  PROVE  /\ slot = FirstSlot
         /\ DocumentSeen =
              [account |-> "live", flags |-> {"FLAG_FINAL"},
               positionsComplete |-> PositionCount, documentRoot |-> PositionCount,
               openChallenges |-> 0, challengerWins |-> 0,
               finalizeSlot |-> FirstSlot, disputeDeadline |-> DisputeDeadline,
               executorBondState |-> IF Pot = 0 THEN "NONE" ELSE "HELD"]
         /\ ChallengesSeen =
              [c \in {"challenge"} |->
                 [phase |-> "absent", winner |-> "nobody", deadline |-> 0,
                  customSettlementDeadline |-> 0, rounds |-> 0]]
         /\ OpenedSeen = 0
         /\ BankSeen = [document |-> Pot, records |-> 0, executor |-> 0 - Pot,
                        challengers |-> 0, burned |-> 0]
<1>1. /\ slot = FirstSlot
      /\ document = [openChallenges |-> 0, challengerWins |-> 0, refuted |-> FALSE]
      /\ record = NoRecord
      /\ opened = FALSE /\ turns = 0 /\ paid = NoWinner
  BY DEF Init, FinalizedDocument
<1>2. /\ record.phase = Closed /\ record.winner = NoWinner
      /\ record.deadline = 0 /\ record.customDeadline = 0
  BY <1>1 DEF NoRecord
<1>3. ~ Divided /\ ~ IsOpen /\ 0 + 0 = 0
  BY <1>1, <1>2 DEF Divided, IsOpen, NoWinner, WINNER_CHALLENGER
<1>4. DocumentSeen =
        [account |-> "live", flags |-> {"FLAG_FINAL"},
         positionsComplete |-> PositionCount, documentRoot |-> PositionCount,
         openChallenges |-> 0, challengerWins |-> 0,
         finalizeSlot |-> FirstSlot, disputeDeadline |-> DisputeDeadline,
         executorBondState |-> IF Pot = 0 THEN "NONE" ELSE "HELD"]
  BY <1>1, <1>3 DEF DocumentSeen, BondSeen
<1>5. RecordSeen = [phase |-> "absent", winner |-> "nobody", deadline |-> 0,
                    customSettlementDeadline |-> 0, rounds |-> 0]
  BY <1>1, <1>2, PhasesSeen DEF RecordSeen, NoWinner
<1>6. BankSeen = [document |-> Pot, records |-> 0, executor |-> 0 - Pot, challengers |-> 0,
                  burned |-> 0]
  BY <1>1, <1>3 DEF BankSeen, SharesSeen, NoWinner, WINNER_EXECUTOR
<1> QED
  BY <1>1, <1>4, <1>5, <1>6 DEF ChallengesSeen, OpenedSeen

\* It is a state the invariants of Lifecycle allow: a finalized document without
\* challenges, its executor bond in escrow.
LEMMA FirstIsAllowed ==
  ASSUME Init PROVE P!IInv /\ P!EscrowAccounted
<1> DEFINE bondState == IF Pot = 0 THEN "NONE" ELSE "HELD"
           empty == [phase |-> "absent", winner |-> "nobody", deadline |-> 0,
                     customSettlementDeadline |-> 0, rounds |-> 0]
<1>1. /\ slot = FirstSlot
      /\ DocumentSeen =
           [account |-> "live", flags |-> {"FLAG_FINAL"},
            positionsComplete |-> PositionCount, documentRoot |-> PositionCount,
            openChallenges |-> 0, challengerWins |-> 0,
            finalizeSlot |-> FirstSlot, disputeDeadline |-> DisputeDeadline,
            executorBondState |-> bondState]
      /\ ChallengesSeen = [c \in {"challenge"} |-> empty]
      /\ OpenedSeen = 0
      /\ BankSeen = [document |-> Pot, records |-> 0, executor |-> 0 - Pot,
                     challengers |-> 0, burned |-> 0]
  BY FirstSeen
<1>2. /\ PositionCount \in Nat \ {0}
      /\ FirstSlot \in P!Slots /\ FirstSlot # 0
      /\ DisputeDeadline \in P!Slots
      /\ 0 \in P!Slots
      /\ U64_MAX \in Nat
      /\ Pot \in Nat /\ Pot = Terms.executorBondLamports
      /\ Bond \in Nat /\ Bond = Terms.challengerBondLamports
      /\ MostTurns \in Nat
      /\ Binding.outputCount >= 1 /\ Binding.outputCount \in Nat
  BY LimitsAssumption, ChallengeAssumption, BindingAssumption, PotIsShared, BondIsLamports
  DEF P!Slots, Pot, Bond, MostTurns, RunBindings, checkRunBinding
<1>3. bondState \in {"NONE", "HELD"} /\ (bondState = "NONE" <=> Pot = 0)
  OBVIOUS
<1>4. empty.phase = "absent" /\ ChallengesSeen["challenge"] = empty
  BY <1>1
<1> HIDE DEF bondState, empty
<1>5. P!Live = {}
  BY <1>4 DEF P!Live, P!ABSENT
<1>6. P!Cardinality(P!Live) = 0
  BY <1>5, P!FS_EmptySet, LifecycleAssumed
<1>7. P!TypeOK
  <2>1. DocumentSeen \in P!Documents
    BY <1>1, <1>2, <1>3
    DEF P!Documents, P!Roots, P!FLAG_FINAL, P!FLAG_REFUTED, P!BOND_NONE, P!BOND_HELD,
        P!BOND_PAID, P!BOND_RETURNED
  <2>2. ResultSeen \in P!Results
    <3>1. {} \in SUBSET P!Outputs
      OBVIOUS
    <3> QED
      BY <1>2, <3>1
      DEF ResultSeen, P!Results, P!Roots, P!Statuses, P!STATUS_PENDING, P!STATUS_FINAL,
          P!STATUS_REFUTED, P!STATUS_SETTLED
  <2>3. empty \in P!ChallengeRecords
    BY <1>2
    DEF empty, P!ChallengeRecords, P!ABSENT, P!EXECUTOR_TURN, P!CHALLENGER_TURN, P!RULED,
        P!NoWinner, P!WINNER_EXECUTOR, P!WINNER_CHALLENGER
  <2>4. ChallengesSeen \in [{"challenge"} -> P!ChallengeRecords]
    BY <1>1, <2>3
  <2>5. BankSeen \in P!Banks
    BY <1>1, <1>2 DEF P!Banks
  <2>6. slot \in P!Slots /\ OpenedSeen \in 0..1
    BY <1>1, <1>2
  <2> QED
    BY <2>1, <2>2, <2>4, <2>5, <2>6 DEF P!TypeOK
<1>8. /\ DocumentSeen.account = "live"
      /\ DocumentSeen.flags = {"FLAG_FINAL"}
      /\ DocumentSeen.documentRoot = PositionCount
      /\ DocumentSeen.openChallenges = 0 /\ DocumentSeen.challengerWins = 0
      /\ DocumentSeen.disputeDeadline = DisputeDeadline
      /\ DocumentSeen.executorBondState = bondState
      /\ ResultSeen.account = "DCR2" /\ ResultSeen.status = "PENDING"
      /\ ResultSeen.documentClosed = 0
      /\ ResultSeen.documentRoot = PositionCount
      /\ ResultSeen.disputeDeadline = DisputeDeadline
      /\ ResultSeen.retentionStartSlot = 0 /\ ResultSeen.retentionDeadline = 0
  BY <1>1 DEF ResultSeen
<1>9. P!Finalized /\ ~ P!Refuted
  BY <1>8 DEF P!Finalized, P!Refuted, P!FLAG_FINAL, P!FLAG_REFUTED
<1>10. \A c \in {"challenge"} : ChallengesSeen[c].phase = "absent"
  BY <1>4
<1>11. P!OpenChallengesExact
  BY <1>5, <1>6, <1>8 DEF P!OpenChallengesExact
<1>12. P!AccountsCoupled /\ P!ClockStarted
  BY <1>1, <1>2, <1>8 DEF P!AccountsCoupled, P!ClockStarted
<1>13. P!RefutationRecorded
  BY <1>8, <1>9, <1>10 DEF P!RefutationRecorded, P!RULED
<1>14. P!ResultCopiesDocument
  BY <1>8, <1>9 DEF P!ResultCopiesDocument
<1>15. P!StatusJustified
  BY <1>8
  DEF P!StatusJustified, P!RefutedWasRuled, P!USABLE_STATUSES, P!STATUS_FINAL,
      P!STATUS_SETTLED, P!STATUS_REFUTED
<1>16. P!BondJustified
  BY <1>2, <1>3, <1>8, <1>9
  DEF P!BondJustified, P!BOND_NONE, P!BOND_HELD, P!BOND_PAID, P!BOND_RETURNED
<1>17. P!StoredRecordsDecode
  BY <1>2, <1>3, <1>8, LimitsAssumption
  DEF P!StoredRecordsDecode, P!Dcm2V6Decodes, P!ResultV5Decodes, P!BOND_NONE
<1>18. P!IInv
  BY <1>7, <1>11, <1>12, <1>13, <1>14, <1>15, <1>16, <1>17 DEF P!IInv
<1>19. P!EscrowAccounted
  <2>1. /\ BankSeen.document = Pot /\ BankSeen.records = 0 /\ BankSeen.executor = 0 - Pot
        /\ BankSeen.challengers = 0 /\ BankSeen.burned = 0
    BY <1>1
  <2>2. /\ Terms.challengerBondLamports * 0 = 0
        /\ Pot + 0 + (0 - Pot) + 0 + 0 = 0
    <3> DEFINE bond == Terms.challengerBondLamports
               pot == Terms.executorBondLamports
    <3>1. bond \in Nat /\ pot \in Nat
      BY <1>2
    <3> HIDE DEF bond, pot
    <3>2. bond * 0 = 0 /\ pot + 0 + (0 - pot) + 0 + 0 = 0
      BY <3>1
    <3> QED
      BY <3>2 DEF bond, pot, Pot
  <2>3. P!EscrowBacked
    BY <1>2, <1>3, <1>6, <1>8, <2>1, <2>2 DEF P!EscrowBacked, P!BOND_HELD
  <2>4. P!LamportsConserved
    BY <2>1, <2>2 DEF P!LamportsConserved
  <2>5. BankSeen.executor >= IF bondState = "HELD" THEN - Pot ELSE 0
    BY <1>2, <1>3, <2>1
  <2> QED
    BY <1>2, <1>8, <2>1, <2>3, <2>4, <2>5 DEF P!EscrowAccounted, P!BOND_HELD
<1> QED
  BY <1>18, <1>19

\* The inductive invariant of Lifecycle and the ledger of its escrow hold of a challenge
\* played phase by phase: nothing of it is proved again, every step is one of
\* Lifecycle, for which it was.
THEOREM LifecycleHolds == Spec => [](P!IInv /\ P!EscrowAccounted)
<1>1. ASSUME ChallengeInv, P!IInv, P!EscrowAccounted, [Next]_vars
      PROVE  P!IInv' /\ P!EscrowAccounted'
  <2>1. [P!Next]_P!vars
    BY <1>1, StepIsSeen, StepsAgree
  <2> QED
    BY <1>1, <2>1, P!IndStep, P!EscrowStep, LifecycleAssumed
<1> QED
  BY <1>1, FirstIsAllowed, ChallengeInductive, PTL DEF Spec

-----------------------------------------------------------------------------
(* The next move is accepted                                               *)

\* MovesAccepted says so with ENABLED, which no prover here knows.  What ENABLED means
\* is proved instead, in two halves: the state After(ix) that each expected
\* instruction can lead to, and that no decision of a handler needs an account the
\* instruction does not mark writable.

\* The next value of vars when the party in turn has acted, when it must act again, and
\* when the challenge is ruled.
AfterTurn(rec) == <<slot, document, rec, response, opened, turns + 1, paid>>
AfterStay(rec) == <<slot, document, rec, response, opened, turns, paid>>
AfterRuling(winner, cause) ==
  <<slot, Marked(document, winner), Ruled(record, winner, cause), response, opened, 0, paid>>

AfterChunk(ix) ==
  LET staged == ix.data[1] + Len(ix.data[2])
      next == Write176([record EXCEPT !.staged = staged], staged, SegmentCount,
                       IF staged = SegmentCount THEN 1 ELSE 0)
  IN  IF staged = SegmentCount THEN AfterTurn(Enter(next, PHASE_SELECT)) ELSE AfterStay(next)

AfterDescent(ix) ==
  LET entry == record.entry * Width + ix.data[1]
  IN  IF LastRound
        THEN AfterTurn(Fixed([record EXCEPT !.level = 0], entry))
        ELSE AfterTurn([Enter(record, PHASE_REVEAL) EXCEPT !.level = @ - 1, !.entry = entry])

AfterSelection ==
  AfterTurn(Write176([Enter(record, PHASE_REVEAL) EXCEPT !.staged = 0, !.level = Depth], 0, 0, 0))

AfterSummarySelection ==
  IF LastRound
    THEN AfterTurn([Enter(record, PHASE_SUMMARY_ANSWER) EXCEPT !.level = 0])
    ELSE AfterTurn([Enter(record, PHASE_SUMMARY_REVEAL) EXCEPT !.level = @ - 1])

AfterAnswer(ix) ==
  LET answered == record.answered \cup {ix.data[1]}
  IN  IF Cardinality(answered) = SummarySlots
        THEN AfterRuling(WINNER_EXECUTOR, CAUSE_VERDICT)
        ELSE AfterStay([record EXCEPT !.answered = answered])

AfterTable(ix) == AfterStay([record EXCEPT !.table = @ + ix.data[2]])

AfterTimeout ==
  AfterRuling(IF record.phase \in ChallengerPhases THEN WINNER_EXECUTOR ELSE WINNER_CHALLENGER,
              CAUSE_TIMEOUT)

AfterOpening(ix) ==
  <<slot, [document EXCEPT !.openChallenges = @ + 1], Opened(ix.tag), response, TRUE, turns,
    paid>>

AfterClose == <<slot, document, record, "absent", opened, turns, paid>>

AfterSettlement ==
  <<slot, [document EXCEPT !.openChallenges = @ - 1], NoRecord, "absent", opened, turns,
    record.winner>>

\* Where an expected instruction can lead: without a conviction where the handler
\* decides on one, and with a last answer that is right.
After(ix) ==
  CASE ix.tag \in {166, 167, 171} -> AfterOpening(ix)
    [] ix.tag = 163 -> AfterChunk(ix)
    [] ix.tag = 164 -> AfterSelection
    [] ix.tag = 168 -> AfterTurn(Enter(record, PHASE_DESCEND))
    [] ix.tag = 169 -> AfterDescent(ix)
    [] ix.tag = 179 -> AfterTurn(Enter(record, PHASE_SUMMARY_DESCEND))
    [] ix.tag = 180 -> AfterSummarySelection
    [] ix.tag = 181 -> AfterAnswer(ix)
    [] ix.tag = 173 -> AfterTable(ix)
    [] ix.tag = 132 -> AfterTimeout
    [] ix.tag = 182 -> AfterClose
    [] ix.tag = 131 -> AfterSettlement

\* Every handler looks at the tag.
LEMMA TagOfHandler ==
  ASSUME NEW ix
  PROVE  /\ Open(ix) => ix.tag \in {166, 167, 171}
         /\ RevealChunk(ix) => ix.tag = 163
         /\ Select(ix) => ix.tag = 164
         /\ Reveal(ix) => ix.tag = 168
         /\ Descend(ix) => ix.tag = 169
         /\ RevealSummary(ix) => ix.tag = 179
         /\ SelectSummary(ix) => ix.tag = 180
         /\ AnswerSummary(ix) => ix.tag = 181
         /\ RevealTable(ix) => ix.tag = 173
         /\ Timeout(ix) => ix.tag = 132
         /\ CloseResponse(ix) => ix.tag = 182
         /\ Settle(ix) => ix.tag = 131
<1>1. Open(ix) => ix.tag \in {166, 167, 171}
  BY DEF Open, Openings, challengeLeaf, challengePosition, challengeSummary, instruction
<1>2. RevealChunk(ix) => ix.tag = 163
  BY DEF RevealChunk
<1>3. Select(ix) => ix.tag = 164
  BY DEF Select
<1>4. Reveal(ix) => ix.tag = 168
  BY DEF Reveal
<1>5. Descend(ix) => ix.tag = 169
  BY DEF Descend
<1>6. RevealSummary(ix) => ix.tag = 179
  BY DEF RevealSummary
<1>7. SelectSummary(ix) => ix.tag = 180
  BY DEF SelectSummary
<1>8. AnswerSummary(ix) => ix.tag = 181
  BY DEF AnswerSummary
<1>9. RevealTable(ix) => ix.tag = 173
  BY DEF RevealTable
<1>10. Timeout(ix) => ix.tag = 132
  BY DEF Timeout
<1>11. CloseResponse(ix) => ix.tag = 182
  BY DEF CloseResponse
<1>12. Settle(ix) => ix.tag = 131
  BY DEF Settle
<1> QED
  BY <1>1, <1>2, <1>3, <1>4, <1>5, <1>6, <1>7, <1>8, <1>9, <1>10, <1>11, <1>12

\* What the handlers write.
LEMMA HandlerTouches ==
  ASSUME NEW ix, Handle(ix)
  PROVE  /\ ix.tag \in {163, 164, 173, 179, 180} => Touched \subseteq {"record"}
         /\ ix.tag \in {132, 181} => Touched \subseteq {"record", "document"}
         /\ ix.tag \in {168, 169} =>
              \/ Touched \subseteq {"record"}
              \/ LastRound /\ Touched \subseteq {"record", "document"}
         /\ ix.tag \in {166, 167, 171} => Touched \subseteq {"record", "document", "challenger"}
         /\ ix.tag = 182 => Touched \subseteq {"response", "executor"}
         /\ ix.tag = 131 =>
              Touched \subseteq {"record", "document", "response", "executor", "challenger",
                                 record.winner}
<1>1. ASSUME NEW rec, Turn(rec) \/ Stay(rec) PROVE Touched \subseteq {"record"}
  BY <1>1 DEF Turn, Stay, Touched
<1>2. ASSUME NEW winner, NEW cause, Rule(winner, cause)
      PROVE  Touched \subseteq {"record", "document"}
  BY <1>2 DEF Rule, Touched
<1>3. CASE Open(ix)
  <2>1. Touched \subseteq {"record", "document", "challenger"}
    BY <1>3 DEF Open, Touched
  <2> QED
    BY <1>3, <2>1, TagOfHandler
<1>4. CASE RevealChunk(ix)
  <2>1. Touched \subseteq {"record"}
    BY <1>1, <1>4 DEF RevealChunk
  <2> QED
    BY <1>4, <2>1, TagOfHandler
<1>5. CASE Select(ix)
  <2>1. Touched \subseteq {"record"}
    BY <1>1, <1>5 DEF Select
  <2> QED
    BY <1>5, <2>1, TagOfHandler
<1>6. CASE Reveal(ix)
  <2>1. Touched \subseteq {"record"} \/ (LastRound /\ Touched \subseteq {"record", "document"})
    BY <1>1, <1>2, <1>6 DEF Reveal
  <2> QED
    BY <1>6, <2>1, TagOfHandler
<1>7. CASE Descend(ix)
  <2>1. Touched \subseteq {"record"} \/ (LastRound /\ Touched \subseteq {"record", "document"})
    BY <1>1, <1>2, <1>7 DEF Descend
  <2> QED
    BY <1>7, <2>1, TagOfHandler
<1>8. CASE RevealSummary(ix)
  <2>1. Touched \subseteq {"record"}
    BY <1>1, <1>8 DEF RevealSummary
  <2> QED
    BY <1>8, <2>1, TagOfHandler
<1>9. CASE SelectSummary(ix)
  <2>1. Touched \subseteq {"record"}
    BY <1>1, <1>9 DEF SelectSummary
  <2> QED
    BY <1>9, <2>1, TagOfHandler
<1>10. CASE AnswerSummary(ix)
  <2>1. Touched \subseteq {"record", "document"}
    BY <1>1, <1>2, <1>10 DEF AnswerSummary
  <2> QED
    BY <1>10, <2>1, TagOfHandler
<1>11. CASE RevealTable(ix)
  <2>1. Touched \subseteq {"record"}
    BY <1>1, <1>11 DEF RevealTable
  <2> QED
    BY <1>11, <2>1, TagOfHandler
<1>12. CASE Timeout(ix)
  <2>1. Touched \subseteq {"record", "document"}
    BY <1>2, <1>12 DEF Timeout
  <2> QED
    BY <1>12, <2>1, TagOfHandler
<1>13. CASE CloseResponse(ix)
  <2>1. Touched \subseteq {"response", "executor"}
    BY <1>13 DEF CloseResponse, Touched
  <2> QED
    BY <1>13, <2>1, TagOfHandler
<1>14. CASE Settle(ix)
  <2>1. Touched \subseteq {"record", "document", "response", "executor", "challenger",
                           record.winner}
    BY <1>14 DEF Settle, Touched
  <2> QED
    BY <1>14, <2>1, TagOfHandler
<1> QED
  BY <1>3, <1>4, <1>5, <1>6, <1>7, <1>8, <1>9, <1>10, <1>11, <1>12, <1>13, <1>14 DEF Handle

\* An instruction that marks some of its accounts writable lets them be written.
LEMMA MarkedIsWritable ==
  ASSUME NEW ix, NEW i \in DOMAIN ix.accounts, ix.accounts[i].writable
  PROVE  ix.accounts[i].account \in WritableOf(ix)
BY DEF WritableOf

LEMMA MarkedRoles ==
  ASSUME NEW account
  PROVE  /\ Writes(account).account = account /\ Writes(account).writable
         /\ Pays(account).account = account /\ Pays(account).writable
BY DEF Writes, Pays, meta

\* The instructions of the SDK: their tag, their data, and what they may write.
LEMMA ChunkInstruction ==
  ASSUME NEW first, NEW roots
  PROVE  LET ix == revealPosition(first, roots)
         IN  ix.tag = 163 /\ ix.data = <<first, roots>> /\ {"record"} \subseteq WritableOf(ix)
<1> DEFINE ix == revealPosition(first, roots)
<1>1. ix.tag = 163 /\ ix.data = <<first, roots>>
  BY DEF revealPosition, instruction
<1>2. 1 \in DOMAIN ix.accounts /\ ix.accounts[1] = Writes("record")
  BY DEF revealPosition, instruction, Machine
<1> HIDE DEF ix
<1>3. "record" \in WritableOf(ix)
  BY <1>2, MarkedIsWritable, MarkedRoles
<1> QED
  BY <1>1, <1>3 DEF ix

LEMMA SegmentInstruction ==
  ASSUME NEW ordinal
  PROVE  LET ix == selectSegment(ordinal)
         IN  ix.tag = 164 /\ ix.data = <<ordinal>> /\ {"record"} \subseteq WritableOf(ix)
<1> DEFINE ix == selectSegment(ordinal)
<1>1. ix.tag = 164 /\ ix.data = <<ordinal>>
  BY DEF selectSegment, instruction
<1>2. 1 \in DOMAIN ix.accounts /\ ix.accounts[1] = Writes("record")
  BY DEF selectSegment, instruction, Machine
<1> HIDE DEF ix
<1>3. "record" \in WritableOf(ix)
  BY <1>2, MarkedIsWritable, MarkedRoles
<1> QED
  BY <1>1, <1>3 DEF ix

LEMMA SummaryInstructions ==
  ASSUME NEW ix, NEW n, ix = summaryReveal(n) \/ ix = summarySelect(n)
  PROVE  /\ ix = summaryReveal(n) => ix.tag = 179
         /\ ix = summarySelect(n) => ix.tag = 180
         /\ ix.data = <<n>>
         /\ {"record"} \subseteq WritableOf(ix)
<1>1. /\ ix = summaryReveal(n) => ix.tag = 179
      /\ ix = summarySelect(n) => ix.tag = 180
      /\ ix.data = <<n>>
  BY DEF summaryReveal, summarySelect, instruction
<1>2. 1 \in DOMAIN ix.accounts /\ ix.accounts[1] = Writes("record")
  BY DEF summaryReveal, summarySelect, instruction
<1>3. "record" \in WritableOf(ix)
  BY <1>2, MarkedIsWritable, MarkedRoles
<1> QED
  BY <1>1, <1>3

LEMMA TableInstruction ==
  ASSUME NEW first, NEW count
  PROVE  LET ix == revealFamilyTable("anyone", first, count)
         IN  ix.tag = 173 /\ ix.data = <<first, count>> /\ {"record"} \subseteq WritableOf(ix)
<1> DEFINE ix == revealFamilyTable("anyone", first, count)
<1>1. ix.tag = 173 /\ ix.data = <<first, count>>
  BY DEF revealFamilyTable, instruction
<1>2. 1 \in DOMAIN ix.accounts /\ ix.accounts[1] = Writes("record")
  BY DEF revealFamilyTable, instruction
<1> HIDE DEF ix
<1>3. "record" \in WritableOf(ix)
  BY <1>2, MarkedIsWritable, MarkedRoles
<1> QED
  BY <1>1, <1>3 DEF ix

LEMMA AnswerInstruction ==
  ASSUME NEW n
  PROVE  LET ix == summaryAnswer("anyone", n)
         IN  /\ ix.tag = 181 /\ ix.data = <<n>>
             /\ {"record", "document"} \subseteq WritableOf(ix)
<1> DEFINE ix == summaryAnswer("anyone", n)
<1>1. ix.tag = 181 /\ ix.data = <<n>>
  BY DEF summaryAnswer, instruction
<1>2. /\ 1 \in DOMAIN ix.accounts /\ ix.accounts[1] = Writes("record")
      /\ 3 \in DOMAIN ix.accounts /\ ix.accounts[3] = Writes("document")
  BY DEF summaryAnswer, instruction, Machine
<1> HIDE DEF ix
<1>3. "record" \in WritableOf(ix) /\ "document" \in WritableOf(ix)
  BY <1>2, MarkedIsWritable, MarkedRoles
<1> QED
  BY <1>1, <1>3 DEF ix

LEMMA TimeoutInstruction ==
  timeout.tag = 132 /\ {"record", "document"} \subseteq WritableOf(timeout)
<1> DEFINE ix == timeout
<1>1. ix.tag = 132
  BY DEF timeout, instruction
<1>2. /\ 1 \in DOMAIN ix.accounts /\ ix.accounts[1] = Writes("record")
      /\ 2 \in DOMAIN ix.accounts /\ ix.accounts[2] = Writes("document")
  BY DEF timeout, instruction
<1> HIDE DEF ix
<1>3. "record" \in WritableOf(ix) /\ "document" \in WritableOf(ix)
  BY <1>2, MarkedIsWritable, MarkedRoles
<1> QED
  BY <1>1, <1>3 DEF ix

LEMMA CloseResponseInstruction ==
  closeResponse.tag = 182 /\ {"response", "executor"} \subseteq WritableOf(closeResponse)
<1> DEFINE ix == closeResponse
<1>1. ix.tag = 182
  BY DEF closeResponse, instruction
<1>2. /\ 2 \in DOMAIN ix.accounts /\ ix.accounts[2] = Writes("response")
      /\ 3 \in DOMAIN ix.accounts /\ ix.accounts[3] = Writes("executor")
  BY DEF closeResponse, instruction
<1> HIDE DEF ix
<1>3. "response" \in WritableOf(ix) /\ "executor" \in WritableOf(ix)
  BY <1>2, MarkedIsWritable, MarkedRoles
<1> QED
  BY <1>1, <1>3 DEF ix

LEMMA OpeningInstruction ==
  ASSUME NEW ix \in Openings
  PROVE  /\ ix.tag \in {166, 167, 171}
         /\ {"record", "document", "challenger"} \subseteq WritableOf(ix)
<1>1. ix.tag \in {166, 167, 171}
  BY DEF Openings, challengeLeaf, challengePosition, challengeSummary, instruction
<1>2. /\ 1 \in DOMAIN ix.accounts /\ ix.accounts[1] = Writes("record")
      /\ 2 \in DOMAIN ix.accounts /\ ix.accounts[2] = Pays("challenger")
      /\ 3 \in DOMAIN ix.accounts /\ ix.accounts[3] = Writes("document")
  BY DEF Openings, challengeLeaf, challengePosition, challengeSummary, instruction, Machine
<1>3. /\ "record" \in WritableOf(ix) /\ "challenger" \in WritableOf(ix)
      /\ "document" \in WritableOf(ix)
  BY <1>2, MarkedIsWritable, MarkedRoles
<1> QED
  BY <1>1, <1>3

\* A settlement names the winner third, and has four accounts more with a program.
Settlement == settle(record.winner, ~ isZero(Terms.settlementProgram))

LEMMA SettleInstruction ==
  /\ Settlement.tag = 131
  /\ Len(Settlement.accounts) = IF isZero(Terms.settlementProgram) THEN 7 ELSE 11
  /\ Settlement.accounts[3].account = record.winner
  /\ {"record", "document", "response", "executor", "challenger", record.winner}
       \subseteq WritableOf(Settlement)
<1> DEFINE ix == Settlement
           Listed(length) ==
             /\ DOMAIN ix.accounts = 1..length
             /\ Len(ix.accounts) = length
             /\ ix.accounts[1] = Writes("record")
             /\ ix.accounts[2] = Writes("response")
             /\ ix.accounts[3] = Writes(record.winner)
             /\ ix.accounts[4] = Writes("executor")
             /\ ix.accounts[5] = Writes("document")
             /\ ix.accounts[7] = Writes("challenger")
           common == <<Writes("record"), Writes("response"), Writes(record.winner),
                       Writes("executor"), Writes("document"), Writes("incinerator"),
                       Writes("challenger")>>
<1>1. ix.tag = 131
  BY DEF Settlement, settle, instruction
<1>2. isZero(Terms.settlementProgram) => Listed(7)
  <2> HAVE isZero(Terms.settlementProgram)
  <2>1. ix.accounts = common
    BY DEF Settlement, settle, instruction
  <2>2. /\ ix.accounts[1] = Writes("record")
        /\ ix.accounts[2] = Writes("response")
        /\ ix.accounts[3] = Writes(record.winner)
        /\ ix.accounts[4] = Writes("executor")
        /\ ix.accounts[5] = Writes("document")
        /\ ix.accounts[7] = Writes("challenger")
    BY <2>1
  <2>3. Len(ix.accounts) = 7 /\ DOMAIN ix.accounts = 1..7
    BY <2>1
  <2> QED
    BY <2>2, <2>3
<1>3. ~ isZero(Terms.settlementProgram) => Listed(11)
  <2> HAVE ~ isZero(Terms.settlementProgram)
  <2>1. ix.accounts = common \o <<Reads("settlementProgram"), Writes("escrow"),
                                  Reads("result"), Reads("system")>>
    BY DEF Settlement, settle, instruction
  <2>2. /\ ix.accounts[1] = Writes("record")
        /\ ix.accounts[2] = Writes("response")
        /\ ix.accounts[3] = Writes(record.winner)
        /\ ix.accounts[4] = Writes("executor")
        /\ ix.accounts[5] = Writes("document")
        /\ ix.accounts[7] = Writes("challenger")
    BY <2>1
  <2>3. Len(ix.accounts) = 11 /\ DOMAIN ix.accounts = 1..11
    BY <2>1
  <2> QED
    BY <2>2, <2>3
<1>4. PICK length \in {7, 11} :
        Listed(length) /\ (length = IF isZero(Terms.settlementProgram) THEN 7 ELSE 11)
  BY <1>2, <1>3
<1>5. /\ ix.accounts[1] = Writes("record")
      /\ ix.accounts[2] = Writes("response")
      /\ ix.accounts[3] = Writes(record.winner)
      /\ ix.accounts[4] = Writes("executor")
      /\ ix.accounts[5] = Writes("document")
      /\ ix.accounts[7] = Writes("challenger")
  BY <1>4
<1>6. {1, 2, 3, 4, 5, 7} \subseteq DOMAIN ix.accounts
  BY <1>4
<1>10. Len(ix.accounts) = IF isZero(Terms.settlementProgram) THEN 7 ELSE 11
  BY <1>4
<1> HIDE DEF ix, common
<1>7. /\ "record" \in WritableOf(ix) /\ "response" \in WritableOf(ix)
      /\ record.winner \in WritableOf(ix)
  BY <1>5, <1>6, MarkedIsWritable, MarkedRoles
<1>8. /\ "executor" \in WritableOf(ix) /\ "document" \in WritableOf(ix)
      /\ "challenger" \in WritableOf(ix)
  BY <1>5, <1>6, MarkedIsWritable, MarkedRoles
<1>9. ix.accounts[3].account = record.winner
  BY <1>5, MarkedRoles
<1> QED
  BY <1>1, <1>7, <1>8, <1>9, <1>10 DEF ix

\* A round of the descent: the accounts of a fix-point come with the last one, and only
\* that one marks the document writable.
RoundMove(ix) ==
  \/ ix = RoundReveal([choice |-> 0, fixpoint |-> LastRound])
  \/ \E n \in 0..(Width - 1) : ix = RoundDescend([choice |-> n, fixpoint |-> LastRound])

\* What counts of their accounts.
RoundAccounts(ix, last) ==
  /\ 1 \in DOMAIN ix.accounts /\ ix.accounts[1] = Writes("record")
  /\ last => /\ DOMAIN ix.accounts = 1..8
             /\ ix.accounts[3] = Writes("document")
             /\ ix.accounts[4] = Reads("pt2s")
             /\ ix.accounts[5] = Reads("routes")
             /\ ix.accounts[6] = Reads("geometry")
             /\ ix.accounts[7] = Reads("registry")
             /\ ix.accounts[8] = Reads("pt1s")

LEMMA RoundsWithFixpoint ==
  ASSUME NEW n
  PROVE  /\ RoundAccounts(RoundReveal([choice |-> n, fixpoint |-> TRUE]), TRUE)
         /\ RoundAccounts(RoundDescend([choice |-> n, fixpoint |-> TRUE]), TRUE)
BY DEF RoundReveal, RoundDescend, revealDescent, descend, DescentAccounts, fixpointAccounts,
       Machine, instruction, Writes, RoundAccounts

LEMMA RoundsWithout ==
  ASSUME NEW n
  PROVE  /\ RoundAccounts(RoundReveal([choice |-> n, fixpoint |-> FALSE]), FALSE)
         /\ RoundAccounts(RoundDescend([choice |-> n, fixpoint |-> FALSE]), FALSE)
BY DEF RoundReveal, RoundDescend, revealDescent, descend, DescentAccounts, fixpointAccounts,
       Machine, instruction, RoundAccounts

LEMMA RoundData ==
  ASSUME NEW ix
  PROVE  /\ ix = RoundReveal([choice |-> 0, fixpoint |-> LastRound]) =>
              ix.tag = 168 /\ ix.data = <<Width>>
         /\ \A n \in Nat : ix = RoundDescend([choice |-> n, fixpoint |-> LastRound]) =>
              ix.tag = 169 /\ ix.data = <<byte(n)>>
BY DEF RoundReveal, RoundDescend, revealDescent, descend, instruction

\* What a round needs: the record always, and with the last round the document and the
\* accounts of a fix-point.
LEMMA RoundInstruction ==
  ASSUME NEW ix, RoundMove(ix)
  PROVE  /\ "record" \in WritableOf(ix)
         /\ LastRound => "document" \in WritableOf(ix) /\ FixpointGiven(ix)
<1>1. RoundAccounts(ix, FALSE) /\ (LastRound => RoundAccounts(ix, TRUE))
  <2>1. CASE LastRound
    <3>1. LastRound = TRUE
      BY <2>1 DEF LastRound
    <3>2. RoundAccounts(ix, TRUE)
      BY <3>1, RoundsWithFixpoint DEF RoundMove
    <3> QED
      BY <3>2 DEF RoundAccounts
  <2>2. CASE ~ LastRound
    <3>1. LastRound = FALSE
      BY <2>2 DEF LastRound
    <3>2. RoundAccounts(ix, FALSE)
      BY <3>1, RoundsWithout DEF RoundMove
    <3> QED
      BY <2>2, <3>2
  <2> QED
    BY <2>1, <2>2
<1>2. "record" \in WritableOf(ix)
  BY <1>1, MarkedIsWritable, MarkedRoles DEF RoundAccounts
<1>3. ASSUME LastRound PROVE "document" \in WritableOf(ix) /\ FixpointGiven(ix)
  <2>1. /\ DOMAIN ix.accounts = 1..8
        /\ ix.accounts[3] = Writes("document")
        /\ ix.accounts[4] = Reads("pt2s")
        /\ ix.accounts[5] = Reads("routes")
        /\ ix.accounts[6] = Reads("geometry")
        /\ ix.accounts[7] = Reads("registry")
        /\ ix.accounts[8] = Reads("pt1s")
    BY <1>1, <1>3 DEF RoundAccounts
  <2>2. "document" \in WritableOf(ix)
    BY <2>1, MarkedIsWritable, MarkedRoles
  <2>3. DOMAIN fixpointAccounts = 1..5
    BY DEF fixpointAccounts, Machine
  <2>4. /\ fixpointAccounts[1] = Reads("pt2s") /\ fixpointAccounts[2] = Reads("routes")
        /\ fixpointAccounts[3] = Reads("geometry") /\ fixpointAccounts[4] = Reads("registry")
        /\ fixpointAccounts[5] = Reads("pt1s")
    BY DEF fixpointAccounts, Machine
  <2>5. \A i \in 1..5 : i + 3 \in DOMAIN ix.accounts /\ ix.accounts[i + 3] = fixpointAccounts[i]
    BY <2>1, <2>4
  <2>6. FixpointGiven(ix)
    BY <2>3, <2>5 DEF FixpointGiven, AccountsOf
  <2> QED
    BY <2>2, <2>6
<1> QED
  BY <1>2, <1>3

\* The moves, phase by phase.
ChunkMove(ix) ==
  /\ record.phase = PHASE_POSITION_REVEAL
  /\ \E count \in 1..Least({MaxChunk, SegmentCount - record.staged}) :
       ix = revealPosition(record.staged, Chunk(record.staged, count))

SegmentMove(ix) ==
  /\ record.phase = PHASE_SELECT
  /\ \E n \in 0..(SegmentCount - 1) : ix = selectSegment(n)

RevealMove(ix) ==
  /\ record.phase = PHASE_REVEAL
  /\ ix = RoundReveal([choice |-> 0, fixpoint |-> LastRound])

DescendMove(ix) ==
  /\ record.phase = PHASE_DESCEND
  /\ \E n \in 0..(Width - 1) : ix = RoundDescend([choice |-> n, fixpoint |-> LastRound])

SummaryRevealMove(ix) ==
  record.phase = PHASE_SUMMARY_REVEAL /\ ix = summaryReveal(Width)

SummarySelectMove(ix) ==
  /\ record.phase = PHASE_SUMMARY_DESCEND
  /\ \E n \in 0..(Width - 1) : ix = summarySelect(byte(n))

AnswerMove(ix) ==
  /\ record.phase = PHASE_SUMMARY_ANSWER
  /\ \E n \in (0..(SummarySlots - 1)) \ record.answered : ix = summaryAnswer("anyone", n)

TableMove(ix) ==
  /\ record.phase \in {PHASE_RESPOND, PHASE_SEALED}
  /\ record.table < FamilyCount
  /\ ix = revealFamilyTable("anyone", record.table, 1)

TimeoutMove(ix) == record.phase \in LivePhases /\ ~ InTime /\ ix = timeout
SettleMove(ix) == record.phase = PHASE_RULED /\ ix = Settlement
CloseMove(ix) == record.phase = PHASE_RULED /\ response # "absent" /\ ix = closeResponse
OpeningMove(ix) == ~ opened /\ slot <= DisputeDeadline /\ RoundFits /\ ix \in Openings

AnswerMoves(ix) ==
  \/ ChunkMove(ix) \/ SegmentMove(ix) \/ RevealMove(ix) \/ DescendMove(ix)
  \/ SummaryRevealMove(ix) \/ SummarySelectMove(ix) \/ AnswerMove(ix) \/ TableMove(ix)

LEMMA AnswerKinds ==
  ASSUME NEW ix \in Answers PROVE AnswerMoves(ix)
BY DEF Answers, AnswerMoves, ChunkMove, SegmentMove, RevealMove, DescendMove,
       SummaryRevealMove, SummarySelectMove, AnswerMove, TableMove

LEMMA MoveKinds ==
  ASSUME ChallengeInv, NEW ix \in Moves
  PROVE  \/ InTime /\ RoundFits /\ AnswerMoves(ix)
         \/ TimeoutMove(ix) \/ SettleMove(ix) \/ CloseMove(ix) \/ OpeningMove(ix)
BY AnswerKinds
DEF Moves, TimeoutMove, SettleMove, Settlement, CloseMove, OpeningMove

\* No decision of a handler needs an account that the expected instruction does not
\* mark writable: no party loses its turn because of how the SDK builds its answer.
THEOREM MovesDeclareTheirWrites ==
  ASSUME ChallengeInv, NEW ix \in Moves, Handle(ix)
  PROVE  Touched \subseteq WritableOf(ix)
<1>1. CASE ChunkMove(ix)
  BY <1>1, ChunkInstruction, HandlerTouches DEF ChunkMove
<1>2. CASE SegmentMove(ix)
  BY <1>2, SegmentInstruction, HandlerTouches DEF SegmentMove
<1>3. CASE RevealMove(ix) \/ DescendMove(ix)
  <2>1. RoundMove(ix)
    BY <1>3 DEF RevealMove, DescendMove, RoundMove
  <2>2. ix.tag \in {168, 169}
    <3>1. CASE RevealMove(ix)
      BY <3>1, RoundData DEF RevealMove
    <3>2. CASE DescendMove(ix)
      <4>1. PICK n \in 0..(Width - 1) :
              ix = RoundDescend([choice |-> n, fixpoint |-> LastRound])
        BY <3>2 DEF DescendMove
      <4>2. n \in Nat
        BY ChallengeAssumption
      <4> QED
        BY <4>1, <4>2, RoundData
    <3> QED
      BY <1>3, <3>1, <3>2
  <2> QED
    BY <2>1, <2>2, RoundInstruction, HandlerTouches
<1>4. CASE SummaryRevealMove(ix) \/ SummarySelectMove(ix)
  BY <1>4, SummaryInstructions, HandlerTouches DEF SummaryRevealMove, SummarySelectMove
<1>5. CASE AnswerMove(ix)
  BY <1>5, AnswerInstruction, HandlerTouches DEF AnswerMove
<1>6. CASE TableMove(ix)
  BY <1>6, TableInstruction, HandlerTouches DEF TableMove
<1>7. CASE TimeoutMove(ix)
  BY <1>7, TimeoutInstruction, HandlerTouches DEF TimeoutMove
<1>8. CASE SettleMove(ix)
  BY <1>8, SettleInstruction, HandlerTouches DEF SettleMove
<1>9. CASE CloseMove(ix)
  BY <1>9, CloseResponseInstruction, HandlerTouches DEF CloseMove
<1>10. CASE OpeningMove(ix)
  BY <1>10, OpeningInstruction, HandlerTouches DEF OpeningMove
<1> QED
  BY MoveKinds, <1>1, <1>2, <1>3, <1>4, <1>5, <1>6, <1>7, <1>8, <1>9, <1>10 DEF AnswerMoves

LEMMA TurnIsTaken ==
  ASSUME NEW rec, RoundFits, vars' = AfterTurn(rec)
  PROVE  Turn(rec)
BY DEF AfterTurn, Turn, vars

LEMMA TurnStays ==
  ASSUME NEW rec, vars' = AfterStay(rec)
  PROVE  Stay(rec)
BY DEF AfterStay, Stay, vars

LEMMA RulingIsMade ==
  ASSUME NEW winner, NEW cause, vars' = AfterRuling(winner, cause)
  PROVE  Rule(winner, cause)
BY DEF AfterRuling, Rule, vars

LEMMA AtMostLeast ==
  ASSUME NEW a \in Int, NEW b \in Int, NEW count \in 1..Least({a, b})
  PROVE  count \in Nat \ {0} /\ count <= a /\ count <= b
<1>1. \E n \in {a, b} : \A other \in {a, b} : n <= other
  OBVIOUS
<1>2. Least({a, b}) \in {a, b} /\ \A other \in {a, b} : Least({a, b}) <= other
  BY <1>1 DEF Least
<1> QED
  BY <1>2

LEMMA ByteFits ==
  ASSUME NEW n \in 0..(Width - 1)
  PROVE  byte(n) < Width
BY ChallengeAssumption DEF byte

\* Tag by tag, where an instruction can lead.
LEMMA AfterTag ==
  ASSUME NEW ix
  PROVE  /\ ix.tag \in {166, 167, 171} => After(ix) = AfterOpening(ix)
         /\ ix.tag = 163 => After(ix) = AfterChunk(ix)
         /\ ix.tag = 164 => After(ix) = AfterSelection
         /\ ix.tag = 168 => After(ix) = AfterTurn(Enter(record, PHASE_DESCEND))
         /\ ix.tag = 169 => After(ix) = AfterDescent(ix)
         /\ ix.tag = 179 => After(ix) = AfterTurn(Enter(record, PHASE_SUMMARY_DESCEND))
         /\ ix.tag = 180 => After(ix) = AfterSummarySelection
         /\ ix.tag = 181 => After(ix) = AfterAnswer(ix)
         /\ ix.tag = 173 => After(ix) = AfterTable(ix)
         /\ ix.tag = 132 => After(ix) = AfterTimeout
         /\ ix.tag = 182 => After(ix) = AfterClose
         /\ ix.tag = 131 => After(ix) = AfterSettlement
BY DEF After

\* A chunk that starts where the last one ended.
LEMMA ChunkIsAccepted ==
  ASSUME ChallengeInv, InTime, RoundFits, NEW ix, ChunkMove(ix), vars' = After(ix)
  PROVE  RevealChunk(ix)
<1>1. PICK count \in 1..Least({MaxChunk, SegmentCount - record.staged}) :
        ix = revealPosition(record.staged, Chunk(record.staged, count))
  BY DEF ChunkMove
<1>2. /\ record.phase = PHASE_POSITION_REVEAL
      /\ record.staged \in Nat
      /\ SegmentCount \in Nat /\ MaxChunk \in Nat
  BY ChallengeAssumption DEF ChunkMove, ChallengeInv, GoodRecord
<1>3. count \in Nat \ {0} /\ count <= SegmentCount - record.staged
  BY <1>2, AtMostLeast
<1>4. ix.tag = 163 /\ ix.data = <<record.staged, Chunk(record.staged, count)>>
  BY <1>1, ChunkInstruction
<1>5. Len(ix.data[2]) = count
  BY <1>3, <1>4, ChunkLength
<1> DEFINE staged == ix.data[1] + Len(ix.data[2])
           verified == IF staged = SegmentCount THEN 1 ELSE 0
           next == Write176([record EXCEPT !.staged = staged], staged, SegmentCount, verified)
<1>6. staged <= SegmentCount
  BY <1>2, <1>3, <1>4, <1>5
<1>7. vars' = IF staged = SegmentCount THEN AfterTurn(Enter(next, PHASE_SELECT))
                                       ELSE AfterStay(next)
  BY <1>4, AfterTag DEF AfterChunk
<1>8. IF verified = 1 THEN Turn(Enter(next, PHASE_SELECT)) ELSE Stay(next)
  <2> HIDE DEF next, staged
  <2>1. CASE staged = SegmentCount
    BY <1>7, <2>1, TurnIsTaken
  <2>2. CASE staged # SegmentCount
    BY <1>7, <2>2, TurnStays
  <2> QED
    BY <2>1, <2>2
<1>9. ix.data[1] = record.staged /\ ix.data[2] = Chunk(ix.data[1], Len(ix.data[2]))
  BY <1>4, <1>5
<1> HIDE DEF staged, next, verified
<1>10. RevealChunk(ix) =
        (/\ ix.tag = 163
         /\ record.phase = PHASE_POSITION_REVEAL
         /\ InTime
         /\ ix.data[1] = record.staged
         /\ staged <= SegmentCount
         /\ ix.data[2] = Chunk(ix.data[1], Len(ix.data[2]))
         /\ IF verified = 1 THEN Turn(Enter(next, PHASE_SELECT)) ELSE Stay(next))
  BY DEF RevealChunk, staged, next, verified
<1> QED
  BY <1>2, <1>4, <1>6, <1>8, <1>9, <1>10

\* A choice among the segments.
LEMMA SegmentIsAccepted ==
  ASSUME InTime, RoundFits, NEW ix, SegmentMove(ix), vars' = After(ix)
  PROVE  Select(ix)
<1> DEFINE rec == Write176([Enter(record, PHASE_REVEAL) EXCEPT !.staged = 0, !.level = Depth],
                           0, 0, 0)
<1>1. PICK n \in 0..(SegmentCount - 1) : ix = selectSegment(n)
  BY DEF SegmentMove
<1>2. ix.tag = 164 /\ ix.data = <<n>>
  BY <1>1, SegmentInstruction
<1>3. vars' = AfterTurn(rec)
  BY <1>2, AfterTag DEF AfterSelection
<1>4. Turn(rec)
  <2> HIDE DEF rec
  <2> QED
    BY <1>3, TurnIsTaken
<1>5. ix.data[1] < SegmentCount
  BY <1>2, ChallengeAssumption
<1> QED
  BY <1>2, <1>4, <1>5 DEF Select, SegmentMove

\* A round of a descent.
LEMMA RevealIsAccepted ==
  ASSUME InTime, RoundFits, NEW ix, RevealMove(ix), vars' = After(ix)
  PROVE  Reveal(ix)
<1>1. ix.tag = 168 /\ ix.data = <<Width>>
  BY RoundData DEF RevealMove
<1>2. vars' = AfterTurn(Enter(record, PHASE_DESCEND))
  BY <1>1, AfterTag
<1>3. Turn(Enter(record, PHASE_DESCEND))
  BY <1>2, TurnIsTaken
<1> QED
  BY <1>1, <1>3 DEF Reveal, RevealMove

LEMMA DescendIsAccepted ==
  ASSUME InTime, RoundFits, NEW ix, DescendMove(ix), vars' = After(ix)
  PROVE  Descend(ix)
<1> DEFINE entry == record.entry * Width + ix.data[1]
           last == Fixed([record EXCEPT !.level = 0], entry)
           next == [Enter(record, PHASE_REVEAL) EXCEPT !.level = @ - 1, !.entry = entry]
<1>1. PICK n \in 0..(Width - 1) : ix = RoundDescend([choice |-> n, fixpoint |-> LastRound])
  BY DEF DescendMove
<1>2. n \in Nat
  BY ChallengeAssumption
<1>3. ix.tag = 169 /\ ix.data = <<byte(n)>>
  BY <1>1, <1>2, RoundData
<1>4. ix.data[1] < Width
  BY <1>3, ByteFits
<1>5. RoundMove(ix)
  BY DEF DescendMove, RoundMove
<1>6. LastRound => FixpointGiven(ix)
  BY <1>5, RoundInstruction
<1>7. vars' = IF LastRound THEN AfterTurn(last) ELSE AfterTurn(next)
  BY <1>3, AfterTag DEF AfterDescent
<1>8. IF LastRound THEN Turn(last) ELSE Turn(next)
  <2> HIDE DEF last, next
  <2> QED
    BY <1>7, TurnIsTaken
<1> QED
  BY <1>3, <1>4, <1>6, <1>8 DEF Descend, DescendMove

\* The same along the summary path.
LEMMA SummaryRevealIsAccepted ==
  ASSUME InTime, RoundFits, NEW ix, SummaryRevealMove(ix), vars' = After(ix)
  PROVE  RevealSummary(ix)
<1>1. ix.tag = 179 /\ ix.data = <<Width>>
  BY DEF SummaryRevealMove, summaryReveal, instruction
<1>2. vars' = AfterTurn(Enter(record, PHASE_SUMMARY_DESCEND))
  BY <1>1, AfterTag
<1>3. Turn(Enter(record, PHASE_SUMMARY_DESCEND))
  BY <1>2, TurnIsTaken
<1> QED
  BY <1>1, <1>3 DEF RevealSummary, SummaryRevealMove

LEMMA SummarySelectIsAccepted ==
  ASSUME InTime, RoundFits, NEW ix, SummarySelectMove(ix), vars' = After(ix)
  PROVE  SelectSummary(ix)
<1> DEFINE last == [Enter(record, PHASE_SUMMARY_ANSWER) EXCEPT !.level = 0]
           next == [Enter(record, PHASE_SUMMARY_REVEAL) EXCEPT !.level = @ - 1]
<1>1. PICK n \in 0..(Width - 1) : ix = summarySelect(byte(n))
  BY DEF SummarySelectMove
<1>2. ix.tag = 180 /\ ix.data = <<byte(n)>>
  BY <1>1 DEF summarySelect, instruction
<1>3. ix.data[1] < Width
  BY <1>2, ByteFits
<1>4. vars' = IF LastRound THEN AfterTurn(last) ELSE AfterTurn(next)
  BY <1>2, AfterTag DEF AfterSummarySelection
<1>5. IF LastRound THEN Turn(last) ELSE Turn(next)
  <2> HIDE DEF last, next
  <2> QED
    BY <1>4, TurnIsTaken
<1> QED
  BY <1>2, <1>3, <1>5 DEF SelectSummary, SummarySelectMove

LEMMA AnswerIsAccepted ==
  ASSUME InTime, NEW ix, AnswerMove(ix), vars' = After(ix)
  PROVE  AnswerSummary(ix)
<1> DEFINE answered == record.answered \cup {ix.data[1]}
           next == [record EXCEPT !.answered = answered]
<1>1. PICK n \in (0..(SummarySlots - 1)) \ record.answered : ix = summaryAnswer("anyone", n)
  BY DEF AnswerMove
<1>2. ix.tag = 181 /\ ix.data = <<n>>
  BY <1>1, AnswerInstruction
<1>3. vars' = IF Cardinality(answered) = SummarySlots
                THEN AfterRuling(WINNER_EXECUTOR, CAUSE_VERDICT) ELSE AfterStay(next)
  BY <1>2, AfterTag DEF AfterAnswer
<1>4. IF Cardinality(answered) = SummarySlots
        THEN Rule(WINNER_EXECUTOR, CAUSE_VERDICT) ELSE Stay(next)
  <2> HIDE DEF answered, next
  <2> QED
    BY <1>3, RulingIsMade, TurnStays
<1>5. ix.data[1] \in (0..(SummarySlots - 1)) \ record.answered
  BY <1>2
<1> QED
  BY <1>2, <1>4, <1>5 DEF AnswerSummary, AnswerMove

LEMMA TableIsAccepted ==
  ASSUME ChallengeInv, InTime, NEW ix, TableMove(ix), vars' = After(ix)
  PROVE  RevealTable(ix)
<1> DEFINE next == [record EXCEPT !.table = @ + ix.data[2]]
<1>1. record.table \in Nat /\ FamilyCount \in Nat
  BY ChallengeAssumption DEF ChallengeInv, GoodRecord
<1>2. ix.tag = 173 /\ ix.data = <<record.table, 1>>
  BY TableInstruction DEF TableMove
<1>3. vars' = AfterStay(next)
  BY <1>2, AfterTag DEF AfterTable
<1>4. Stay(next)
  <2> HIDE DEF next
  <2> QED
    BY <1>3, TurnStays
<1>5. ix.data[1] = record.table /\ record.table + ix.data[2] <= FamilyCount
  BY <1>1, <1>2 DEF TableMove
<1> QED
  BY <1>2, <1>4, <1>5 DEF RevealTable, TableMove

\* The ends: a timeout, a settlement, the response account, and an opening.
LEMMA TimeoutIsAccepted ==
  ASSUME ChallengeInv, NEW ix, TimeoutMove(ix), vars' = After(ix)
  PROVE  Timeout(ix)
<1>1. ix.tag = 132
  BY TimeoutInstruction DEF TimeoutMove
<1>2. slot > record.deadline
  BY DEF TimeoutMove, InTime, ChallengeInv
<1>3. vars' = AfterTimeout
  BY <1>1, AfterTag
<1>4. Rule(IF record.phase \in ChallengerPhases THEN WINNER_EXECUTOR ELSE WINNER_CHALLENGER,
           CAUSE_TIMEOUT)
  BY <1>3, RulingIsMade DEF AfterTimeout
<1> QED
  BY <1>1, <1>2, <1>4 DEF Timeout, TimeoutMove

LEMMA SettlementIsAccepted ==
  ASSUME NEW ix, SettleMove(ix), vars' = After(ix)
  PROVE  Settle(ix)
<1>1. /\ ix.tag = 131
      /\ Len(ix.accounts) = IF isZero(Terms.settlementProgram) THEN 7 ELSE 11
      /\ ix.accounts[3].account = record.winner
  BY SettleInstruction DEF SettleMove
<1>2. vars' = AfterSettlement
  BY <1>1, AfterTag
<1> QED
  BY <1>1, <1>2 DEF AfterSettlement, Settle, SettleMove, vars

LEMMA CloseIsAccepted ==
  ASSUME NEW ix, CloseMove(ix), vars' = After(ix)
  PROVE  CloseResponse(ix)
<1>1. ix.tag = 182
  BY CloseResponseInstruction DEF CloseMove
<1>2. vars' = AfterClose
  BY <1>1, AfterTag
<1> QED
  BY <1>1, <1>2 DEF AfterClose, CloseResponse, CloseMove, vars

LEMMA OpeningIsAccepted ==
  ASSUME NEW ix, OpeningMove(ix), vars' = After(ix)
  PROVE  Open(ix)
<1>1. ix \in Openings /\ ix.tag \in {166, 167, 171}
  BY OpeningInstruction DEF OpeningMove
<1>2. vars' = AfterOpening(ix)
  BY <1>1, AfterTag
<1>3. /\ slot' = slot /\ response' = response /\ turns' = turns /\ paid' = paid
      /\ record' = Opened(ix.tag)
      /\ document' = [document EXCEPT !.openChallenges = @ + 1]
      /\ opened' = TRUE
  BY <1>2 DEF AfterOpening, vars
<1> QED
  BY <1>1, <1>3 DEF Open, OpeningMove

\* The expected instruction, on time or late, can lead to After(ix): its handler's
\* guards hold there, whatever the number of segments, rounds and slots and wherever the
\* challenge stands.
THEOREM MovesSucceed ==
  ASSUME ChallengeInv, NEW ix \in Moves, vars' = After(ix)
  PROVE  Execute(ix)
<1>1. ASSUME InTime, RoundFits, AnswerMoves(ix) PROVE Handle(ix)
  <2>1. CASE ChunkMove(ix)
    BY <1>1, <2>1, ChunkIsAccepted DEF Handle
  <2>2. CASE SegmentMove(ix)
    BY <1>1, <2>2, SegmentIsAccepted DEF Handle
  <2>3. CASE RevealMove(ix)
    BY <1>1, <2>3, RevealIsAccepted DEF Handle
  <2>4. CASE DescendMove(ix)
    BY <1>1, <2>4, DescendIsAccepted DEF Handle
  <2>5. CASE SummaryRevealMove(ix)
    BY <1>1, <2>5, SummaryRevealIsAccepted DEF Handle
  <2>6. CASE SummarySelectMove(ix)
    BY <1>1, <2>6, SummarySelectIsAccepted DEF Handle
  <2>7. CASE AnswerMove(ix)
    BY <1>1, <2>7, AnswerIsAccepted DEF Handle
  <2>8. CASE TableMove(ix)
    BY <1>1, <2>8, TableIsAccepted DEF Handle
  <2> QED
    BY <1>1, <2>1, <2>2, <2>3, <2>4, <2>5, <2>6, <2>7, <2>8 DEF AnswerMoves
<1>2. TimeoutMove(ix) => Handle(ix)
  BY TimeoutIsAccepted DEF Handle
<1>3. SettleMove(ix) => Handle(ix)
  BY SettlementIsAccepted DEF Handle
<1>4. CloseMove(ix) => Handle(ix)
  BY CloseIsAccepted DEF Handle
<1>5. OpeningMove(ix) => Handle(ix)
  BY OpeningIsAccepted DEF Handle
<1>6. Handle(ix)
  BY <1>1, <1>2, <1>3, <1>4, <1>5, MoveKinds
<1> QED
  BY <1>6, MovesDeclareTheirWrites DEF Execute

-----------------------------------------------------------------------------
(* There is always something left to do                                    *)

\* The next turn has its own work before it.
LEMMA NextTurnHasWork ==
  ASSUME WorkIsLeft, record'.table = record.table, record'.answered = record.answered,
         record'.phase # PHASE_POSITION_REVEAL, record'.phase = PHASE_SEALED => record'.reads = 0
  PROVE  WorkIsLeft'
BY DEF WorkIsLeft

\* A ruling leaves none.
LEMMA RulingHasWork ==
  ASSUME WorkIsLeft, IsRecord(record), NEW winner, NEW cause, Rule(winner, cause)
  PROVE  WorkIsLeft'
<1>1. record' = Ruled(record, winner, cause)
  BY DEF Rule
<1>2. /\ record'.phase = PHASE_RULED
      /\ record'.table = record.table
      /\ record'.answered = record.answered
  BY <1>1, RuledFacts
<1> QED
  BY <1>2, NextTurnHasWork

LEMMA NoRecordHasWork ==
  /\ NoRecord.table = 0 /\ NoRecord.answered = {}
  /\ 0 \in 0..FamilyCount
  /\ {} # 0..(SummarySlots - 1)
<1>1. FamilyCount \in Nat \ {0} /\ SummarySlots \in Nat \ {0}
  BY ChallengeAssumption
<1>2. 0 \in 0..(SummarySlots - 1)
  BY <1>1
<1> QED
  BY <1>1, <1>2 DEF NoRecord

LEMMA OpeningHasWork ==
  ASSUME NEW ix, Open(ix) PROVE WorkIsLeft'
<1> DEFINE fixed == Fixed(NoRecord, 0)
           ruled == Ruled(fixed, WINNER_CHALLENGER, CAUSE_CONVICT)
           entered == Enter(NoRecord, PHASE_POSITION_REVEAL)
           staged == Write176(entered, 0, SegmentCount, 0)
           summary == Enter(NoRecord, PHASE_SUMMARY_REVEAL)
           first == WithLevel(summary, SummaryDepth)
<1>1. IsRecord(NoRecord) /\ NoRecord.staged = 0
  BY NoRecordIsRecord DEF NoRecordFacts, NoRecord
<1>2. /\ IsRecord(fixed)
      /\ fixed.phase = PHASE_RESPOND
      /\ fixed.table = NoRecord.table
      /\ fixed.answered = NoRecord.answered
  BY <1>1, FixedFacts
<1>3. /\ IsRecord(entered)
      /\ entered.phase = PHASE_POSITION_REVEAL
      /\ entered.staged = 0
      /\ entered.table = NoRecord.table
      /\ entered.answered = NoRecord.answered
  BY <1>1, EnterFacts
<1>4. /\ IsRecord(summary)
      /\ summary.phase = PHASE_SUMMARY_REVEAL
      /\ summary.table = NoRecord.table
      /\ summary.answered = NoRecord.answered
  BY <1>1, EnterFacts
<1>5. record' \in {fixed, ruled, staged, first}
  <2>1. ix.tag \in {166, 167, 171}
    BY DEF Open, Openings, challengeLeaf, challengePosition, challengeSummary, instruction
  <2> QED
    BY <2>1 DEF Open, Opened, WithLevel
<1> HIDE DEF fixed, entered, summary
<1>6. /\ ruled.phase = PHASE_RULED
      /\ ruled.table = NoRecord.table
      /\ ruled.answered = NoRecord.answered
  BY <1>2, RuledFacts
<1>7. /\ staged.phase = PHASE_POSITION_REVEAL
      /\ staged.staged = 0
      /\ staged.table = NoRecord.table
      /\ staged.answered = NoRecord.answered
  BY <1>3, WriteFacts
<1>8. /\ first.phase = PHASE_SUMMARY_REVEAL
      /\ first.table = NoRecord.table
      /\ first.answered = NoRecord.answered
  BY <1>4, LevelFacts
<1> HIDE DEF ruled, staged, first
<1>9. /\ record'.phase # PHASE_SEALED
      /\ record'.phase = PHASE_POSITION_REVEAL => record'.staged = 0
      /\ record'.table = NoRecord.table
      /\ record'.answered = NoRecord.answered
  BY <1>2, <1>5, <1>6, <1>7, <1>8
<1> QED
  BY <1>9, NoRecordHasWork, ChallengeAssumption DEF WorkIsLeft

\* A chunk that is not the last leaves segments to reveal.
LEMMA RevealChunkHasWork ==
  ASSUME ChallengeInv, WorkIsLeft, NEW ix \in Instructions, RevealChunk(ix) PROVE WorkIsLeft'
<1> DEFINE staged == ix.data[1] + Len(ix.data[2])
           verified == IF staged = SegmentCount THEN 1 ELSE 0
           moved == WithStaged(record, staged)
           next == Write176(moved, staged, SegmentCount, verified)
           entered == Enter(next, PHASE_SELECT)
<1>1. /\ record.phase = PHASE_POSITION_REVEAL
      /\ staged <= SegmentCount
      /\ IF verified = 1 THEN Turn(entered) ELSE Stay(next)
  BY DEF RevealChunk, WithStaged
<1>2. IsRecord(record)
  BY DEF ChallengeInv, GoodRecord
<1>3. staged \in Nat /\ SegmentCount \in Nat
  <2>1. ix.tag = 163
    BY DEF RevealChunk
  <2>2. ix.data[1] \in Nat /\ Len(ix.data[2]) \in Nat
    BY <2>1, ChunksCarryRoots
  <2> QED
    BY <2>2, ChallengeAssumption
<1> HIDE DEF staged
<1>4. /\ IsRecord(moved)
      /\ moved.phase = PHASE_POSITION_REVEAL
      /\ moved.staged = staged
      /\ moved.table = record.table
      /\ moved.answered = record.answered
  BY <1>1, <1>2, StagedFacts
<1> HIDE DEF moved, verified
<1>5. /\ IsRecord(next)
      /\ next.phase = PHASE_POSITION_REVEAL
      /\ next.staged = staged
      /\ next.table = record.table
      /\ next.answered = record.answered
  BY <1>4, WriteFacts
<1> HIDE DEF next
<1>6. /\ entered.phase = PHASE_SELECT
      /\ entered.table = record.table
      /\ entered.answered = record.answered
  BY <1>5, EnterFacts
<1> HIDE DEF entered
<1>7. CASE verified = 1
  <2>1. record' = entered
    BY <1>1, <1>7 DEF Turn
  <2> QED
    BY <1>6, <2>1, NextTurnHasWork
<1>8. CASE verified # 1
  <2>1. record' = next /\ staged < SegmentCount
    BY <1>1, <1>3, <1>8 DEF Stay, verified
  <2> QED
    BY <1>5, <2>1 DEF WorkIsLeft
<1> QED
  BY <1>7, <1>8

LEMMA SelectHasWork ==
  ASSUME ChallengeInv, WorkIsLeft, NEW ix, Select(ix) PROVE WorkIsLeft'
<1> DEFINE entered == Enter(record, PHASE_REVEAL)
           moved == WithDescent(entered, 0, Depth)
           next == Write176(moved, 0, 0, 0)
<1>1. record' = next
  BY DEF Select, Turn, WithDescent
<1>2. IsRecord(record)
  BY DEF ChallengeInv, GoodRecord
<1>3. /\ IsRecord(entered)
      /\ entered.phase = PHASE_REVEAL
      /\ entered.table = record.table
      /\ entered.answered = record.answered
  BY <1>2, EnterFacts
<1> HIDE DEF entered
<1>4. /\ IsRecord(moved)
      /\ moved.phase = PHASE_REVEAL
      /\ moved.table = record.table
      /\ moved.answered = record.answered
  BY <1>3, DescentFacts
<1> HIDE DEF moved
<1>5. /\ next.phase = PHASE_REVEAL
      /\ next.table = record.table
      /\ next.answered = record.answered
  BY <1>4, WriteFacts
<1> HIDE DEF next
<1> QED
  BY <1>1, <1>5, NextTurnHasWork

\* A phase begins, as it is or at another level.
LEMMA PhaseHasWork ==
  ASSUME WorkIsLeft, IsRecord(record),
         NEW phase \in LivePhases \ {PHASE_POSITION_REVEAL, PHASE_SEALED},
         \/ record' = Enter(record, phase)
         \/ \E level : record' = WithLevel(Enter(record, phase), level)
         \/ \E level, entry : record' = WithRound(Enter(record, phase), level, entry)
  PROVE  WorkIsLeft'
<1> DEFINE entered == Enter(record, phase)
<1>1. /\ IsRecord(entered)
      /\ entered.phase = phase
      /\ entered.table = record.table
      /\ entered.answered = record.answered
  BY EnterFacts
<1>2. \/ record' = entered
      \/ \E level : record' = WithLevel(entered, level)
      \/ \E level, entry : record' = WithRound(entered, level, entry)
  OBVIOUS
<1> HIDE DEF entered
<1>3. /\ record'.phase = phase
      /\ record'.table = record.table
      /\ record'.answered = record.answered
  <2>1. CASE record' = entered
    BY <1>1, <2>1
  <2>2. ASSUME NEW level, record' = WithLevel(entered, level)
        PROVE  record'.phase = phase /\ record'.table = record.table
               /\ record'.answered = record.answered
    BY <1>1, <2>2, LevelFacts
  <2>3. ASSUME NEW level, NEW entry, record' = WithRound(entered, level, entry)
        PROVE  record'.phase = phase /\ record'.table = record.table
               /\ record'.answered = record.answered
    BY <1>1, <2>3, RoundFacts
  <2> QED
    BY <1>2, <2>1, <2>2, <2>3
<1> QED
  BY <1>3, NextTurnHasWork

LEMMA RevealHasWork ==
  ASSUME ChallengeInv, WorkIsLeft, NEW ix, Reveal(ix) PROVE WorkIsLeft'
<1>1. IsRecord(record)
  BY DEF ChallengeInv, GoodRecord
<1>2. CASE record' = Enter(record, PHASE_DESCEND)
  BY <1>1, <1>2, PhaseHasWork
<1>3. CASE Rule(WINNER_CHALLENGER, CAUSE_CONVICT)
  BY <1>1, <1>3, RulingHasWork
<1> QED
  BY <1>2, <1>3 DEF Reveal, Turn

LEMMA DescendHasWork ==
  ASSUME ChallengeInv, WorkIsLeft, NEW ix, Descend(ix) PROVE WorkIsLeft'
<1> DEFINE entry == record.entry * Width + ix.data[1]
           bottom == WithLevel(record, 0)
           fixed == Fixed(bottom, entry)
           entered == Enter(record, PHASE_REVEAL)
<1>1. \/ record' = fixed
      \/ Rule(WINNER_CHALLENGER, CAUSE_CONVICT)
      \/ record' = WithRound(entered, entered.level - 1, entry)
  BY DEF Descend, Turn, WithLevel, WithRound
<1>2. IsRecord(record)
  BY DEF ChallengeInv, GoodRecord
<1>3. CASE record' = fixed
  <2>1. /\ IsRecord(bottom)
        /\ bottom.table = record.table
        /\ bottom.answered = record.answered
    BY <1>2, LevelFacts
  <2> HIDE DEF bottom, entry
  <2>2. /\ fixed.phase = PHASE_RESPOND
        /\ fixed.table = record.table
        /\ fixed.answered = record.answered
    BY <2>1, FixedFacts
  <2> HIDE DEF fixed
  <2> QED
    BY <1>3, <2>2, NextTurnHasWork
<1>4. CASE Rule(WINNER_CHALLENGER, CAUSE_CONVICT)
  BY <1>2, <1>4, RulingHasWork
<1>5. CASE record' = WithRound(entered, entered.level - 1, entry)
  <2>1. \E level, e : record' = WithRound(Enter(record, PHASE_REVEAL), level, e)
    BY <1>5
  <2> QED
    BY <1>2, <2>1, PhaseHasWork
<1> QED
  BY <1>1, <1>3, <1>4, <1>5

LEMMA SelectSummaryHasWork ==
  ASSUME ChallengeInv, WorkIsLeft, NEW ix, SelectSummary(ix) PROVE WorkIsLeft'
<1>1. IsRecord(record)
  BY DEF ChallengeInv, GoodRecord
<1>2. \E phase \in {PHASE_SUMMARY_ANSWER, PHASE_SUMMARY_REVEAL} :
        \E level : record' = WithLevel(Enter(record, phase), level)
  BY DEF SelectSummary, Turn, WithLevel
<1> QED
  BY <1>1, <1>2, PhaseHasWork

\* A slot answered that is not the last leaves one to answer.
LEMMA AnswerSummaryHasWork ==
  ASSUME ChallengeInv, WorkIsLeft, NEW ix, AnswerSummary(ix) PROVE WorkIsLeft'
<1> DEFINE answered == record.answered \cup {ix.data[1]}
           next == WithAnswered(record, answered)
<1>1. /\ record.phase = PHASE_SUMMARY_ANSWER
      /\ ix.data[1] \in 0..(SummarySlots - 1)
      /\ \/ \E winner \in {WINNER_EXECUTOR, WINNER_CHALLENGER} : Rule(winner, CAUSE_VERDICT)
         \/ Cardinality(answered) # SummarySlots /\ record' = next
  BY DEF AnswerSummary, Stay, WithAnswered
<1>2. IsRecord(record)
  BY DEF ChallengeInv, GoodRecord
<1>3. answered \subseteq 0..(SummarySlots - 1)
  BY <1>1 DEF WorkIsLeft
<1>4. Cardinality(0..(SummarySlots - 1)) = SummarySlots
  <2>1. SummarySlots \in Nat \ {0} /\ 0 \in Int /\ SummarySlots - 1 \in Int
    BY ChallengeAssumption
  <2>2. Cardinality(0..(SummarySlots - 1)) =
          IF 0 > SummarySlots - 1 THEN 0 ELSE SummarySlots - 1 - 0 + 1
    BY <2>1, FS_Interval
  <2> QED
    BY <2>1, <2>2
<1>5. CASE \E winner \in {WINNER_EXECUTOR, WINNER_CHALLENGER} : Rule(winner, CAUSE_VERDICT)
  BY <1>2, <1>5, RulingHasWork
<1>6. CASE Cardinality(answered) # SummarySlots /\ record' = next
  <2>1. answered # 0..(SummarySlots - 1)
    BY <1>4, <1>6
  <2> HIDE DEF answered
  <2>2. /\ next.phase = PHASE_SUMMARY_ANSWER
        /\ next.table = record.table
        /\ next.answered = answered
    BY <1>1, <1>2, AnsweredFacts
  <2> HIDE DEF next
  <2> QED
    BY <1>3, <1>6, <2>1, <2>2 DEF WorkIsLeft
<1> QED
  BY <1>1, <1>5, <1>6

\* A family table is not revealed beyond its end.
LEMMA RevealTableHasWork ==
  ASSUME ChallengeInv, WorkIsLeft, NEW ix \in Instructions, RevealTable(ix) PROVE WorkIsLeft'
<1> DEFINE table == record.table + ix.data[2]
           next == WithTable(record, table)
<1>1. record' = next /\ table <= FamilyCount
  BY DEF RevealTable, Stay, WithTable
<1>2. IsRecord(record)
  BY DEF ChallengeInv, GoodRecord
<1>3. table \in 0..FamilyCount
  <2>1. ix.data[2] = 1
    BY TablesCountRoots DEF RevealTable
  <2>2. record.table \in Nat /\ FamilyCount \in Nat
    BY ChallengeAssumption DEF WorkIsLeft
  <2> QED
    BY <1>1, <2>1, <2>2
<1> HIDE DEF table
<1>4. /\ next.phase = record.phase
      /\ next.staged = record.staged
      /\ next.reads = record.reads
      /\ next.table = table
      /\ next.answered = record.answered
  BY <1>2, TableFacts
<1> HIDE DEF next
<1> QED
  BY <1>1, <1>3, <1>4 DEF WorkIsLeft

LEMMA VerifyTargetHasWork ==
  ASSUME ChallengeInv, WorkIsLeft, VerifyTarget PROVE WorkIsLeft'
<1> DEFINE entered == Enter(record, PHASE_SEALED)
           next == Write176(entered, 1, 0, 0)
<1>1. record' = next /\ record.phase = PHASE_RESPOND
  BY DEF VerifyTarget, Turn
<1>2. IsRecord(record) /\ record.reads = 0
  BY <1>1 DEF ChallengeInv, GoodRecord
<1>3. /\ IsRecord(entered)
      /\ entered.phase = PHASE_SEALED
      /\ entered.reads = 0
      /\ entered.table = record.table
      /\ entered.answered = record.answered
  BY <1>2, EnterFacts
<1> HIDE DEF entered
<1>4. /\ next.phase = PHASE_SEALED
      /\ next.reads = 0
      /\ next.table = record.table
      /\ next.answered = record.answered
  BY <1>3, WriteFacts
<1> HIDE DEF next
<1> QED
  BY <1>1, <1>4, NextTurnHasWork

LEMMA VerifyReadsHasWork ==
  ASSUME ChallengeInv, WorkIsLeft, VerifyReads PROVE WorkIsLeft'
<1> DEFINE verified == WithReads(record, 1)
           next == Write176(verified, 1, 1, 1)
<1>1. record' = next /\ record.phase = PHASE_SEALED
  BY DEF VerifyReads, Stay, WithReads
<1>2. IsRecord(record)
  BY DEF ChallengeInv, GoodRecord
<1>3. /\ IsRecord(verified)
      /\ verified.phase = PHASE_SEALED
      /\ verified.reads = 1
      /\ verified.table = record.table
      /\ verified.answered = record.answered
  BY <1>1, <1>2, ReadsFacts
<1> HIDE DEF verified
<1>4. /\ next.phase = PHASE_SEALED
      /\ next.reads = 1
      /\ next.table = record.table
      /\ next.answered = record.answered
  BY <1>3, WriteFacts
<1> HIDE DEF next
<1> QED
  BY <1>1, <1>4 DEF WorkIsLeft

LEMMA WorkStep == ChallengeInv /\ WorkIsLeft /\ [Next]_vars => WorkIsLeft'
<1> SUFFICES ASSUME ChallengeInv, WorkIsLeft, [Next]_vars PROVE WorkIsLeft'
  OBVIOUS
<1>1. IsRecord(record)
  BY DEF ChallengeInv, GoodRecord
<1>2. ASSUME NEW ix \in Instructions, Handle(ix) PROVE WorkIsLeft'
  <2>1. CASE Open(ix)
    BY <2>1, OpeningHasWork
  <2>2. CASE RevealChunk(ix)
    BY <2>2, RevealChunkHasWork
  <2>3. CASE Select(ix)
    BY <2>3, SelectHasWork
  <2>4. CASE Reveal(ix)
    BY <2>4, RevealHasWork
  <2>5. CASE Descend(ix)
    BY <2>5, DescendHasWork
  <2>6. CASE RevealSummary(ix)
    <3>1. record' = Enter(record, PHASE_SUMMARY_DESCEND)
      BY <2>6 DEF RevealSummary, Turn
    <3> QED
      BY <1>1, <3>1, PhaseHasWork
  <2>7. CASE SelectSummary(ix)
    BY <2>7, SelectSummaryHasWork
  <2>8. CASE AnswerSummary(ix)
    BY <2>8, AnswerSummaryHasWork
  <2>9. CASE RevealTable(ix)
    BY <2>9, RevealTableHasWork
  <2>10. CASE Timeout(ix)
    BY <1>1, <2>10, RulingHasWork DEF Timeout
  <2>11. CASE CloseResponse(ix)
    BY <2>11 DEF CloseResponse, WorkIsLeft
  <2>12. CASE Settle(ix)
    <3>1. record' = NoRecord /\ NoRecord.phase = Closed
      BY <2>12 DEF Settle, NoRecord
    <3> QED
      BY <3>1, NoRecordHasWork DEF WorkIsLeft
  <2> QED
    BY <1>2, <2>1, <2>2, <2>3, <2>4, <2>5, <2>6, <2>7, <2>8, <2>9, <2>10, <2>11, <2>12
    DEF Handle
<1>3. CASE \E ix \in Instructions : Execute(ix)
  BY <1>2, <1>3 DEF Execute
<1>4. CASE VerifyTarget
  BY <1>4, VerifyTargetHasWork
<1>5. CASE VerifyReads
  BY <1>5, VerifyReadsHasWork
<1>6. CASE ExecuteReplay
  BY <1>1, <1>6, RulingHasWork DEF ExecuteReplay
<1>7. CASE SummaryLeaf
  <2>1. \E level : record' = WithLevel(Enter(record, PHASE_SUMMARY_ANSWER), level)
    BY <1>7 DEF SummaryLeaf, Turn, WithLevel
  <2> QED
    BY <1>1, <2>1, PhaseHasWork
<1>8. CASE StageResponse \/ Tick \/ UNCHANGED vars
  BY <1>8 DEF StageResponse, Tick, vars, WorkIsLeft
<1> QED
  BY <1>3, <1>4, <1>5, <1>6, <1>7, <1>8 DEF Next

\* As long as there is work left, the party in turn has a move: each phase in its turn.
LEMMA WorkIsPlayable == ChallengeInv /\ WorkIsLeft => TurnIsPlayable
<1> SUFFICES ASSUME ChallengeInv, WorkIsLeft, record.phase \in LivePhases, record.phase # PHASE_RESPOND
             PROVE  \/ Answers # {}
                    \/ /\ record.phase = PHASE_SEALED
                       /\ record.table = FamilyCount
                       /\ record.reads \in {0, 1}
  BY DEF TurnIsPlayable
<1>0. /\ SegmentCount \in Nat \ {0} /\ MaxChunk \in Nat \ {0}
      /\ Width \in Nat \ {0} /\ FamilyCount \in Nat \ {0}
  BY ChallengeAssumption
<1>1. CASE record.phase = PHASE_POSITION_REVEAL
  <2> DEFINE most == Least({MaxChunk, SegmentCount - record.staged})
             move(count) == revealPosition(record.staged, Chunk(record.staged, count))
  <2>1. Answers = {move(count) : count \in 1..most}
    BY <1>1 DEF Answers
  <2>2. record.staged \in Nat /\ record.staged < SegmentCount
    BY <1>1 DEF WorkIsLeft, ChallengeInv, GoodRecord
  <2>3. SegmentCount - record.staged \in Nat \ {0}
    BY <1>0, <2>2
  <2>4. most \in Nat \ {0}
    BY <1>0, <2>3, LeastOfTwo
  <2> HIDE DEF most, move
  <2>5. 1 \in 1..most
    BY <2>4
  <2> QED
    BY <2>1, <2>5
<1>2. CASE record.phase = PHASE_SELECT
  <2>1. 0 \in 0..(SegmentCount - 1)
    BY <1>0
  <2>2. Answers = {selectSegment(n) : n \in 0..(SegmentCount - 1)}
    BY <1>2 DEF Answers
  <2> QED
    BY <2>1, <2>2
<1>3. CASE record.phase = PHASE_REVEAL
  BY <1>3 DEF Answers
<1>4. CASE record.phase = PHASE_DESCEND
  <2>1. 0 \in 0..(Width - 1)
    BY <1>0
  <2>2. Answers = {RoundDescend([choice |-> n, fixpoint |-> LastRound]) : n \in 0..(Width - 1)}
    BY <1>4 DEF Answers
  <2> QED
    BY <2>1, <2>2
<1>5. CASE record.phase = PHASE_SUMMARY_REVEAL
  BY <1>5 DEF Answers
<1>6. CASE record.phase = PHASE_SUMMARY_DESCEND
  <2>1. 0 \in 0..(Width - 1)
    BY <1>0
  <2>2. Answers = {summarySelect(byte(n)) : n \in 0..(Width - 1)}
    BY <1>6 DEF Answers
  <2> QED
    BY <2>1, <2>2
<1>7. CASE record.phase = PHASE_SUMMARY_ANSWER
  <2>1. \E n : n \in (0..(SummarySlots - 1)) \ record.answered
    BY DEF WorkIsLeft
  <2>2. Answers = {summaryAnswer("anyone", n) : n \in (0..(SummarySlots - 1)) \ record.answered}
    BY <1>7 DEF Answers
  <2> QED
    BY <2>1, <2>2
<1>8. CASE record.phase = PHASE_SEALED
  <2>1. CASE record.table < FamilyCount
    <3>1. Answers = {revealFamilyTable("anyone", record.table, 1)}
      BY <1>8, <2>1 DEF Answers
    <3> QED
      BY <3>1
  <2>2. CASE record.table = FamilyCount
    BY <1>8, <2>2 DEF WorkIsLeft
  <2> QED
    BY <1>0, <2>1, <2>2 DEF WorkIsLeft
<1> QED
  BY <1>1, <1>2, <1>3, <1>4, <1>5, <1>6, <1>7, <1>8

LEMMA WorkInit == Init => WorkIsLeft
<1> SUFFICES ASSUME Init PROVE WorkIsLeft
  OBVIOUS
<1>1. record = NoRecord /\ NoRecord.phase = Closed
  BY DEF Init, NoRecord
<1> QED
  BY <1>1, NoRecordHasWork DEF WorkIsLeft

\* The party in turn always has a move, whatever was sent before, however often and in
\* whatever order: MovesSucceed never speaks of nothing.
THEOREM TurnsArePlayable == Spec => []TurnIsPlayable
<1>1. Init => WorkIsLeft
  BY WorkInit
<1>2. ChallengeInv /\ WorkIsLeft /\ [Next]_vars => WorkIsLeft'
  BY WorkStep
<1>3. ChallengeInv /\ WorkIsLeft => TurnIsPlayable
  BY WorkIsPlayable
<1> QED
  BY <1>1, <1>2, <1>3, ChallengeInductive, PTL DEF Spec
=============================================================================
