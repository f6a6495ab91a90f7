-------------------------- MODULE LifecycleProofs ---------------------------
(***************************************************************************)
(* Proofs that the properties of LifecycleProperties hold for every run    *)
(* terms, every number of positions and every set of challenge addresses.  *)
(*                                                                         *)
(* First what the records say of each other and of time.  Then the escrow: *)
(* for every pair of bonds, every share of the reward and every settlement *)
(* program, no interleaving strands, mints or loses a lamport, and an      *)
(* executor that lost no challenge has its bond back when its document is  *)
(* closed.  Last what one step may never do, and that the life implements  *)
(* the promise made to consumers in ResultPromise: every instruction maps  *)
(* to one step of the promise, or to none.                                 *)
(***************************************************************************)
EXTENDS LifecycleProperties, TLAPS, FiniteSetTheorems

-----------------------------------------------------------------------------
(* Facts about the constants and the helpers                               *)

\* The committed terms are natural numbers, with windows of at least one slot.
LEMMA TermsType ==
  /\ Terms.challengeWindowSlots \in Nat \ {0}
  /\ Terms.responseWindowSlots \in Nat \ {0}
  /\ Terms.challengerBondLamports \in Nat
  /\ Terms.executorBondLamports \in Nat
  /\ Terms.executorRewardBps \in Nat
  /\ Terms.customSettleWindowSlots \in 0..WINDOW_CAP
  /\ Terms.resultRetentionSlots \in Nat \ {0}
<1>1. Terms.customSettleWindowSlots \in 0..WINDOW_CAP
  BY TermsAssumption, LimitsAssumption DEF checkRunTerms, RunTermsBlocks
<1> QED
  BY <1>1, TermsAssumption, LimitsAssumption DEF checkRunTerms, RunTermsBlocks, BPS_DENOMINATOR

\* Products and quotients of natural numbers are natural numbers.
LEMMA ProductNat ==
  ASSUME NEW m \in Nat, NEW n \in Nat PROVE m * n \in Nat
  OBVIOUS

LEMMA QuotientNat ==
  ASSUME NEW m \in Nat PROVE m \div BPS_DENOMINATOR \in Nat
  BY DEF BPS_DENOMINATOR

\* The built-in division of the executor bond hands out whole lamports.
LEMMA BuiltInWhole ==
  /\ builtInSettlement(Terms).reward \in Nat
  /\ builtInSettlement(Terms).burn \in Int
  /\ builtInSettlement(Terms).reward + builtInSettlement(Terms).burn
       = Terms.executorBondLamports
<1>1. Terms.executorBondLamports \in Nat /\ Terms.executorRewardBps \in Nat
  BY TermsType
<1>2. Terms.executorBondLamports * Terms.executorRewardBps \in Nat
  BY <1>1, ProductNat
<1>3. (Terms.executorBondLamports * Terms.executorRewardBps) \div BPS_DENOMINATOR \in Nat
  BY <1>2, QuotientNat
<1> QED
  BY <1>1, <1>3 DEF builtInSettlement

\* Every route pays out the whole pot, in whole lamports.
LEMMA RouteDividesPot ==
  ASSUME NEW c \in ChallengeAddresses, NEW split \in Route(c)
  PROVE  /\ split.winner \in Int
         /\ split.loser \in Int
         /\ split.burned \in Int
         /\ split.winner + split.loser + split.burned = Terms.executorBondLamports
<1>1. CASE split \in BuiltInRoute
  BY <1>1, BuiltInWhole, TermsType DEF BuiltInRoute
<1>2. CASE split \in CustomRoute
  BY <1>2, TermsType DEF CustomRoute
<1> QED
  BY <1>1, <1>2 DEF Route

-----------------------------------------------------------------------------
(* The set of live challenge records                                       *)

\* There are finitely many live records.
LEMMA LiveFinite == IsFiniteSet(Live) /\ Cardinality(Live) \in Nat
<1>1. Live \subseteq ChallengeAddresses
  BY DEF Live
<1> QED
  BY <1>1, LifecycleAssumption, FS_Subset, FS_CardinalityType

\* A step that leaves every phase present or absent as it was keeps the count.
LEMMA LiveKept ==
  ASSUME TypeOK,
         NEW c \in ChallengeAddresses,
         challenges[c].phase # ABSENT,
         NEW record \in ChallengeRecords,
         record.phase # ABSENT,
         challenges' = [challenges EXCEPT ![c] = record]
  PROVE  Live' = Live
  BY DEF TypeOK, Live

\* Opening a challenge at an unused address adds one live record.
LEMMA LiveGrows ==
  ASSUME TypeOK,
         NEW c \in ChallengeAddresses,
         challenges[c].phase = ABSENT,
         NEW record \in ChallengeRecords,
         record.phase # ABSENT,
         challenges' = [challenges EXCEPT ![c] = record]
  PROVE  /\ Live' = Live \cup {c}
         /\ Cardinality(Live') = Cardinality(Live) + 1
<1>1. Live' = Live \cup {c} /\ c \notin Live
  BY DEF TypeOK, Live
<1> QED
  BY <1>1, LiveFinite, FS_AddElement

\* Closing a live record removes it.
LEMMA LiveShrinks ==
  ASSUME TypeOK,
         NEW c \in ChallengeAddresses,
         challenges[c].phase # ABSENT,
         challenges' = [challenges EXCEPT ![c] = NoRecord]
  PROVE  /\ Live' = Live \ {c}
         /\ Cardinality(Live') = Cardinality(Live) - 1
         /\ Cardinality(Live) >= 1
<1>1. c \in Live /\ Live' = Live \ {c}
  BY DEF TypeOK, Live, NoRecord
<1>2. Cardinality(Live \ {c}) = Cardinality(Live) - 1
  BY <1>1, LiveFinite, FS_RemoveElement
<1>3. Cardinality(Live \ {c}) \in Nat
  BY LiveFinite, FS_RemoveElement, FS_CardinalityType
<1> QED
  BY <1>1, <1>2, <1>3, LiveFinite
-----------------------------------------------------------------------------
(* Challenge records                                                       *)

\* The records that opening, answering and ruling write are well formed.
LEMMA RecordTypes ==
  ASSUME slot \in Slots
  PROVE  /\ NoRecord \in ChallengeRecords
         /\ RoundFits => OpenedRecord \in ChallengeRecords
         /\ \A winner \in {WINNER_EXECUTOR, WINNER_CHALLENGER} :
              RuledRecord(winner) \in ChallengeRecords
<1> USE LifecycleAssumption, LimitsAssumption, TermsType
<1>1. NoRecord \in ChallengeRecords
  BY DEF NoRecord, ChallengeRecords, Slots
<1>2. ASSUME RoundFits PROVE OpenedRecord \in ChallengeRecords
  <2>1. RoundDeadline \in Slots
    BY <1>2 DEF RoundFits, RoundDeadline, Slots
  <2> QED
    BY <1>1, <2>1 DEF OpenedRecord, ChallengeRecords
<1>3. ASSUME NEW winner \in {WINNER_EXECUTOR, WINNER_CHALLENGER}
      PROVE  RuledRecord(winner) \in ChallengeRecords
  <2>1. CustomDeadline \in Slots
    BY DEF CustomDeadline, Slots
  <2>2. 0 \in Slots
    BY DEF Slots
  <2> QED
    BY <2>1, <2>2 DEF RuledRecord, ChallengeRecords, Slots
<1> QED
  BY <1>1, <1>2, <1>3

\* So is the record of an answered turn, which stays live.
LEMMA AnsweredType ==
  ASSUME slot \in Slots, RoundFits,
         NEW record \in ChallengeRecords, record.rounds < MaxRounds,
         NEW turn \in {EXECUTOR_TURN, CHALLENGER_TURN}
  PROVE  /\ AnsweredRecord(record, turn) \in ChallengeRecords
         /\ AnsweredRecord(record, turn).phase # ABSENT
<1> USE LifecycleAssumption, LimitsAssumption, TermsType
<1>1. RoundDeadline \in Slots
  BY DEF RoundFits, RoundDeadline, Slots
<1>2. record.rounds + 1 \in 0..MaxRounds
  BY DEF ChallengeRecords
<1> QED
  BY <1>1, <1>2
  DEF AnsweredRecord, ChallengeRecords, ABSENT, EXECUTOR_TURN, CHALLENGER_TURN

\* A ruling keeps the header well formed and touches nothing else in it.
LEMMA MarkRulingType ==
  ASSUME NEW doc \in Documents, NEW winner
  PROVE  /\ MarkRuling(doc, winner) \in Documents
         /\ MarkRuling(doc, winner).openChallenges = doc.openChallenges
         /\ MarkRuling(doc, winner).account = doc.account
         /\ FLAG_FINAL \in MarkRuling(doc, winner).flags <=> FLAG_FINAL \in doc.flags
<1>1. CASE winner = WINNER_CHALLENGER
  <2> DEFINE marked == [doc EXCEPT !.flags = @ \cup {FLAG_REFUTED}, !.challengerWins = @ + 1]
  <2>1. MarkRuling(doc, winner) = marked
    BY <1>1 DEF MarkRuling
  <2>2. doc.flags \cup {FLAG_REFUTED} \in SUBSET {FLAG_FINAL, FLAG_REFUTED}
    BY DEF Documents
  <2>3. doc.challengerWins + 1 \in Nat
    BY DEF Documents
  <2>4. marked \in Documents
    BY <2>2, <2>3 DEF Documents
  <2>5. marked.openChallenges = doc.openChallenges /\ marked.account = doc.account
    BY DEF Documents
  <2>6. marked.flags = doc.flags \cup {FLAG_REFUTED}
    BY DEF Documents
  <2>7. FLAG_FINAL \in marked.flags <=> FLAG_FINAL \in doc.flags
    BY <2>6 DEF FLAG_FINAL, FLAG_REFUTED
  <2> QED
    BY <2>1, <2>4, <2>5, <2>7
<1>2. CASE winner # WINNER_CHALLENGER
  BY <1>2 DEF MarkRuling
<1> QED
  BY <1>1, <1>2

\* Neither does a count of one more open challenge.
LEMMA CountOpenType ==
  ASSUME NEW doc \in Documents
  PROVE  /\ CountOpen(doc) \in Documents
         /\ CountOpen(doc).openChallenges = doc.openChallenges + 1
         /\ CountOpen(doc).account = doc.account
         /\ CountOpen(doc).flags = doc.flags
BY DEF CountOpen, Documents

-----------------------------------------------------------------------------
(* Lamports                                                                *)

\* Every move of a bond leaves whole lamports on every side.
LEMMA PostedType ==
  ASSUME bank \in Banks, PostChallengerBond
  PROVE  bank' \in Banks
<1>1. /\ bank.records + Terms.challengerBondLamports \in Int
      /\ bank.challengers - Terms.challengerBondLamports \in Int
  BY TermsType DEF Banks
<1> QED
  BY <1>1 DEF PostChallengerBond, Banks

LEMMA ReturnedType ==
  ASSUME bank \in Banks, NEW winner
  PROVE  ReturnedBond(winner) \in Banks
<1>1. /\ bank.records - Terms.challengerBondLamports \in Int
      /\ bank.executor + Terms.challengerBondLamports \in Int
      /\ bank.challengers + Terms.challengerBondLamports \in Int
  BY TermsType DEF Banks
<1> QED
  BY <1>1 DEF ReturnedBond, Banks

LEMMA DividedType ==
  ASSUME NEW b \in Banks, NEW c \in ChallengeAddresses, NEW split \in Route(c)
  PROVE  DivideBond(b, split) \in Banks
<1>1. split.winner \in Int /\ split.loser \in Int /\ split.burned \in Int
  BY RouteDividesPot
<1>2. /\ b.document - Terms.executorBondLamports \in Int
      /\ b.challengers + split.winner \in Int
      /\ b.executor + split.loser \in Int
      /\ b.burned + split.burned \in Int
  BY <1>1, TermsType DEF Banks
<1> QED
  BY <1>2 DEF DivideBond, Banks

-----------------------------------------------------------------------------
(* Types and the counter of open challenges                                *)

LEMMA TypeInit == Init => TypeOK /\ OpenChallengesExact
<1> SUFFICES ASSUME Init PROVE TypeOK /\ OpenChallengesExact
  OBVIOUS
<1> USE LifecycleAssumption, LimitsAssumption DEF Init
<1>1. slot \in Slots /\ 0 \in Slots /\ 0 \in Roots /\ 0 \in 0..U64_MAX
  BY DEF Slots, Roots
<1>2. document \in Documents
  BY <1>1 DEF EmptyDocument, Documents
<1>3. result \in Results
  BY <1>1 DEF EmptyResult, Results, Statuses
<1>4. challenges \in [ChallengeAddresses -> ChallengeRecords]
  BY <1>1, RecordTypes
<1>5. bank \in Banks
  BY DEF Banks
<1>6. TypeOK
  BY <1>1, <1>2, <1>3, <1>4, <1>5 DEF TypeOK
<1>7. Live = {}
  BY DEF Live, NoRecord
<1>8. OpenChallengesExact
  BY <1>7, FS_EmptySet DEF OpenChallengesExact, EmptyDocument
<1> QED
  BY <1>6, <1>8

\* A document with no open challenge has no live record.
LEMMA NoneLive ==
  ASSUME OpenChallengesExact, document.openChallenges = 0 PROVE Live = {}
BY LiveFinite, FS_EmptySet DEF OpenChallengesExact

LEMMA OpenTypeStep ==
  ASSUME TypeOK, OpenChallengesExact,
         NEW c \in ChallengeAddresses, OpenChallenge(c) \/ OpenAndConvict(c)
  PROVE  TypeOK' /\ OpenChallengesExact'
<1> DEFINE record == IF OpenChallenge(c) THEN OpenedRecord ELSE RuledRecord(WINNER_CHALLENGER)
<1>1. record \in ChallengeRecords /\ record.phase # ABSENT
  <2>1. CASE OpenChallenge(c)
    BY <2>1, RecordTypes
    DEF TypeOK, OpenChallenge, OpenedRecord, NoRecord, ABSENT, EXECUTOR_TURN
  <2>2. CASE ~ OpenChallenge(c)
    BY <2>2, RecordTypes DEF TypeOK, RuledRecord, ABSENT, RULED
  <2> QED
    BY <2>1, <2>2
<1>2. challenges[c].phase = ABSENT /\ challenges' = [challenges EXCEPT ![c] = record]
  BY DEF OpenChallenge, OpenAndConvict, MayOpen, Rule
<1>3. document' = CountOpen(document)
        \/ document' = MarkRuling(CountOpen(document), WINNER_CHALLENGER)
  BY DEF OpenChallenge, OpenAndConvict
<1>4. /\ document' \in Documents
      /\ document'.openChallenges = document.openChallenges + 1
      /\ document'.account = document.account
      /\ Finalized' <=> Finalized
  BY <1>3, CountOpenType, MarkRulingType DEF TypeOK, Finalized
<1>5. bank' \in Banks
  BY PostedType DEF OpenChallenge, OpenAndConvict, TypeOK
<1>6. opened' \in 0..MaxOpens
  BY LifecycleAssumption DEF TypeOK, OpenChallenge, OpenAndConvict, MayOpen
<1>7. TypeOK'
  <2>1. challenges' \in [ChallengeAddresses -> ChallengeRecords]
    BY <1>1, <1>2 DEF TypeOK
  <2>2. slot' \in Slots /\ result' \in Results
    BY DEF OpenChallenge, OpenAndConvict, TypeOK
  <2> QED
    BY <1>4, <1>5, <1>6, <2>1, <2>2 DEF TypeOK
<1>8. OpenChallengesExact'
  <2>1. Cardinality(Live') = Cardinality(Live) + 1
    BY <1>1, <1>2, LiveGrows
  <2>2. document.account = "live" /\ Finalized
    BY DEF OpenChallenge, OpenAndConvict, MayOpen
  <2> QED
    BY <1>4, <2>1, <2>2 DEF OpenChallengesExact
<1> QED
  BY <1>7, <1>8

\* A turn answered, judged or timed out writes one well-formed live record.
LEMMA TurnStep ==
  ASSUME TypeOK, NEW c \in ChallengeAddresses,
         \/ Respond(c)
         \/ \E winner \in {WINNER_EXECUTOR, WINNER_CHALLENGER} : Verdict(c, winner)
         \/ Timeout(c)
  PROVE  /\ challenges[c].phase # ABSENT
         /\ \E record \in ChallengeRecords :
              /\ record.phase # ABSENT
              /\ challenges' = [challenges EXCEPT ![c] = record]
              /\ \/ record.phase # RULED /\ document' = document
                 \/ \E winner \in {WINNER_EXECUTOR, WINNER_CHALLENGER} :
                      /\ record = RuledRecord(winner)
                      /\ document' = MarkRuling(document, winner)
         /\ UNCHANGED <<slot, result, opened, bank>>
<1>1. CASE Respond(c)
  <2>1. challenges[c] \in ChallengeRecords
    BY DEF TypeOK
  <2>2. PICK turn \in {EXECUTOR_TURN, CHALLENGER_TURN} :
          challenges' = [challenges EXCEPT ![c] = AnsweredRecord(challenges[c], turn)]
    BY <1>1 DEF Respond
  <2>3. AnsweredRecord(challenges[c], turn) \in ChallengeRecords
          /\ AnsweredRecord(challenges[c], turn).phase # ABSENT
    BY <1>1, <2>1, <2>2, AnsweredType DEF Respond, TypeOK
  <2>4. challenges[c].phase # ABSENT
    BY <1>1 DEF Respond, ABSENT, EXECUTOR_TURN, CHALLENGER_TURN
  <2>5. AnsweredRecord(challenges[c], turn).phase # RULED
    BY <2>1, <2>2 DEF AnsweredRecord, ChallengeRecords, RULED, EXECUTOR_TURN, CHALLENGER_TURN
  <2> QED
    BY <1>1, <2>2, <2>3, <2>4, <2>5 DEF Respond
<1>2. ASSUME NEW winner \in {WINNER_EXECUTOR, WINNER_CHALLENGER},
             challenges[c].phase \in {EXECUTOR_TURN, CHALLENGER_TURN},
             Rule(c, winner),
             document' = MarkRuling(document, winner),
             UNCHANGED <<slot, result, opened, bank>>
      PROVE  /\ challenges[c].phase # ABSENT
             /\ \E record \in ChallengeRecords :
                  /\ record.phase # ABSENT
                  /\ challenges' = [challenges EXCEPT ![c] = record]
                  /\ record = RuledRecord(winner)
  <2>1. RuledRecord(winner) \in ChallengeRecords
    BY RecordTypes DEF TypeOK
  <2>2. RuledRecord(winner).phase # ABSENT
    BY DEF RuledRecord, RULED, ABSENT
  <2>3. challenges[c].phase # ABSENT
    BY <1>2 DEF ABSENT, EXECUTOR_TURN, CHALLENGER_TURN
  <2> QED
    BY <1>2, <2>1, <2>2, <2>3 DEF Rule
<1>3. CASE \E winner \in {WINNER_EXECUTOR, WINNER_CHALLENGER} : Verdict(c, winner)
  BY <1>2, <1>3 DEF Verdict
<1>4. CASE Timeout(c)
  <2> DEFINE winner == IF challenges[c].phase = EXECUTOR_TURN
                         THEN WINNER_CHALLENGER ELSE WINNER_EXECUTOR
  <2>1. winner \in {WINNER_EXECUTOR, WINNER_CHALLENGER}
    OBVIOUS
  <2>2. /\ challenges[c].phase \in {EXECUTOR_TURN, CHALLENGER_TURN}
        /\ Rule(c, winner)
        /\ document' = MarkRuling(document, winner)
        /\ UNCHANGED <<slot, result, opened, bank>>
    BY <1>4 DEF Timeout
  <2> HIDE DEF winner
  <2> QED
    BY <1>2, <2>1, <2>2
<1> QED
  BY <1>1, <1>3, <1>4

LEMMA TurnTypeStep ==
  ASSUME TypeOK, OpenChallengesExact, NEW c \in ChallengeAddresses,
         \/ Respond(c)
         \/ \E winner \in {WINNER_EXECUTOR, WINNER_CHALLENGER} : Verdict(c, winner)
         \/ Timeout(c)
  PROVE  TypeOK' /\ OpenChallengesExact'
<1>1. PICK record \in ChallengeRecords :
        record.phase # ABSENT /\ challenges' = [challenges EXCEPT ![c] = record]
  BY TurnStep
<1>2. /\ document' \in Documents
      /\ document'.openChallenges = document.openChallenges
      /\ document'.account = document.account
      /\ Finalized' <=> Finalized
  BY TurnStep, MarkRulingType DEF TypeOK, Finalized
<1>3. UNCHANGED <<slot, result, opened, bank>> /\ challenges[c].phase # ABSENT
  BY TurnStep
<1>4. TypeOK'
  BY <1>1, <1>2, <1>3 DEF TypeOK
<1>5. Live' = Live
  BY <1>1, <1>3, LiveKept
<1> QED
  BY <1>2, <1>4, <1>5 DEF OpenChallengesExact

\* Settling closes a live record, so the counter it lowers is not zero.
LEMMA SettleTypeStep ==
  ASSUME TypeOK, OpenChallengesExact, NEW c \in ChallengeAddresses, Settle(c)
  PROVE  TypeOK' /\ OpenChallengesExact'
<1>1. CloseRecord(c)
  BY DEF Settle, SettleWithPot, SettleWithoutPot
<1>2. challenges[c].phase # ABSENT /\ challenges' = [challenges EXCEPT ![c] = NoRecord]
  BY <1>1 DEF CloseRecord, RULED, ABSENT
<1>3. /\ Cardinality(Live') = Cardinality(Live) - 1
      /\ Cardinality(Live) >= 1
      /\ Live' \subseteq Live
  BY <1>2, LiveShrinks
<1>4. document.openChallenges = Cardinality(Live) /\ document.openChallenges - 1 \in Nat
  BY <1>3, LiveFinite DEF OpenChallengesExact
<1>5. /\ document' \in Documents
      /\ document'.openChallenges = document.openChallenges - 1
      /\ document'.account = document.account
      /\ document'.flags = document.flags
  <2>1. CASE SettleWithPot(c)
    BY <1>4, <2>1 DEF SettleWithPot, TypeOK, Documents
  <2>2. CASE SettleWithoutPot(c)
    BY <1>4, <2>2 DEF SettleWithoutPot, TypeOK, Documents
  <2> QED
    BY <2>1, <2>2 DEF Settle
<1>6. bank' \in Banks
  <2>1. CASE SettleWithPot(c)
    <3>1. PICK split \in Route(c) :
            bank' = DivideBond(ReturnedBond(WINNER_CHALLENGER), split)
      BY <2>1 DEF SettleWithPot
    <3> QED
      BY <3>1, ReturnedType, DividedType DEF TypeOK
  <2>2. CASE SettleWithoutPot(c)
    BY <2>2, ReturnedType DEF SettleWithoutPot, TypeOK
  <2> QED
    BY <2>1, <2>2 DEF Settle
<1>7. TypeOK'
  <2>1. challenges' \in [ChallengeAddresses -> ChallengeRecords]
    BY <1>2, RecordTypes DEF TypeOK
  <2>2. UNCHANGED <<slot, result, opened>>
    BY <1>1 DEF CloseRecord
  <2> QED
    BY <1>5, <1>6, <2>1, <2>2 DEF TypeOK
<1>8. OpenChallengesExact'
  BY <1>3, <1>4, <1>5 DEF OpenChallengesExact, Finalized
<1> QED
  BY <1>7, <1>8

\* What the other actions leave of the challenges: no record changes.
LEMMA QuietStep ==
  ASSUME \/ UnifiedInit \/ Tick \/ LandPositionRoots
         \/ \E index \in Outputs : AttestOutput(index)
         \/ FinalizeDocument \/ ResolveResult \/ AbandonDocument \/ CloseDocument
         \/ CloseResult \/ UNCHANGED vars
  PROVE  challenges' = challenges /\ opened' = opened /\ Live' = Live
<1>1. challenges' = challenges /\ opened' = opened
  BY DEF UnifiedInit, Tick, LandPositionRoots, landPositionRoots, AttestOutput,
         FinalizeDocument, ResolveResult, AbandonDocument, CloseDocument, CloseWith,
         CloseResult, vars
<1> QED
  BY <1>1 DEF Live

\* What any close writes, given that no challenge is open.
LEMMA CloseTypeStep ==
  ASSUME TypeOK, OpenChallengesExact, NEW status \in Statuses,
         CloseWith(status), Live = {}
  PROVE  TypeOK' /\ OpenChallengesExact'
<1> USE LifecycleAssumption, LimitsAssumption, TermsType
<1>1. document' \in Documents /\ document'.openChallenges = document.openChallenges
  BY DEF CloseWith, TypeOK, Documents, BOND_HELD, BOND_RETURNED, BOND_NONE, BOND_PAID
<1>2. result' \in Results
  <2> DEFINE r == IF status = result.status THEN result ELSE WriteStatus(result, status)
  <2>1. r \in Results
    BY DEF TypeOK, WriteStatus, Results, Documents
  <2>2. slot + Terms.resultRetentionSlots \in 0..U64_MAX
    BY DEF CloseWith, RetentionFits, TypeOK, Slots
  <2>3. result' = StartRetention(r)
    BY DEF CloseWith
  <2> HIDE DEF r
  <2> QED
    BY <2>1, <2>2, <2>3 DEF StartRetention, Results, TypeOK
<1>3. bank' \in Banks
  <2>1. /\ bank.document - Terms.executorBondLamports \in Int
        /\ bank.executor + Terms.executorBondLamports \in Int
    BY DEF TypeOK, Banks
  <2> QED
    BY <2>1 DEF CloseWith, TypeOK, Banks
<1>4. UNCHANGED <<slot, challenges, opened>>
  BY DEF CloseWith
<1>5. Live' = Live
  BY <1>4 DEF Live
<1> QED
  BY <1>1, <1>2, <1>3, <1>4, <1>5 DEF TypeOK, OpenChallengesExact

LEMMA TypeStep ==
  ASSUME TypeOK, OpenChallengesExact, [Next]_vars
  PROVE  TypeOK' /\ OpenChallengesExact'
<1> USE LifecycleAssumption, LimitsAssumption, TermsType
<1>1. CASE UnifiedInit
  <2>1. document.account # "live" /\ UNCHANGED <<slot, challenges, opened>>
    BY <1>1 DEF UnifiedInit
  <2>2. Live = {} /\ Live' = {}
    BY <1>1, <2>1, QuietStep DEF OpenChallengesExact
  <2>3. 0 \in Slots /\ 0 \in Roots /\ 0 \in 0..U64_MAX
    BY DEF Slots, Roots
  <2>4. document' \in Documents /\ document'.openChallenges = 0
    BY <1>1, <2>3
    DEF UnifiedInit, NewDocument, EmptyDocument, Documents, BOND_NONE, BOND_HELD
  <2>5. result' \in Results
    BY <1>1, <2>3 DEF UnifiedInit, atInit, EmptyResult, Results, Statuses
  <2>6. bank' \in Banks
    <3>1. /\ bank.document + Terms.executorBondLamports \in Int
          /\ bank.executor - Terms.executorBondLamports \in Int
      BY DEF TypeOK, Banks
    <3> QED
      BY <1>1, <3>1 DEF UnifiedInit, TypeOK, Banks
  <2> QED
    BY <2>1, <2>2, <2>4, <2>5, <2>6, FS_EmptySet DEF TypeOK, OpenChallengesExact
<1>2. CASE Tick
  <2>1. slot' \in Slots
    BY <1>2 DEF Tick, TypeOK, Slots
  <2> QED
    BY <1>2, <2>1, QuietStep DEF Tick, TypeOK, OpenChallengesExact, Finalized
<1>3. CASE LandPositionRoots
  <2>1. PICK count \in 1..MaxBatch : landPositionRoots(document.positionsComplete, count)
    BY <1>3 DEF LandPositionRoots
  <2>2. document.positionsComplete + count \in Roots
    BY <2>1 DEF landPositionRoots, TypeOK, Documents, Roots
  <2>3. /\ document' \in Documents
        /\ document'.openChallenges = document.openChallenges
        /\ document'.account = document.account
        /\ document'.flags = document.flags
    BY <2>1, <2>2 DEF landPositionRoots, TypeOK, Documents
  <2> QED
    BY <1>3, <2>1, <2>3, QuietStep
    DEF landPositionRoots, TypeOK, OpenChallengesExact, Finalized
<1>4. ASSUME NEW index \in Outputs, AttestOutput(index)
      PROVE  TypeOK' /\ OpenChallengesExact'
  <2>1. result' \in Results
    BY <1>4 DEF AttestOutput, TypeOK, Results
  <2> QED
    BY <1>4, <2>1, QuietStep DEF AttestOutput, TypeOK, OpenChallengesExact, Finalized
<1>5. CASE FinalizeDocument
  <2>1. slot + Terms.challengeWindowSlots \in Slots
    BY <1>5 DEF FinalizeDocument, TypeOK, Slots
  <2>2. document.flags \cup {FLAG_FINAL} \in SUBSET {FLAG_FINAL, FLAG_REFUTED}
    BY DEF TypeOK, Documents
  <2>3. /\ document' \in Documents
        /\ document'.openChallenges = document.openChallenges
        /\ document'.account = document.account
        /\ document'.flags = document.flags \cup {FLAG_FINAL}
    BY <1>5, <2>1, <2>2 DEF FinalizeDocument, TypeOK, Documents
  <2>4. result' \in Results
    BY <1>5, <2>3 DEF FinalizeDocument, finalizeResult, TypeOK, Documents, Results
  <2> QED
    BY <1>5, <2>3, <2>4, QuietStep
    DEF FinalizeDocument, TypeOK, OpenChallengesExact, Finalized
<1>6. ASSUME NEW c \in ChallengeAddresses, ChallengeStep(c)
      PROVE  TypeOK' /\ OpenChallengesExact'
  BY <1>6, OpenTypeStep, TurnTypeStep, SettleTypeStep DEF ChallengeStep
<1>7. CASE ResolveResult
  <2>1. \A status \in Statuses : WriteStatus(result, status) \in Results
    BY DEF TypeOK, WriteStatus, Results, Documents
  <2>2. result' \in Results
    BY <1>7, <2>1 DEF ResolveResult, Statuses
  <2> QED
    BY <1>7, <2>2, QuietStep DEF ResolveResult, TypeOK, OpenChallengesExact, Finalized
<1>8. CASE AbandonDocument
  <2>1. ~ Finalized /\ CloseWith(result.status)
    BY <1>8 DEF AbandonDocument
  <2>2. Live = {} /\ result.status \in Statuses
    BY <2>1 DEF OpenChallengesExact, TypeOK, Results
  <2> QED
    BY <2>1, <2>2, CloseTypeStep
<1>9. CASE CloseDocument
  <2>1. Live = {}
    BY <1>9, NoneLive DEF CloseDocument, DisputeOver
  <2>2. CloseWith(STATUS_REFUTED) \/ CloseWith(STATUS_SETTLED)
    BY <1>9 DEF CloseDocument
  <2>3. STATUS_REFUTED \in Statuses /\ STATUS_SETTLED \in Statuses
    BY DEF Statuses
  <2> QED
    BY <2>1, <2>2, <2>3, CloseTypeStep
<1>10. CASE CloseResult
  <2>1. 0 \in Slots /\ 0 \in Roots
    BY DEF Slots, Roots
  <2>2. result' \in Results
    BY <1>10, <2>1 DEF CloseResult, EmptyResult, TypeOK, Results, Statuses
  <2> QED
    BY <1>10, <2>2, QuietStep DEF CloseResult, TypeOK, OpenChallengesExact, Finalized
<1>11. CASE UNCHANGED vars
  BY <1>11, QuietStep DEF vars, TypeOK, OpenChallengesExact, Finalized
<1> QED
  BY <1>1, <1>2, <1>3, <1>4, <1>5, <1>6, <1>7, <1>8, <1>9, <1>10, <1>11 DEF Next

\* Every account always has the shape its decoder accepts.
THEOREM TypeCorrect == Spec => []TypeOK
<1>1. TypeOK /\ OpenChallengesExact /\ [Next]_vars => (TypeOK /\ OpenChallengesExact)'
  BY TypeStep
<1> QED
  BY <1>1, TypeInit, PTL DEF Spec

\* The counter that guards resolving and closing is exact, and no close
\* strands a challenge: a document with a live challenge is alive and final.
THEOREM ChallengesCounted == Spec => []OpenChallengesExact
<1>1. TypeOK /\ OpenChallengesExact /\ [Next]_vars => (TypeOK /\ OpenChallengesExact)'
  BY TypeStep
<1> QED
  BY <1>1, TypeInit, PTL DEF Spec

-----------------------------------------------------------------------------
(* The inductive invariant: steps of a challenge                           *)

\* What a ruling writes into the header, and what it leaves.
LEMMA MarkRulingEffect ==
  ASSUME NEW doc \in Documents, NEW winner
  PROVE  LET marked == MarkRuling(doc, winner)
         IN  /\ marked.account = doc.account
             /\ marked.documentRoot = doc.documentRoot
             /\ marked.disputeDeadline = doc.disputeDeadline
             /\ marked.executorBondState = doc.executorBondState
             /\ winner = WINNER_CHALLENGER =>
                  /\ marked.flags = doc.flags \cup {FLAG_REFUTED}
                  /\ marked.challengerWins = doc.challengerWins + 1
             /\ winner # WINNER_CHALLENGER => marked = doc
BY DEF MarkRuling, Documents

\* Opening a challenge, answering, judging and timing out a turn: one record is
\* written, and the header with it if the record was ruled for the challenger.
LEMMA RulingStep ==
  ASSUME IInv, NEW c \in ChallengeAddresses, NEW record \in ChallengeRecords,
         document.account = "live", Finalized,
         result.status \notin USABLE_STATUSES,
         UNCHANGED <<slot, result>>,
         challenges' = [challenges EXCEPT ![c] = record],
         challenges[c].phase # RULED,
         NEW doc \in {document, CountOpen(document)},
         \/ record.phase # RULED /\ document' = doc
         \/ \E winner \in {WINNER_EXECUTOR, WINNER_CHALLENGER} :
              record = RuledRecord(winner) /\ document' = MarkRuling(doc, winner)
  PROVE  /\ AccountsCoupled'
         /\ RefutationRecorded'
         /\ ResultCopiesDocument'
         /\ StatusJustified'
         /\ BondJustified'
         /\ StoredRecordsDecode'
<1> DEFINE convicted == record.phase = RULED /\ record.winner = WINNER_CHALLENGER
<1>1. TypeOK /\ doc \in Documents
  BY CountOpenType DEF IInv, TypeOK
<1>2. /\ doc.account = document.account
      /\ doc.documentRoot = document.documentRoot
      /\ doc.disputeDeadline = document.disputeDeadline
      /\ doc.executorBondState = document.executorBondState
      /\ doc.flags = document.flags
      /\ doc.challengerWins = document.challengerWins
  BY <1>1 DEF CountOpen, TypeOK, Documents
<1>3. /\ document'.account = document.account
      /\ document'.documentRoot = document.documentRoot
      /\ document'.disputeDeadline = document.disputeDeadline
      /\ document'.executorBondState = document.executorBondState
  BY <1>1, <1>2, MarkRulingEffect
<1>4. IF convicted
        THEN /\ document'.flags = document.flags \cup {FLAG_REFUTED}
             /\ document'.challengerWins = document.challengerWins + 1
        ELSE /\ document'.flags = document.flags
             /\ document'.challengerWins = document.challengerWins
  <2>1. CASE record.phase # RULED
    BY <1>2, <2>1 DEF RuledRecord
  <2>2. CASE \E winner \in {WINNER_EXECUTOR, WINNER_CHALLENGER} :
               record = RuledRecord(winner) /\ document' = MarkRuling(doc, winner)
    BY <1>1, <1>2, <2>2, MarkRulingEffect DEF RuledRecord
  <2> QED
    BY <2>1, <2>2
<1>5. record.phase = RULED => record.winner # NoWinner
  BY DEF RuledRecord, NoWinner, WINNER_EXECUTOR, WINNER_CHALLENGER
<1>6. \A d \in ChallengeAddresses :
        challenges'[d] = IF d = c THEN record ELSE challenges[d]
  BY <1>1 DEF TypeOK
<1>7. document.challengerWins \in Nat
  BY <1>1 DEF TypeOK, Documents
<1>8. AccountsCoupled'
  BY <1>3 DEF IInv, AccountsCoupled
<1>9. Refuted' <=> Refuted \/ convicted
  BY <1>4 DEF Refuted
<1>10. Finalized'
  BY <1>4 DEF Finalized
<1> HIDE DEF convicted
<1>11. RefutationRecorded'
  <2>1. Refuted' <=> document'.challengerWins > 0
    BY <1>4, <1>7, <1>9 DEF IInv, RefutationRecorded
  <2>2. ASSUME NEW d \in ChallengeAddresses,
               challenges'[d].phase = RULED, challenges'[d].winner = WINNER_CHALLENGER
        PROVE  Refuted'
    BY <1>6, <1>9, <2>2 DEF IInv, RefutationRecorded, convicted
  <2>3. \A d \in ChallengeAddresses :
          challenges'[d].phase = RULED => challenges'[d].winner # NoWinner
    BY <1>5, <1>6 DEF IInv, RefutationRecorded
  <2> QED
    BY <1>10, <2>1, <2>2, <2>3 DEF RefutationRecorded
<1>12. ResultCopiesDocument'
  BY <1>3, <1>10 DEF IInv, ResultCopiesDocument
<1>13. StatusJustified'
  <2>1. document'.challengerWins \in Nat /\ document'.challengerWins >= document.challengerWins
    BY <1>4, <1>7
  <2>2. RefutedWasRuled'
    <3> SUFFICES ASSUME result.status = STATUS_REFUTED
                 PROVE  Refuted' /\ result.challengerWins \in 1..document'.challengerWins
      BY DEF RefutedWasRuled
    <3> QED
      BY <1>7, <1>9, <2>1 DEF IInv, StatusJustified, RefutedWasRuled
  <2> QED
    BY <2>2 DEF StatusJustified
<1>14. BondJustified'
  <2>1. ASSUME document.executorBondState = BOND_HELD, Refuted'
        PROVE  \E d \in ChallengeAddresses :
                 challenges'[d].phase = RULED /\ challenges'[d].winner = WINNER_CHALLENGER
    BY <1>6, <1>9, <2>1 DEF IInv, BondJustified, convicted
  <2>2. document.executorBondState # BOND_RETURNED
    BY DEF IInv, BondJustified
  <2> QED
    BY <1>3, <1>9, <2>1, <2>2 DEF IInv, BondJustified
<1>15. StoredRecordsDecode'
  BY <1>3 DEF IInv, StoredRecordsDecode, Dcm2V6Decodes, ResultV5Decodes
<1> QED
  BY <1>8, <1>11, <1>12, <1>13, <1>14, <1>15

\* The parts of the inductive invariant that remain once TypeStep is applied.
Parts ==
  /\ ClockStarted
  /\ AccountsCoupled
  /\ RefutationRecorded
  /\ ResultCopiesDocument
  /\ StatusJustified
  /\ BondJustified
  /\ StoredRecordsDecode

LEMMA OpenStep ==
  ASSUME IInv, NEW c \in ChallengeAddresses, OpenChallenge(c) \/ OpenAndConvict(c)
  PROVE  Parts'
<1>1. TypeOK /\ ClockStarted
  BY DEF IInv
<1>2. /\ document.account = "live"
      /\ Finalized
      /\ challenges[c].phase # RULED
      /\ UNCHANGED <<slot, result>>
  BY DEF OpenChallenge, OpenAndConvict, MayOpen, ABSENT, RULED
<1>3. result.status \notin USABLE_STATUSES
  <2>1. slot <= document.disputeDeadline
    BY DEF OpenChallenge, OpenAndConvict, MayOpen
  <2>2. slot \in Int /\ document.disputeDeadline \in Int
    BY <1>1 DEF TypeOK, Documents, Slots
  <2> QED
    BY <2>1, <2>2 DEF IInv, StatusJustified
<1>4. CASE OpenChallenge(c)
  <2>1. OpenedRecord \in ChallengeRecords
    BY <1>1, <1>4, RecordTypes DEF OpenChallenge, TypeOK
  <2>2. OpenedRecord.phase # RULED
    BY DEF OpenedRecord, NoRecord, EXECUTOR_TURN, RULED
  <2>3. challenges' = [challenges EXCEPT ![c] = OpenedRecord]
          /\ document' = CountOpen(document)
    BY <1>4 DEF OpenChallenge
  <2> QED
    BY <1>1, <1>2, <1>3, <2>1, <2>2, <2>3, RulingStep DEF Parts, ClockStarted
<1>5. CASE OpenAndConvict(c)
  <2>1. RuledRecord(WINNER_CHALLENGER) \in ChallengeRecords
    BY <1>1, RecordTypes DEF TypeOK
  <2>2. /\ challenges' = [challenges EXCEPT ![c] = RuledRecord(WINNER_CHALLENGER)]
        /\ document' = MarkRuling(CountOpen(document), WINNER_CHALLENGER)
    BY <1>5 DEF OpenAndConvict, Rule
  <2> QED
    BY <1>1, <1>2, <1>3, <2>1, <2>2, RulingStep DEF Parts, ClockStarted
<1> QED
  BY <1>4, <1>5

LEMMA TurnIndStep ==
  ASSUME IInv, NEW c \in ChallengeAddresses,
         \/ Respond(c)
         \/ \E winner \in {WINNER_EXECUTOR, WINNER_CHALLENGER} : Verdict(c, winner)
         \/ Timeout(c)
  PROVE  Parts'
<1>1. TypeOK /\ ClockStarted
  BY DEF IInv
<1>2. PICK record \in ChallengeRecords :
        /\ challenges' = [challenges EXCEPT ![c] = record]
        /\ \/ record.phase # RULED /\ document' = document
           \/ \E winner \in {WINNER_EXECUTOR, WINNER_CHALLENGER} :
                record = RuledRecord(winner) /\ document' = MarkRuling(document, winner)
  BY <1>1, TurnStep
<1>3. UNCHANGED <<slot, result>> /\ c \in Live
  BY <1>1, TurnStep DEF Live
<1>4. challenges[c].phase # RULED
  BY DEF Respond, Verdict, Timeout, RULED, EXECUTOR_TURN, CHALLENGER_TURN
<1>5. document.account = "live" /\ Finalized /\ result.status \notin USABLE_STATUSES
  BY <1>3 DEF IInv, OpenChallengesExact, StatusJustified
<1> QED
  BY <1>1, <1>2, <1>3, <1>4, <1>5, RulingStep DEF Parts, ClockStarted

\* The bond is divided when the first record won by a challenger is settled;
\* a record settled without the pot was not the one that claims it.
LEMMA SettleStep ==
  ASSUME IInv, NEW c \in ChallengeAddresses, Settle(c)
  PROVE  Parts'
<1>1. TypeOK /\ OpenChallengesExact
  BY DEF IInv
<1>2. CloseRecord(c)
  BY DEF Settle, SettleWithPot, SettleWithoutPot
<1>3. /\ UNCHANGED <<slot, result>>
      /\ challenges[c].phase = RULED
      /\ c \in Live
  BY <1>2 DEF CloseRecord, Live, RULED, ABSENT
<1>4. \A d \in ChallengeAddresses :
        challenges'[d] = IF d = c THEN NoRecord ELSE challenges[d]
  BY <1>1, <1>2 DEF CloseRecord, TypeOK
<1>5. /\ document'.account = document.account
      /\ document'.flags = document.flags
      /\ document'.challengerWins = document.challengerWins
      /\ document'.documentRoot = document.documentRoot
      /\ document'.disputeDeadline = document.disputeDeadline
      /\ document'.executorBondState =
           IF SettleWithPot(c) THEN BOND_PAID ELSE document.executorBondState
  BY <1>1 DEF Settle, SettleWithPot, SettleWithoutPot, TypeOK, Documents
<1>6. document.account = "live" /\ result.status \notin USABLE_STATUSES
  BY <1>3 DEF IInv, OpenChallengesExact, StatusJustified
<1>7. Refuted' = Refuted /\ Finalized' = Finalized
  BY <1>5 DEF Refuted, Finalized
<1>8. ClockStarted' /\ AccountsCoupled'
  BY <1>3, <1>5, <1>6 DEF IInv, ClockStarted, AccountsCoupled
<1>9. RefutationRecorded'
  BY <1>4, <1>5, <1>7 DEF IInv, RefutationRecorded, NoRecord, RULED, ABSENT
<1>10. ResultCopiesDocument'
  BY <1>3, <1>5, <1>7 DEF IInv, ResultCopiesDocument
<1>11. StatusJustified'
  BY <1>3, <1>5, <1>6, <1>7 DEF IInv, StatusJustified, RefutedWasRuled
<1>12. BondJustified'
  <2>1. CASE SettleWithPot(c)
    <3>1. Refuted /\ document.executorBondState = BOND_HELD
      BY <1>3, <2>1 DEF SettleWithPot, IInv, RefutationRecorded
    <3> QED
      BY <1>5, <1>6, <1>7, <2>1, <3>1
      DEF IInv, BondJustified, BOND_PAID, BOND_HELD, BOND_NONE, BOND_RETURNED
  <2>2. CASE ~ SettleWithPot(c)
    <3>1. ASSUME document.executorBondState = BOND_HELD, Refuted
          PROVE  \E d \in ChallengeAddresses :
                   challenges'[d].phase = RULED /\ challenges'[d].winner = WINNER_CHALLENGER
      <4>1. challenges[c].winner # WINNER_CHALLENGER
        BY <2>2, <3>1 DEF Settle, SettleWithoutPot, WINNER_EXECUTOR, WINNER_CHALLENGER
      <4>2. PICK d \in ChallengeAddresses :
              challenges[d].phase = RULED /\ challenges[d].winner = WINNER_CHALLENGER
        BY <3>1 DEF IInv, BondJustified
      <4> QED
        BY <1>4, <4>1, <4>2
    <3> QED
      BY <1>5, <1>6, <1>7, <2>2, <3>1 DEF IInv, BondJustified
  <2> QED
    BY <2>1, <2>2
<1>13. StoredRecordsDecode'
  <2>1. document'.executorBondState = BOND_NONE <=> document.executorBondState = BOND_NONE
    BY <1>5 DEF SettleWithPot, BOND_PAID, BOND_HELD, BOND_NONE
  <2> QED
    BY <1>3, <1>5, <2>1 DEF IInv, StoredRecordsDecode, Dcm2V6Decodes, ResultV5Decodes
<1> QED
  BY <1>8, <1>9, <1>10, <1>11, <1>12, <1>13 DEF Parts

-----------------------------------------------------------------------------
(* The inductive invariant: steps of the two accounts                      *)

\* Closing writes a status only when the reason for it holds, and returns the
\* bond only when no ruling claims it.
LEMMA CloseStep ==
  ASSUME IInv, NEW status \in Statuses, CloseWith(status), Live = {},
         \/ status = result.status
         \/ status = STATUS_REFUTED /\ Refuted
         \/ /\ status = STATUS_SETTLED
            /\ Finalized /\ ~ Refuted /\ AllAttested
            /\ slot > document.disputeDeadline
  PROVE  Parts'
<1> DEFINE r == IF status = result.status THEN result ELSE WriteStatus(result, status)
<1>1. TypeOK /\ slot \in Nat /\ slot # 0 /\ document.challengerWins \in Nat
  BY LifecycleAssumption DEF IInv, TypeOK, ClockStarted, Slots, Documents
<1>2. /\ document.account = "live"
      /\ UNCHANGED <<slot, challenges>>
      /\ Live' = {}
  BY DEF CloseWith, Live
<1>3. /\ document'.account = "drained"
      /\ document'.flags = document.flags
      /\ document'.challengerWins = document.challengerWins
      /\ document'.documentRoot = document.documentRoot
      /\ document'.disputeDeadline = document.disputeDeadline
      /\ document'.executorBondState =
           IF document.executorBondState = BOND_HELD
             THEN BOND_RETURNED ELSE document.executorBondState
  BY <1>1 DEF CloseWith, TypeOK, Documents
<1>4. /\ r.account = "DCR2"
      /\ r.status = status
      /\ r.documentRoot = result.documentRoot
      /\ r.disputeDeadline = result.disputeDeadline
      /\ r.outputs = result.outputs
      /\ r.challengerWins = IF status = result.status
                              THEN result.challengerWins ELSE document.challengerWins
      /\ r \in Results
  BY <1>1 DEF CloseWith, WriteStatus, TypeOK, Results, Documents
<1>5. result' = StartRetention(r)
  BY DEF CloseWith
<1> HIDE DEF r
<1>6. /\ result'.account = "DCR2"
      /\ result'.status = status
      /\ result'.documentClosed = 1
      /\ result'.documentRoot = result.documentRoot
      /\ result'.disputeDeadline = result.disputeDeadline
      /\ result'.outputs = result.outputs
      /\ result'.challengerWins = IF status = result.status
                                    THEN result.challengerWins ELSE document.challengerWins
      /\ result'.retentionStartSlot = slot
      /\ result'.retentionDeadline = slot + Terms.resultRetentionSlots
  BY <1>4, <1>5 DEF StartRetention, Results
<1>7. Refuted' = Refuted /\ Finalized' = Finalized
  BY <1>3 DEF Refuted, Finalized
<1>8. ClockStarted' /\ AccountsCoupled'
  BY <1>1, <1>2, <1>3, <1>6 DEF ClockStarted, AccountsCoupled
<1>9. RefutationRecorded'
  BY <1>2, <1>3, <1>7 DEF IInv, RefutationRecorded
<1>10. ResultCopiesDocument'
  <2>1. result.account = "DCR2"
    BY DEF CloseWith
  <2> QED
    BY <1>3, <1>6, <1>7, <2>1 DEF IInv, ResultCopiesDocument
<1>11. StatusJustified'
  <2>1. CASE status = result.status
    BY <1>2, <1>3, <1>6, <1>7, <2>1
    DEF IInv, StatusJustified, RefutedWasRuled, AllAttested
  <2>2. CASE status # result.status
    <3>1. Refuted <=> document.challengerWins > 0
      BY DEF IInv, RefutationRecorded
    <3> QED
      BY <1>1, <1>2, <1>3, <1>6, <1>7, <2>2, <3>1
      DEF StatusJustified, RefutedWasRuled, AllAttested, USABLE_STATUSES,
          STATUS_REFUTED, STATUS_SETTLED, STATUS_FINAL
  <2> QED
    BY <2>1, <2>2
<1>12. BondJustified'
  <2>1. document.executorBondState = BOND_HELD => ~ Refuted
    <3>1. \A c \in ChallengeAddresses : challenges[c].phase # RULED
      BY DEF Live, RULED, ABSENT
    <3> QED
      BY <3>1 DEF IInv, BondJustified
  <2> QED
    BY <1>2, <1>3, <1>7, <2>1
    DEF IInv, BondJustified, BOND_PAID, BOND_HELD, BOND_NONE, BOND_RETURNED
<1>13. StoredRecordsDecode'
  BY <1>1, <1>3, <1>6 DEF CloseWith, RetentionFits, StoredRecordsDecode, ResultV5Decodes
<1> QED
  BY <1>8, <1>9, <1>10, <1>11, <1>12, <1>13 DEF Parts

LEMMA InitParts == Init => Parts
<1> SUFFICES ASSUME Init PROVE Parts
  OBVIOUS
<1> USE DEF Init
<1>1. ClockStarted
  BY LifecycleAssumption DEF ClockStarted
<1>2. AccountsCoupled
  BY DEF AccountsCoupled, EmptyDocument
<1>3. \A c \in ChallengeAddresses : challenges[c].phase # RULED
  BY DEF NoRecord, RULED, ABSENT
<1>4. ~ Refuted /\ ~ Finalized /\ document.challengerWins = 0 /\ document.documentRoot = 0
  BY DEF Refuted, Finalized, EmptyDocument
<1>5. RefutationRecorded
  BY <1>3, <1>4 DEF RefutationRecorded
<1>6. ResultCopiesDocument
  BY <1>4 DEF ResultCopiesDocument, EmptyResult
<1>7. StatusJustified
  BY DEF StatusJustified, RefutedWasRuled, EmptyResult, USABLE_STATUSES,
         STATUS_PENDING, STATUS_FINAL, STATUS_SETTLED, STATUS_REFUTED
<1>8. BondJustified
  BY <1>4 DEF BondJustified, EmptyDocument, BOND_NONE, BOND_HELD, BOND_PAID, BOND_RETURNED
<1>9. StoredRecordsDecode
  BY DEF StoredRecordsDecode, EmptyDocument, EmptyResult
<1> QED
  BY <1>1, <1>2, <1>5, <1>6, <1>7, <1>8, <1>9 DEF Parts

\* Creating a document: only one that never existed, by AccountsCoupled.
LEMMA CreateStep == ASSUME IInv, UnifiedInit PROVE Parts'
<1>1. TypeOK /\ UNCHANGED <<slot, challenges>> /\ document' = NewDocument /\ result' = atInit
  BY DEF IInv, UnifiedInit
<1>2. document.account \in {"empty", "live", "drained"}
  BY <1>1 DEF TypeOK, Documents
<1>3. document = EmptyDocument /\ result = EmptyResult
  BY <1>2 DEF IInv, UnifiedInit, AccountsCoupled
<1>4. /\ document'.account = "live"
      /\ document'.flags = {}
      /\ document'.challengerWins = 0
      /\ document'.documentRoot = 0
      /\ document'.disputeDeadline = 0
      /\ document'.executorBondState =
           IF Terms.executorBondLamports = 0 THEN BOND_NONE ELSE BOND_HELD
  BY <1>1 DEF NewDocument, EmptyDocument
<1>5. /\ result'.account = "DCR2"
      /\ result'.status = STATUS_PENDING
      /\ result'.documentClosed = 0
      /\ result'.documentRoot = 0
      /\ result'.disputeDeadline = 0
      /\ result'.retentionStartSlot = 0
      /\ result'.retentionDeadline = 0
  BY <1>1 DEF atInit, EmptyResult
<1>6. ~ Refuted /\ ~ Refuted' /\ ~ Finalized'
  BY <1>3, <1>4 DEF Refuted, Finalized, EmptyDocument
<1>7. \A c \in ChallengeAddresses : challenges'[c].phase # RULED
  <2>1. document.account # "live"
    BY <1>3 DEF EmptyDocument
  <2>2. Live = {}
    BY <2>1 DEF IInv, OpenChallengesExact
  <2> QED
    BY <1>1, <2>2 DEF Live, RULED, ABSENT
<1>8. ClockStarted' /\ AccountsCoupled'
  BY <1>1, <1>4, <1>5 DEF IInv, ClockStarted, AccountsCoupled
<1>9. RefutationRecorded'
  BY <1>4, <1>6, <1>7 DEF RefutationRecorded
<1>10. ResultCopiesDocument'
  BY <1>4, <1>5, <1>6 DEF ResultCopiesDocument
<1>11. StatusJustified'
  BY <1>5 DEF StatusJustified, RefutedWasRuled, USABLE_STATUSES,
              STATUS_PENDING, STATUS_FINAL, STATUS_SETTLED, STATUS_REFUTED
<1>12. BondJustified'
  BY <1>4, <1>6 DEF BondJustified, BOND_NONE, BOND_HELD, BOND_PAID, BOND_RETURNED
<1>13. StoredRecordsDecode'
  BY <1>4, <1>5, LimitsAssumption
  DEF StoredRecordsDecode, Dcm2V6Decodes, ResultV5Decodes, BOND_NONE, BOND_HELD
<1> QED
  BY <1>8, <1>9, <1>10, <1>11, <1>12, <1>13 DEF Parts

\* Finalizing sets the root of both accounts; no status has been written yet.
LEMMA FinalizeStep == ASSUME IInv, FinalizeDocument PROVE Parts'
<1>1. TypeOK /\ UNCHANGED <<slot, challenges>> /\ document.account = "live" /\ ~ Finalized
  BY DEF IInv, FinalizeDocument
<1>2. /\ document'.account = "live"
      /\ document'.flags = document.flags \cup {FLAG_FINAL}
      /\ document'.challengerWins = document.challengerWins
      /\ document'.documentRoot = PositionCount
      /\ document'.executorBondState = document.executorBondState
  BY <1>1 DEF FinalizeDocument, TypeOK, Documents
<1>3. result' = [result EXCEPT !.documentRoot = document'.documentRoot,
                               !.finalizeSlot = document'.finalizeSlot,
                               !.disputeDeadline = document'.disputeDeadline]
  BY DEF FinalizeDocument, finalizeResult
<1>4. /\ result'.account = result.account
      /\ result'.status = result.status
      /\ result'.documentClosed = result.documentClosed
      /\ result'.documentRoot = document'.documentRoot
      /\ result'.disputeDeadline = document'.disputeDeadline
      /\ result'.challengerWins = result.challengerWins
      /\ result'.retentionStartSlot = result.retentionStartSlot
      /\ result'.retentionDeadline = result.retentionDeadline
  BY <1>1, <1>3 DEF TypeOK, Results
<1>5. Finalized' /\ (Refuted' <=> Refuted) /\ ~ Refuted
  BY <1>1, <1>2
  DEF Finalized, Refuted, FLAG_FINAL, FLAG_REFUTED, IInv, RefutationRecorded
<1>6. ClockStarted' /\ AccountsCoupled'
  BY <1>1, <1>2, <1>4 DEF IInv, ClockStarted, AccountsCoupled
<1>7. RefutationRecorded'
  BY <1>1, <1>2, <1>5 DEF IInv, RefutationRecorded
<1>8. ResultCopiesDocument'
  BY <1>2, <1>4, <1>5 DEF ResultCopiesDocument
<1>9. StatusJustified'
  BY <1>1, <1>4, <1>5 DEF IInv, StatusJustified, RefutedWasRuled
<1>10. BondJustified'
  BY <1>1, <1>2, <1>5 DEF IInv, BondJustified
<1>11. StoredRecordsDecode'
  BY <1>1, <1>2, <1>4 DEF IInv, StoredRecordsDecode, Dcm2V6Decodes, ResultV5Decodes
<1> QED
  BY <1>6, <1>7, <1>8, <1>9, <1>10, <1>11 DEF Parts

\* Resolving writes FINAL only past the deadline with nothing open, and REFUTED
\* only after a ruling.
LEMMA ResolveStep == ASSUME IInv, ResolveResult PROVE Parts'
<1>1. TypeOK /\ UNCHANGED <<slot, document, challenges>> /\ Live' = Live
  BY QuietStep DEF IInv, ResolveResult
<1>2. PICK status \in {STATUS_REFUTED, STATUS_FINAL} :
        /\ result' = WriteStatus(result, status)
        /\ status = STATUS_REFUTED => Refuted
        /\ status = STATUS_FINAL => FinalReady
  BY DEF ResolveResult, STATUS_REFUTED, STATUS_FINAL
<1>3. /\ result'.account = result.account
      /\ result'.status = status
      /\ result'.documentClosed = result.documentClosed
      /\ result'.documentRoot = result.documentRoot
      /\ result'.disputeDeadline = result.disputeDeadline
      /\ result'.outputs = result.outputs
      /\ result'.challengerWins = document.challengerWins
      /\ result'.retentionStartSlot = result.retentionStartSlot
      /\ result'.retentionDeadline = result.retentionDeadline
  BY <1>1, <1>2 DEF WriteStatus, TypeOK, Results
<1>4. Refuted' = Refuted /\ Finalized' = Finalized
  BY <1>1 DEF Refuted, Finalized
<1>5. ClockStarted' /\ AccountsCoupled' /\ RefutationRecorded' /\ BondJustified'
  BY <1>1, <1>3, <1>4
  DEF IInv, ResolveResult, ClockStarted, AccountsCoupled, RefutationRecorded, BondJustified
<1>6. ResultCopiesDocument'
  BY <1>1, <1>3, <1>4 DEF IInv, ResultCopiesDocument
<1>7. StatusJustified'
  <2>1. document.challengerWins \in Nat /\ (Refuted <=> document.challengerWins > 0)
    BY <1>1 DEF IInv, RefutationRecorded, TypeOK, Documents
  <2>2. CASE status = STATUS_REFUTED
    BY <1>1, <1>2, <1>3, <1>4, <2>1, <2>2
    DEF StatusJustified, RefutedWasRuled, USABLE_STATUSES,
        STATUS_REFUTED, STATUS_FINAL, STATUS_SETTLED
  <2>3. CASE status = STATUS_FINAL
    <3>1. Live = {} /\ Finalized /\ ~ Refuted /\ slot > document.disputeDeadline /\ AllAttested
      BY <1>2, <2>3, NoneLive DEF FinalReady, IInv
    <3> QED
      BY <1>1, <1>3, <1>4, <2>1, <2>3, <3>1
      DEF StatusJustified, RefutedWasRuled, AllAttested, STATUS_REFUTED, STATUS_FINAL
  <2> QED
    BY <2>2, <2>3
<1>8. StoredRecordsDecode'
  BY <1>1, <1>3 DEF IInv, StoredRecordsDecode, Dcm2V6Decodes, ResultV5Decodes
<1> QED
  BY <1>5, <1>6, <1>7, <1>8 DEF Parts

\* Retiring leaves a tombstone beside a drained document.
LEMMA RetireStep == ASSUME IInv, CloseResult PROVE Parts'
<1>1. TypeOK /\ UNCHANGED <<slot, document, challenges>> /\ Live' = Live
  BY QuietStep DEF IInv, CloseResult
<1>2. result'.account = "DCRZ" /\ result'.status = STATUS_PENDING
  BY DEF CloseResult, EmptyResult
<1>3. document.account = "drained"
  <2>1. document.account \in {"empty", "live", "drained"}
    BY <1>1 DEF TypeOK, Documents
  <2>2. result.account = "DCR2" /\ result.documentClosed = 1
    BY DEF CloseResult
  <2> QED
    BY <2>1, <2>2 DEF IInv, AccountsCoupled, EmptyResult
<1>4. Refuted' = Refuted /\ Finalized' = Finalized
  BY <1>1 DEF Refuted, Finalized
<1>5. ClockStarted' /\ AccountsCoupled' /\ RefutationRecorded' /\ BondJustified'
  BY <1>1, <1>2, <1>3, <1>4
  DEF IInv, ClockStarted, AccountsCoupled, RefutationRecorded, BondJustified
<1>6. ResultCopiesDocument' /\ StoredRecordsDecode'
  BY <1>1, <1>2, <1>3, <1>4 DEF IInv, ResultCopiesDocument, StoredRecordsDecode
<1>7. StatusJustified'
  BY <1>2 DEF StatusJustified, RefutedWasRuled, USABLE_STATUSES,
              STATUS_PENDING, STATUS_FINAL, STATUS_SETTLED, STATUS_REFUTED
<1> QED
  BY <1>5, <1>6, <1>7 DEF Parts

\* Time only moves on, landing touches one counter, and proving an output of an
\* accepted result proves nothing new.
LEMMA SmallStep ==
  ASSUME IInv,
         \/ Tick \/ LandPositionRoots
         \/ \E index \in Outputs : AttestOutput(index)
         \/ UNCHANGED vars
  PROVE  Parts'
<1>1. TypeOK /\ UNCHANGED challenges /\ Live' = Live
  BY QuietStep DEF IInv
<1>2. /\ document'.account = document.account
      /\ document'.flags = document.flags
      /\ document'.challengerWins = document.challengerWins
      /\ document'.documentRoot = document.documentRoot
      /\ document'.disputeDeadline = document.disputeDeadline
      /\ document'.executorBondState = document.executorBondState
      /\ document' = document \/ document.account # "empty"
  BY <1>1 DEF Tick, LandPositionRoots, landPositionRoots, AttestOutput, vars, TypeOK, Documents
<1>3. /\ result'.account = result.account
      /\ result'.status = result.status
      /\ result'.documentClosed = result.documentClosed
      /\ result'.documentRoot = result.documentRoot
      /\ result'.disputeDeadline = result.disputeDeadline
      /\ result'.challengerWins = result.challengerWins
      /\ result'.retentionStartSlot = result.retentionStartSlot
      /\ result'.retentionDeadline = result.retentionDeadline
      /\ result' = result \/ document.account # "empty"
      /\ AllAttested => AllAttested'
  <2>1. ASSUME NEW index \in Outputs, AttestOutput(index)
        PROVE  /\ document.account # "empty"
               /\ result' = [result EXCEPT !.outputs = result.outputs \cup {index}]
    BY <2>1 DEF AttestOutput
  <2> QED
    BY <1>1, <2>1
    DEF Tick, LandPositionRoots, landPositionRoots, vars, TypeOK, Results, AllAttested
<1>4. slot' # 0 /\ \A deadline \in Slots : slot > deadline => slot' > deadline
  BY <1>1, LifecycleAssumption
  DEF IInv, ClockStarted, Tick, LandPositionRoots, landPositionRoots, AttestOutput, vars,
      TypeOK, Slots
<1>5. Refuted' = Refuted /\ Finalized' = Finalized
  BY <1>2 DEF Refuted, Finalized
<1>6. ClockStarted' /\ AccountsCoupled'
  BY <1>2, <1>3, <1>4 DEF IInv, ClockStarted, AccountsCoupled
<1>7. RefutationRecorded' /\ ResultCopiesDocument' /\ BondJustified'
  BY <1>1, <1>2, <1>3, <1>5
  DEF IInv, RefutationRecorded, ResultCopiesDocument, BondJustified
<1>8. StatusJustified'
  <2>1. document.disputeDeadline \in Slots
    BY <1>1 DEF TypeOK, Documents
  <2> QED
    BY <1>1, <1>2, <1>3, <1>4, <1>5, <2>1 DEF IInv, StatusJustified, RefutedWasRuled
<1>9. StoredRecordsDecode'
  BY <1>2, <1>3 DEF IInv, StoredRecordsDecode, Dcm2V6Decodes, ResultV5Decodes
<1> QED
  BY <1>6, <1>7, <1>8, <1>9 DEF Parts

LEMMA IndInit == Init => IInv
  BY TypeInit, InitParts DEF IInv, Parts

LEMMA IndStep == ASSUME IInv, [Next]_vars PROVE IInv'
<1>1. TypeOK' /\ OpenChallengesExact'
  BY TypeStep DEF IInv
<1>2. Parts'
  <2>1. CASE UnifiedInit
    BY <2>1, CreateStep
  <2>2. CASE \/ Tick \/ LandPositionRoots
             \/ \E index \in Outputs : AttestOutput(index)
             \/ UNCHANGED vars
    BY <2>2, SmallStep
  <2>3. CASE FinalizeDocument
    BY <2>3, FinalizeStep
  <2>4. ASSUME NEW c \in ChallengeAddresses, ChallengeStep(c)
        PROVE  Parts'
    BY <2>4, OpenStep, TurnIndStep, SettleStep DEF ChallengeStep
  <2>5. CASE ResolveResult
    BY <2>5, ResolveStep
  <2>6. CASE AbandonDocument
    <3>1. ~ Finalized /\ CloseWith(result.status)
      BY <2>6 DEF AbandonDocument
    <3>2. Live = {} /\ result.status \in Statuses
      BY <3>1 DEF IInv, OpenChallengesExact, TypeOK, Results
    <3> QED
      BY <3>1, <3>2, CloseStep
  <2>7. CASE CloseDocument
    <3>1. Live = {} /\ Finalized /\ slot > document.disputeDeadline
      BY <2>7, NoneLive DEF CloseDocument, DisputeOver, IInv
    <3>2. \/ Refuted /\ CloseWith(STATUS_REFUTED)
          \/ ~ Refuted /\ AllAttested /\ CloseWith(STATUS_SETTLED)
      BY <2>7 DEF CloseDocument
    <3>3. STATUS_REFUTED \in Statuses /\ STATUS_SETTLED \in Statuses
      BY DEF Statuses
    <3> QED
      BY <3>1, <3>2, <3>3, CloseStep
  <2>8. CASE CloseResult
    BY <2>8, RetireStep
  <2> QED
    BY <2>1, <2>2, <2>3, <2>4, <2>5, <2>6, <2>7, <2>8 DEF Next
<1> QED
  BY <1>1, <1>2 DEF IInv, Parts

-----------------------------------------------------------------------------
(* The theorems                                                            *)

\* The inductive invariant holds in every reachable state.
THEOREM Inductive == Spec => []IInv
<1>1. IInv /\ [Next]_vars => IInv'
  BY IndStep
<1> QED
  BY <1>1, IndInit, PTL DEF Spec

\* A usable result is beyond dispute: no lost challenge, none open, the
\* challenge window over, and its root the document's.
THEOREM AcceptanceIsSafe == Spec => []UsableIsUncontested
<1>1. ASSUME IInv PROVE UsableIsUncontested
  <2> SUFFICES ASSUME usable
               PROVE  /\ document.challengerWins = 0
                      /\ Live = {}
                      /\ slot > document.disputeDeadline
                      /\ result.documentRoot = document.documentRoot
                      /\ result.disputeDeadline = document.disputeDeadline
                      /\ result.challengerWins = 0
    BY DEF UsableIsUncontested
  <2>1. result.account = "DCR2" /\ result.status \in USABLE_STATUSES
    BY DEF usable
  <2>2. /\ Live = {}
        /\ slot > document.disputeDeadline
        /\ ~ Refuted
        /\ result.challengerWins = 0
    BY <1>1, <2>1 DEF IInv, StatusJustified
  <2>3. document.challengerWins = 0
    BY <1>1, <2>2 DEF IInv, RefutationRecorded, TypeOK, Documents
  <2>4. /\ result.documentRoot = document.documentRoot
        /\ result.disputeDeadline = document.disputeDeadline
    BY <1>1, <2>1 DEF IInv, ResultCopiesDocument
  <2> QED
    BY <2>2, <2>3, <2>4
<1> QED
  BY <1>1, Inductive, PTL

\* A refuted result rests on a ruling for a challenger that the document counts.
THEOREM RefutationIsRuled == Spec => []RefutedWasRuled
<1>1. IInv => RefutedWasRuled
  BY DEF IInv, StatusJustified
<1> QED
  BY <1>1, Inductive, PTL

\* Every record the handlers leave behind can be decoded, and a closed result
\* can be retired.
THEOREM RecordsDecode == Spec => []StoredRecordsDecode
<1>1. IInv => StoredRecordsDecode
  BY DEF IInv
<1> QED
  BY <1>1, Inductive, PTL

-----------------------------------------------------------------------------
(* Arithmetic                                                              *)

\* A share of at most all of an amount, rounded down, is at most the amount.
LEMMA ShareBelowWhole ==
  ASSUME NEW m \in Nat, NEW bps \in 0..BPS_DENOMINATOR
  PROVE  (m * bps) \div BPS_DENOMINATOR <= m
<1>1. m * bps <= m * BPS_DENOMINATOR /\ m * bps \in Nat
  BY DEF BPS_DENOMINATOR
<1>2. ASSUME NEW n \in Nat, n <= m * 10000 PROVE n \div 10000 <= m
  BY <1>2
<1>3. \A n \in Nat : n <= m * 10000 => n \div 10000 <= m
  BY <1>2
<1> DEFINE product == m * bps
<1>4. product \in Nat /\ product <= m * 10000
  BY <1>1 DEF BPS_DENOMINATOR
<1> HIDE DEF product
<1>5. product \div 10000 <= m
  BY <1>3, <1>4
<1> QED
  BY <1>5 DEF product, BPS_DENOMINATOR

\* One bond more, or one less, in an account that holds n of them.
LEMMA OneMore ==
  ASSUME NEW m \in Nat, NEW n \in Nat
  PROVE  /\ m * (n + 1) = m * n + m
         /\ m * (n - 1) = m * n - m
  OBVIOUS

\* No route burns a negative amount: the reward is never more than the bond.
LEMMA BurnIsNat ==
  ASSUME NEW c \in ChallengeAddresses, NEW split \in Route(c)
  PROVE  split.burned \in Nat
<1>1. CASE split \in BuiltInRoute
  <2>1. Terms.executorRewardBps \in 0..BPS_DENOMINATOR
    BY TermsAssumption DEF checkRunTerms
  <2>2. builtInSettlement(Terms).reward <= Terms.executorBondLamports
    BY <2>1, ShareBelowWhole, TermsType DEF builtInSettlement
  <2>3. builtInSettlement(Terms).burn \in Nat
    BY <2>2, BuiltInWhole, TermsType DEF builtInSettlement
  <2> QED
    BY <1>1, <2>3 DEF BuiltInRoute
<1>2. CASE split \in CustomRoute
  BY <1>2, TermsType DEF CustomRoute
<1> QED
  BY <1>1, <1>2 DEF Route

-----------------------------------------------------------------------------
(* What each instruction moves                                             *)

\* Opening posts one challenger bond, and leaves the rest of the bank alone.
LEMMA PostedBank ==
  ASSUME bank \in Banks, PostChallengerBond
  PROVE  /\ bank'.document = bank.document
         /\ bank'.records = bank.records + Terms.challengerBondLamports
         /\ bank'.executor = bank.executor
         /\ bank'.challengers = bank.challengers - Terms.challengerBondLamports
         /\ bank'.burned = bank.burned
BY DEF PostChallengerBond, Banks

\* Closing a record gives its bond to one side, and never to nobody: a ruled
\* record names a winner.
LEMMA ReturnedBank ==
  ASSUME bank \in Banks, NEW winner \in {WINNER_EXECUTOR, WINNER_CHALLENGER}
  PROVE  LET b == ReturnedBond(winner)
         IN  /\ b \in Banks
             /\ b.document = bank.document
             /\ b.records = bank.records - Terms.challengerBondLamports
             /\ b.executor + b.challengers
                  = bank.executor + bank.challengers + Terms.challengerBondLamports
             /\ b.executor >= bank.executor
             /\ b.burned = bank.burned
<1> DEFINE b == ReturnedBond(winner)
<1>1. b \in Banks
  BY ReturnedType
<1>2. /\ b.document = bank.document
      /\ b.records = bank.records - Terms.challengerBondLamports
      /\ b.burned = bank.burned
      /\ b.executor = IF winner = WINNER_EXECUTOR
                        THEN bank.executor + Terms.challengerBondLamports ELSE bank.executor
      /\ b.challengers = IF winner = WINNER_CHALLENGER
                           THEN bank.challengers + Terms.challengerBondLamports
                           ELSE bank.challengers
  BY DEF ReturnedBond, Banks
<1>3. /\ bank.executor \in Int
      /\ bank.challengers \in Int
      /\ Terms.challengerBondLamports \in Nat
  BY TermsType DEF Banks
<1>4. CASE winner = WINNER_EXECUTOR
  BY <1>1, <1>2, <1>3, <1>4 DEF WINNER_EXECUTOR, WINNER_CHALLENGER
<1>5. CASE winner = WINNER_CHALLENGER
  BY <1>1, <1>2, <1>3, <1>5 DEF WINNER_EXECUTOR, WINNER_CHALLENGER
<1> QED
  BY <1>4, <1>5

\* Dividing the executor bond empties the document of it, whichever the route.
LEMMA DividedBank ==
  ASSUME NEW b \in Banks, NEW c \in ChallengeAddresses, NEW split \in Route(c)
  PROVE  LET d == DivideBond(b, split)
         IN  /\ d.document = b.document - Terms.executorBondLamports
             /\ d.records = b.records
             /\ d.executor + d.challengers + d.burned
                  = b.executor + b.challengers + b.burned + Terms.executorBondLamports
             /\ d.burned >= b.burned
<1> DEFINE d == DivideBond(b, split)
<1>1. /\ d.document = b.document - Terms.executorBondLamports
      /\ d.records = b.records
      /\ d.executor = b.executor + split.loser
      /\ d.challengers = b.challengers + split.winner
      /\ d.burned = b.burned + split.burned
  BY DEF DivideBond, Banks
<1>2. /\ split.winner \in Int
      /\ split.loser \in Int
      /\ split.burned \in Nat
      /\ split.winner + split.loser + split.burned = Terms.executorBondLamports
  BY RouteDividesPot, BurnIsNat
<1>3. b.executor \in Int /\ b.challengers \in Int /\ b.burned \in Int
  BY DEF Banks
<1> QED
  BY <1>1, <1>2, <1>3

-----------------------------------------------------------------------------
(* Each instruction keeps the ledger                                       *)

\* The members of the ledger that stay when neither the bank, nor the number of
\* live records, nor the bond's state changes.
LEMMA BankKept ==
  ASSUME EscrowAccounted,
         UNCHANGED bank,
         Cardinality(Live') = Cardinality(Live),
         document'.executorBondState = document.executorBondState,
         document'.account = document.account
  PROVE  EscrowAccounted'
BY DEF EscrowAccounted, EscrowBacked, LamportsConserved

LEMMA OpenBank ==
  ASSUME IInv, EscrowAccounted,
         NEW c \in ChallengeAddresses, OpenChallenge(c) \/ OpenAndConvict(c)
  PROVE  EscrowAccounted'
<1>1. TypeOK /\ OpenChallengesExact /\ bank \in Banks
  BY DEF IInv, TypeOK
<1>2. OpenChallengesExact'
  BY <1>1, OpenTypeStep
<1>3. PostChallengerBond
  BY DEF OpenChallenge, OpenAndConvict
<1>4. /\ document'.account = document.account
      /\ document'.executorBondState = document.executorBondState
      /\ document'.openChallenges = document.openChallenges + 1
  BY <1>1 DEF OpenChallenge, OpenAndConvict, CountOpen, MarkRuling, TypeOK, Documents
<1>5. Cardinality(Live) \in Nat /\ Cardinality(Live') = Cardinality(Live) + 1
  BY <1>1, <1>2, <1>4, LiveFinite DEF OpenChallengesExact
<1>6. Terms.challengerBondLamports * Cardinality(Live')
        = Terms.challengerBondLamports * Cardinality(Live) + Terms.challengerBondLamports
  BY <1>5, OneMore, TermsType
<1>7. EscrowBacked'
  BY <1>1, <1>3, <1>4, <1>6, PostedBank DEF EscrowAccounted, EscrowBacked
<1>8. LamportsConserved'
  <2>1. /\ bank.document \in Int /\ bank.records \in Int /\ bank.executor \in Int
        /\ bank.challengers \in Int /\ bank.burned \in Int
        /\ Terms.challengerBondLamports \in Nat
    BY <1>1, TermsType DEF Banks
  <2> QED
    BY <1>1, <1>3, <2>1, PostedBank DEF EscrowAccounted, LamportsConserved
<1> QED
  BY <1>1, <1>3, <1>4, <1>7, <1>8, PostedBank DEF EscrowAccounted

LEMMA SettleBank ==
  ASSUME IInv, EscrowAccounted, NEW c \in ChallengeAddresses, Settle(c)
  PROVE  EscrowAccounted'
<1>1. TypeOK /\ OpenChallengesExact /\ bank \in Banks
  BY DEF IInv, TypeOK
<1>2. CloseRecord(c)
  BY DEF Settle, SettleWithPot, SettleWithoutPot
<1>3. challenges[c].phase = RULED /\ challenges' = [challenges EXCEPT ![c] = NoRecord]
  BY <1>2 DEF CloseRecord
<1>4. Cardinality(Live') = Cardinality(Live) - 1 /\ Cardinality(Live) \in Nat
  BY <1>1, <1>3, LiveShrinks, LiveFinite DEF RULED, ABSENT
<1>5. Terms.challengerBondLamports * Cardinality(Live')
        = Terms.challengerBondLamports * Cardinality(Live) - Terms.challengerBondLamports
  BY <1>4, OneMore, TermsType
<1>6. challenges[c].winner \in {WINNER_EXECUTOR, WINNER_CHALLENGER}
  BY <1>1, <1>3 DEF IInv, RefutationRecorded, TypeOK, ChallengeRecords
<1>7. /\ bank.document \in Int /\ bank.records \in Int /\ bank.executor \in Int
      /\ bank.challengers \in Int /\ bank.burned \in Int
      /\ Terms.challengerBondLamports \in Nat
      /\ Terms.executorBondLamports \in Nat
  BY <1>1, TermsType DEF Banks
<1> DEFINE b == ReturnedBond(challenges[c].winner)
<1>8. /\ b \in Banks
      /\ b.document = bank.document
      /\ b.records = bank.records - Terms.challengerBondLamports
      /\ b.executor + b.challengers
           = bank.executor + bank.challengers + Terms.challengerBondLamports
      /\ b.executor >= bank.executor
      /\ b.burned = bank.burned
  BY <1>1, <1>6, ReturnedBank
<1>9. b.executor \in Int /\ b.challengers \in Int
  BY <1>8 DEF Banks
<1>10. CASE SettleWithPot(c)
  <2>1. /\ challenges[c].winner = WINNER_CHALLENGER
        /\ document.executorBondState = BOND_HELD
    BY <1>10 DEF SettleWithPot
  <2>2. document'.account = document.account /\ document'.executorBondState = BOND_PAID
    BY <1>1, <1>10 DEF SettleWithPot, TypeOK, Documents
  <2>3. PICK split \in Route(c) : bank' = DivideBond(b, split)
    BY <1>10, <2>1 DEF SettleWithPot
  <2> HIDE DEF b
  <2>4. /\ bank'.document = b.document - Terms.executorBondLamports
        /\ bank'.records = b.records
        /\ bank'.executor + bank'.challengers + bank'.burned
             = b.executor + b.challengers + b.burned + Terms.executorBondLamports
        /\ bank'.burned >= b.burned
    BY <1>8, <2>3, DividedBank
  <2>5. bank'.executor \in Int /\ bank'.challengers \in Int /\ bank'.burned \in Int
    BY <1>8, <2>3, DividedType DEF Banks
  <2>6. document.account = "live"
    BY <2>1 DEF IInv, BondJustified
  <2>7. bank.document = Terms.executorBondLamports
    BY <2>1, <2>6 DEF EscrowAccounted, EscrowBacked
  <2>8. EscrowBacked'
    <3>1. bank'.document = 0
      BY <1>7, <1>8, <2>4, <2>7
    <3>2. bank'.records = Terms.challengerBondLamports * Cardinality(Live')
      BY <1>5, <1>8, <2>4 DEF EscrowAccounted, EscrowBacked
    <3> QED
      BY <2>2, <3>1, <3>2 DEF EscrowBacked, BOND_PAID, BOND_HELD
  <2>9. LamportsConserved'
    BY <1>7, <1>8, <1>9, <2>4, <2>5, <2>7 DEF EscrowAccounted, LamportsConserved
  <2> QED
    BY <2>2, <2>8, <2>9 DEF EscrowAccounted
<1>11. CASE SettleWithoutPot(c)
  <2>1. /\ document'.account = document.account
        /\ document'.executorBondState = document.executorBondState
        /\ bank' = b
    BY <1>1, <1>11 DEF SettleWithoutPot, TypeOK, Documents
  <2> HIDE DEF b
  <2>2. EscrowBacked'
    BY <1>5, <1>8, <2>1 DEF EscrowAccounted, EscrowBacked
  <2>3. LamportsConserved'
    BY <1>7, <1>8, <1>9, <2>1 DEF EscrowAccounted, LamportsConserved
  <2>4. ASSUME document.executorBondState # BOND_PAID
        PROVE  /\ bank'.burned = 0
               /\ bank'.executor >= IF document.executorBondState = BOND_HELD
                                      THEN - Terms.executorBondLamports ELSE 0
    BY <1>7, <1>8, <1>9, <2>1, <2>4 DEF EscrowAccounted
  <2> QED
    BY <2>1, <2>2, <2>3, <2>4 DEF EscrowAccounted
<1> QED
  BY <1>10, <1>11 DEF Settle

LEMMA CreateBank == ASSUME IInv, EscrowAccounted, UnifiedInit PROVE EscrowAccounted'
<1>1. TypeOK /\ bank \in Banks /\ document' = NewDocument /\ Live' = Live
  BY QuietStep DEF IInv, TypeOK, UnifiedInit
<1>2. document.account = "empty" /\ document.executorBondState = BOND_NONE
  <2>1. document.account \in {"empty", "live", "drained"}
    BY <1>1 DEF TypeOK, Documents
  <2> QED
    BY <2>1 DEF IInv, UnifiedInit, AccountsCoupled, EmptyDocument
<1>3. /\ document'.account = "live"
      /\ document'.executorBondState =
           IF Terms.executorBondLamports = 0 THEN BOND_NONE ELSE BOND_HELD
  BY <1>1 DEF NewDocument, EmptyDocument
<1>4. /\ bank'.document = bank.document + Terms.executorBondLamports
      /\ bank'.executor = bank.executor - Terms.executorBondLamports
      /\ bank'.records = bank.records
      /\ bank'.challengers = bank.challengers
      /\ bank'.burned = bank.burned
  BY <1>1 DEF UnifiedInit, Banks
<1>5. /\ bank.document \in Int /\ bank.records \in Int /\ bank.executor \in Int
      /\ bank.challengers \in Int /\ bank.burned \in Int
      /\ Terms.executorBondLamports \in Nat
  BY <1>1, TermsType DEF Banks
<1>6. bank.document = 0 /\ bank.burned = 0 /\ bank.executor >= 0
  BY <1>2 DEF EscrowAccounted, EscrowBacked, BOND_NONE, BOND_HELD, BOND_PAID
<1>7. EscrowBacked'
  BY <1>1, <1>3, <1>4, <1>5, <1>6 DEF EscrowAccounted, EscrowBacked, BOND_NONE, BOND_HELD
<1>8. LamportsConserved'
  BY <1>4, <1>5 DEF EscrowAccounted, LamportsConserved
<1> QED
  BY <1>3, <1>4, <1>5, <1>6, <1>7, <1>8 DEF EscrowAccounted, BOND_NONE, BOND_HELD

\* Closing gives a bond that is still held back to the executor; nothing else
\* is in escrow by then.
LEMMA CloseBank ==
  ASSUME IInv, EscrowAccounted, NEW status, CloseWith(status)
  PROVE  EscrowAccounted'
<1>1. TypeOK /\ bank \in Banks /\ Live' = Live
  BY DEF IInv, TypeOK, CloseWith, Live
<1>2. /\ document.account = "live"
      /\ document'.account = "drained"
      /\ document'.executorBondState = IF document.executorBondState = BOND_HELD
                                         THEN BOND_RETURNED ELSE document.executorBondState
  BY <1>1 DEF CloseWith, TypeOK, Documents
<1>3. /\ bank.document \in Int /\ bank.records \in Int /\ bank.executor \in Int
      /\ bank.challengers \in Int /\ bank.burned \in Int
      /\ Terms.executorBondLamports \in Nat
  BY <1>1, TermsType DEF Banks
<1>4. CASE document.executorBondState = BOND_HELD
  <2>1. /\ bank'.document = bank.document - Terms.executorBondLamports
        /\ bank'.executor = bank.executor + Terms.executorBondLamports
        /\ bank'.records = bank.records
        /\ bank'.challengers = bank.challengers
        /\ bank'.burned = bank.burned
    BY <1>1, <1>4 DEF CloseWith, Banks
  <2>2. /\ bank.document = Terms.executorBondLamports
        /\ bank.burned = 0
        /\ bank.executor >= - Terms.executorBondLamports
    BY <1>2, <1>4 DEF EscrowAccounted, EscrowBacked, BOND_HELD, BOND_PAID
  <2>3. EscrowBacked'
    BY <1>1, <1>2, <1>3, <2>1, <2>2 DEF EscrowAccounted, EscrowBacked
  <2>4. LamportsConserved'
    BY <1>3, <2>1 DEF EscrowAccounted, LamportsConserved
  <2>5. bank'.executor >= 0 /\ bank'.burned = 0
    BY <1>3, <2>1, <2>2
  <2> QED
    BY <1>2, <1>4, <2>3, <2>4, <2>5 DEF EscrowAccounted, BOND_RETURNED, BOND_HELD
<1>5. CASE document.executorBondState # BOND_HELD
  <2>1. bank' = bank /\ document'.executorBondState = document.executorBondState
    BY <1>2, <1>5 DEF CloseWith
  <2> QED
    BY <1>1, <1>2, <1>5, <2>1 DEF EscrowAccounted, EscrowBacked, LamportsConserved
<1> QED
  BY <1>4, <1>5

\* The instructions that move no lamport.
LEMMA StillBank ==
  ASSUME IInv, EscrowAccounted,
         \/ Tick \/ LandPositionRoots
         \/ \E index \in Outputs : AttestOutput(index)
         \/ FinalizeDocument \/ ResolveResult \/ CloseResult \/ UNCHANGED vars
  PROVE  EscrowAccounted'
<1>1. TypeOK /\ Live' = Live
  BY QuietStep DEF IInv
<1>2. UNCHANGED bank
  BY DEF Tick, LandPositionRoots, landPositionRoots, AttestOutput, FinalizeDocument,
         ResolveResult, CloseResult, vars
<1>3. /\ document'.account = document.account
      /\ document'.executorBondState = document.executorBondState
  BY <1>1
  DEF Tick, LandPositionRoots, landPositionRoots, AttestOutput, FinalizeDocument,
      ResolveResult, CloseResult, vars, TypeOK, Documents
<1> QED
  BY <1>1, <1>2, <1>3, BankKept

\* Neither do the turns of a challenge, whose record stays live.
LEMMA TurnBank ==
  ASSUME IInv, EscrowAccounted, NEW c \in ChallengeAddresses,
         \/ Respond(c)
         \/ \E winner \in {WINNER_EXECUTOR, WINNER_CHALLENGER} : Verdict(c, winner)
         \/ Timeout(c)
  PROVE  EscrowAccounted'
<1>1. TypeOK
  BY DEF IInv
<1>2. PICK record \in ChallengeRecords :
        /\ record.phase # ABSENT
        /\ challenges' = [challenges EXCEPT ![c] = record]
        /\ \/ document' = document
           \/ \E winner \in {WINNER_EXECUTOR, WINNER_CHALLENGER} :
                document' = MarkRuling(document, winner)
  BY <1>1, TurnStep
<1>3. UNCHANGED bank /\ challenges[c].phase # ABSENT
  BY <1>1, TurnStep
<1>4. Live' = Live
  BY <1>1, <1>2, <1>3, LiveKept
<1>5. /\ document'.account = document.account
      /\ document'.executorBondState = document.executorBondState
  BY <1>1, <1>2 DEF MarkRuling, TypeOK, Documents
<1> QED
  BY <1>3, <1>4, <1>5, BankKept

LEMMA EscrowInit == Init => EscrowAccounted
<1> SUFFICES ASSUME Init PROVE EscrowAccounted
  OBVIOUS
<1>1. Live = {} /\ Cardinality(Live) = 0
  BY FS_EmptySet DEF Init, Live, NoRecord
<1>2. Terms.challengerBondLamports * 0 = 0
  BY TermsType
<1>3. document.account = "empty" /\ document.executorBondState = BOND_NONE
  BY DEF Init, EmptyDocument
<1> QED
  BY <1>1, <1>2, <1>3
  DEF Init, EscrowAccounted, EscrowBacked, LamportsConserved, BOND_NONE, BOND_HELD

LEMMA EscrowStep == ASSUME IInv, EscrowAccounted, [Next]_vars PROVE EscrowAccounted'
<1>1. ASSUME NEW c \in ChallengeAddresses, ChallengeStep(c) PROVE EscrowAccounted'
  BY <1>1, OpenBank, TurnBank, SettleBank DEF ChallengeStep
<1>2. CASE UnifiedInit
  BY <1>2, CreateBank
<1>3. CASE AbandonDocument
  BY <1>3, CloseBank DEF AbandonDocument
<1>4. CASE CloseDocument
  BY <1>4, CloseBank DEF CloseDocument
<1>5. CASE \/ Tick \/ LandPositionRoots
           \/ \E index \in Outputs : AttestOutput(index)
           \/ FinalizeDocument \/ ResolveResult \/ CloseResult \/ UNCHANGED vars
  BY <1>5, StillBank
<1> QED
  BY <1>1, <1>2, <1>3, <1>4, <1>5 DEF Next

-----------------------------------------------------------------------------
(* The theorems                                                            *)

\* The ledger holds in every reachable state.
THEOREM EscrowInductive == Spec => []EscrowAccounted
<1>1. IInv /\ EscrowAccounted /\ [Next]_vars => EscrowAccounted'
  BY EscrowStep
<1> QED
  BY <1>1, EscrowInit, Inductive, PTL DEF Spec

\* The header account holds the executor bond exactly while the bond is held,
\* and the challenge accounts one challenger bond for each live record.
THEOREM EscrowIsBacked == Spec => []EscrowBacked
<1>1. EscrowAccounted => EscrowBacked
  BY DEF EscrowAccounted
<1> QED
  BY <1>1, EscrowInductive, PTL

\* No instruction makes or loses a lamport, whichever route divides a bond.
THEOREM LamportsAreConserved == Spec => []LamportsConserved
<1>1. EscrowAccounted => LamportsConserved
  BY DEF EscrowAccounted
<1> QED
  BY <1>1, EscrowInductive, PTL

\* The bond of a closed document went one way only, and an executor that lost no
\* challenge has lost no lamport.
THEOREM BondIsSettled == Spec => []BondFate
<1>1. ASSUME IInv, EscrowAccounted PROVE BondFate
  <2> SUFFICES ASSUME document.account = "drained"
               PROVE  IF document.challengerWins > 0
                        THEN document.executorBondState \in {BOND_NONE, BOND_PAID}
                        ELSE /\ document.executorBondState \in {BOND_NONE, BOND_RETURNED}
                             /\ bank.executor >= 0
                             /\ bank.burned = 0
    BY DEF BondFate
  <2>1. document.executorBondState \in {BOND_NONE, BOND_HELD, BOND_PAID, BOND_RETURNED}
    BY <1>1 DEF IInv, TypeOK, Documents
  <2>2. document.executorBondState # BOND_HELD
    BY <1>1 DEF IInv, BondJustified
  <2>3. CASE document.challengerWins > 0
    BY <1>1, <2>1, <2>2, <2>3 DEF IInv, BondJustified, RefutationRecorded
  <2>4. CASE ~ (document.challengerWins > 0)
    <3>1. document.executorBondState # BOND_PAID
      BY <1>1, <2>4 DEF IInv, BondJustified, RefutationRecorded
    <3> QED
      BY <1>1, <2>1, <2>2, <2>4, <3>1 DEF EscrowAccounted
  <2> QED
    BY <2>3, <2>4
<1> QED
  BY <1>1, EscrowInductive, Inductive, PTL


-----------------------------------------------------------------------------
(* What a step leaves of the two accounts                                  *)

\* No instruction about a challenge touches the result record, and it finds a
\* finalized document whose result is not accepted.
LEMMA ChallengeEffect ==
  ASSUME IInv, NEW c \in ChallengeAddresses, ChallengeStep(c)
  PROVE  /\ UNCHANGED <<slot, result>>
         /\ document.account = "live"
         /\ document'.account = "live"
         /\ result.account = "DCR2"
         /\ result.status \notin USABLE_STATUSES
         /\ document'.challengerWins \in {document.challengerWins, document.challengerWins + 1}
<1>1. TypeOK /\ OpenChallengesExact
  BY DEF IInv
<1>2. document.account = "live" => result.account = "DCR2"
  BY DEF IInv, AccountsCoupled
<1>3. CASE OpenChallenge(c) \/ OpenAndConvict(c)
  <2>1. /\ document.account = "live"
        /\ slot <= document.disputeDeadline
        /\ UNCHANGED <<slot, result>>
    BY <1>3 DEF OpenChallenge, OpenAndConvict, MayOpen
  <2>2. slot \in Int /\ document.disputeDeadline \in Int
    BY <1>1 DEF TypeOK, Documents, Slots
  <2>3. result.status \notin USABLE_STATUSES
    BY <2>1, <2>2 DEF IInv, StatusJustified
  <2>4. /\ document'.account = document.account
        /\ document'.challengerWins
             \in {document.challengerWins, document.challengerWins + 1}
    BY <1>1, <1>3
    DEF OpenChallenge, OpenAndConvict, CountOpen, MarkRuling, TypeOK, Documents
  <2> QED
    BY <1>2, <2>1, <2>3, <2>4
<1>4. ASSUME challenges[c].phase # ABSENT
      PROVE  document.account = "live" /\ result.status \notin USABLE_STATUSES
  <2>1. c \in Live
    BY <1>4 DEF Live
  <2> QED
    BY <2>1 DEF IInv, OpenChallengesExact, StatusJustified
<1>5. CASE \/ Respond(c)
           \/ \E winner \in {WINNER_EXECUTOR, WINNER_CHALLENGER} : Verdict(c, winner)
           \/ Timeout(c)
  <2>1. challenges[c].phase # ABSENT /\ UNCHANGED <<slot, result>>
    BY <1>1, <1>5, TurnStep
  <2>2. document' = document \/ \E winner : document' = MarkRuling(document, winner)
    BY <1>1, <1>5, TurnStep
  <2>3. /\ document'.account = document.account
        /\ document'.challengerWins
             \in {document.challengerWins, document.challengerWins + 1}
    BY <1>1, <2>2 DEF MarkRuling, TypeOK, Documents
  <2> QED
    BY <1>2, <1>4, <2>1, <2>3
<1>6. CASE Settle(c)
  <2>1. challenges[c].phase # ABSENT /\ UNCHANGED <<slot, result>>
    BY <1>6 DEF Settle, SettleWithPot, SettleWithoutPot, CloseRecord, RULED, ABSENT
  <2>2. document'.account = document.account
          /\ document'.challengerWins = document.challengerWins
    BY <1>1, <1>6 DEF Settle, SettleWithPot, SettleWithoutPot, TypeOK, Documents
  <2> QED
    BY <1>2, <1>4, <2>1, <2>2
<1> QED
  BY <1>3, <1>5, <1>6 DEF ChallengeStep

\* What a close writes into the two accounts, whichever path it takes.
LEMMA CloseEffect ==
  ASSUME TypeOK, NEW status \in Statuses, CloseWith(status)
  PROVE  /\ document.account = "live"
         /\ document'.account = "drained"
         /\ document'.challengerWins = document.challengerWins
         /\ result.account = "DCR2"
         /\ result'.account = "DCR2"
         /\ result'.status = status
         /\ result'.documentRoot = result.documentRoot
         /\ result'.outputs = result.outputs
<1> DEFINE r == IF status = result.status THEN result ELSE WriteStatus(result, status)
<1>1. /\ r.account = result.account
      /\ r.status = status
      /\ r.documentRoot = result.documentRoot
      /\ r.outputs = result.outputs
      /\ r \in Results
  BY DEF WriteStatus, TypeOK, Results, Documents
<1>2. result' = StartRetention(r)
  BY DEF CloseWith
<1>3. document.account = "live" /\ result.account = "DCR2"
  BY DEF CloseWith
<1>4. /\ document'.account = "drained"
      /\ document'.challengerWins = document.challengerWins
  BY DEF CloseWith, TypeOK, Documents
<1> HIDE DEF r
<1>5. /\ result'.account = r.account
      /\ result'.status = r.status
      /\ result'.documentRoot = r.documentRoot
      /\ result'.outputs = r.outputs
  BY <1>1, <1>2 DEF StartRetention, Results
<1> QED
  BY <1>1, <1>3, <1>4, <1>5

\* A close follows one of three paths, each with the status it may leave.
LEMMA ClosePaths ==
  ASSUME IInv, AbandonDocument \/ CloseDocument
  PROVE  \E status \in Statuses :
           /\ CloseWith(status)
           /\ \/ status = result.status /\ ~ Finalized
              \/ status = STATUS_REFUTED /\ Refuted
              \/ status = STATUS_SETTLED /\ ~ Refuted /\ AllAttested
<1>1. CASE AbandonDocument
  BY <1>1 DEF AbandonDocument, IInv, TypeOK, Results
<1>2. CASE CloseDocument
  BY <1>2 DEF CloseDocument, Statuses
<1> QED
  BY <1>1, <1>2

\* What the other instructions leave of the record's place in its life.
LEMMA LandEffect ==
  ASSUME TypeOK, Tick \/ LandPositionRoots \/ FinalizeDocument \/ UNCHANGED vars
  PROVE  /\ document'.account = document.account
         /\ document'.challengerWins = document.challengerWins
         /\ result'.account = result.account
         /\ result'.status = result.status
         /\ result'.outputs = result.outputs
         /\ result' = result \/ (document.account = "live" /\ ~ Finalized)
BY DEF Tick, LandPositionRoots, landPositionRoots, FinalizeDocument, finalizeResult, vars,
       TypeOK, Documents, Results

LEMMA AttestEffect ==
  ASSUME TypeOK, NEW index \in Outputs, AttestOutput(index)
  PROVE  /\ document.account = "live"
         /\ result.account = "DCR2"
         /\ index \notin result.outputs
         /\ result'.account = result.account
         /\ result'.status = result.status
         /\ result'.documentRoot = result.documentRoot
         /\ result'.outputs = result.outputs \cup {index}
         /\ UNCHANGED document
BY DEF AttestOutput, TypeOK, Results

LEMMA ResolveEffect ==
  ASSUME IInv, ResolveResult
  PROVE  /\ document.account = "live"
         /\ result.account = "DCR2"
         /\ result.status = STATUS_PENDING
         /\ result'.account = "DCR2"
         /\ result'.outputs = result.outputs
         /\ \/ Refuted /\ result'.status = STATUS_REFUTED
            \/ ~ Refuted /\ AllAttested /\ result'.status = STATUS_FINAL
         /\ UNCHANGED document
BY DEF ResolveResult, WriteStatus, FinalReady, IInv, TypeOK, Results

\* Only a closed record of a drained document is retired.
LEMMA RetireEffect ==
  ASSUME IInv, CloseResult
  PROVE  /\ document.account = "drained"
         /\ result.account = "DCR2"
         /\ result'.account = "DCRZ"
         /\ result'.outputs = {}
         /\ slot >= result.retentionDeadline
         /\ result.retentionDeadline = result.retentionStartSlot + Terms.resultRetentionSlots
         /\ UNCHANGED document
<1>1. document.account \in {"empty", "live", "drained"}
  BY DEF IInv, TypeOK, Documents
<1>2. result.account = "DCR2" /\ result.documentClosed = 1
  BY DEF CloseResult
<1>3. document.account = "drained"
  BY <1>1, <1>2 DEF IInv, AccountsCoupled, EmptyResult
<1> QED
  BY <1>3 DEF CloseResult, RetentionOver, EmptyResult

\* Only an account that never was is created.
LEMMA CreateEffect ==
  ASSUME IInv, UnifiedInit
  PROVE  /\ document = EmptyDocument
         /\ result = EmptyResult
         /\ document' = NewDocument
         /\ result' = atInit
<1>1. document.account \in {"empty", "live", "drained"}
  BY DEF IInv, TypeOK, Documents
<1> QED
  BY <1>1 DEF IInv, UnifiedInit, AccountsCoupled

-----------------------------------------------------------------------------
(* What a step may never do                                                *)

\* An accepted result keeps its root and its outputs and stays usable until it
\* is retired, and it is retired only when its retention has run.
THEOREM AcceptedAnswerIsStable == Spec => AnswerIsStable
<1> DEFINE Kept ==
      \/ /\ usable'
         /\ result'.documentRoot = result.documentRoot
         /\ result'.outputs = result.outputs
      \/ /\ result'.account = "DCRZ"
         /\ slot >= result.retentionDeadline
<1>1. ASSUME IInv, [Next]_vars, usable PROVE Kept
  <2>1. /\ result.account = "DCR2"
        /\ result.status \in USABLE_STATUSES
        /\ result.outputs = Outputs
        /\ result.documentRoot # 0
    BY <1>1 DEF usable, AllAttested
  <2>2. Finalized /\ ~ Refuted
    BY <1>1, <2>1 DEF IInv, StatusJustified
  <2>3. TypeOK
    BY <1>1 DEF IInv
  <2>4. ASSUME result' = result PROVE Kept
    BY <1>1, <2>4 DEF usable, AllAttested
  <2>5. CASE UnifiedInit
    BY <1>1, <2>1, <2>5, CreateEffect DEF EmptyResult
  <2>6. CASE Tick \/ LandPositionRoots \/ FinalizeDocument \/ UNCHANGED vars
    BY <2>2, <2>3, <2>4, <2>6, LandEffect
  <2>7. ASSUME NEW index \in Outputs, AttestOutput(index) PROVE Kept
    BY <2>1, <2>3, <2>7, AttestEffect
  <2>8. ASSUME NEW c \in ChallengeAddresses, ChallengeStep(c) PROVE Kept
    BY <1>1, <2>4, <2>8, ChallengeEffect
  <2>9. CASE ResolveResult
    BY <1>1, <2>1, <2>9, ResolveEffect
    DEF USABLE_STATUSES, STATUS_FINAL, STATUS_SETTLED, STATUS_PENDING
  <2>10. CASE AbandonDocument \/ CloseDocument
    <3>1. PICK status \in Statuses :
            CloseWith(status) /\ status \in {result.status, STATUS_SETTLED}
      BY <1>1, <2>2, <2>10, ClosePaths
    <3>2. status \in USABLE_STATUSES
      BY <2>1, <3>1 DEF USABLE_STATUSES
    <3>3. /\ result'.account = "DCR2"
          /\ result'.status = status
          /\ result'.documentRoot = result.documentRoot
          /\ result'.outputs = result.outputs
      BY <2>3, <3>1, CloseEffect
    <3> QED
      BY <2>1, <3>2, <3>3 DEF usable, AllAttested
  <2>11. CASE CloseResult
    BY <1>1, <2>11, RetireEffect
  <2> QED
    BY <1>1, <2>5, <2>6, <2>7, <2>8, <2>9, <2>10, <2>11 DEF Next
<1>2. IInv /\ [Next]_vars => [usable => Kept]_vars
  BY <1>1
<1> QED
  BY <1>2, Inductive, PTL DEF Spec, AnswerIsStable

\* A record leaves only for its tombstone, beside a drained document and after
\* its whole retention, and a tombstone is never written again.
THEOREM RetentionIsHonoured == Spec => RetentionHonoured
<1> DEFINE Honoured ==
      /\ result.account = "DCR2" /\ result'.account # "DCR2" =>
           /\ result'.account = "DCRZ"
           /\ document.account = "drained"
           /\ slot >= result.retentionStartSlot + Terms.resultRetentionSlots
      /\ result.account = "DCRZ" => result' = result
<1>1. ASSUME IInv, [Next]_vars PROVE Honoured
  <2>1. TypeOK
    BY <1>1 DEF IInv
  <2>2. document.account = "live" => result.account = "DCR2"
    BY <1>1 DEF IInv, AccountsCoupled
  <2>3. CASE UnifiedInit
    BY <1>1, <2>3, CreateEffect DEF EmptyResult
  <2>4. CASE Tick \/ LandPositionRoots \/ FinalizeDocument \/ UNCHANGED vars
    BY <2>1, <2>2, <2>4, LandEffect
  <2>5. ASSUME NEW index \in Outputs, AttestOutput(index) PROVE Honoured
    BY <2>1, <2>5, AttestEffect
  <2>6. ASSUME NEW c \in ChallengeAddresses, ChallengeStep(c) PROVE Honoured
    BY <1>1, <2>6, ChallengeEffect
  <2>7. CASE ResolveResult
    BY <1>1, <2>7, ResolveEffect
  <2>8. CASE AbandonDocument \/ CloseDocument
    BY <1>1, <2>1, <2>8, ClosePaths, CloseEffect
  <2>9. CASE CloseResult
    BY <1>1, <2>9, RetireEffect
  <2> QED
    BY <1>1, <2>3, <2>4, <2>5, <2>6, <2>7, <2>8, <2>9 DEF Next
<1>2. IInv /\ [Next]_vars => [Honoured]_vars
  BY <1>1
<1> QED
  BY <1>2, Inductive, PTL DEF Spec, RetentionHonoured

-----------------------------------------------------------------------------
(* The promise to consumers                                                *)

\* Where the record is in its life, from its account and its status.
LEMMA StageOfRecord ==
  ASSUME TypeOK
  PROVE  /\ result.account = "empty" => Stage = "absent"
         /\ result.account = "DCRZ" => Stage = "retired"
         /\ result.account = "DCR2" =>
              /\ result.status = STATUS_PENDING => Stage = "pending"
              /\ result.status \in USABLE_STATUSES => Stage = "accepted"
              /\ result.status = STATUS_REFUTED => Stage = "refuted"
BY DEF Stage, TypeOK, Results, Statuses, USABLE_STATUSES,
       STATUS_PENDING, STATUS_FINAL, STATUS_SETTLED, STATUS_REFUTED

LEMMA StageKept ==
  ASSUME result'.account = result.account, result'.status = result.status
  PROVE  Stage' = Stage
BY DEF Stage

\* A run is disputed, in the promise's words, exactly when it is refuted.
LEMMA DisputedIsRefuted ==
  ASSUME IInv PROVE (document.challengerWins > 0) <=> Refuted
BY DEF IInv, RefutationRecorded

LEMMA PromiseInitially == Init => ConsumerView!PromiseInit
<1> SUFFICES ASSUME Init PROVE ConsumerView!PromiseInit
  OBVIOUS
<1>1. Stage = "absent"
  BY TypeInit, StageOfRecord DEF Init, EmptyResult
<1> QED
  BY <1>1 DEF Init, EmptyResult, EmptyDocument, ConsumerView!PromiseInit

\* A lost dispute is allowed as long as the record is not accepted; winning one,
\* answering and settling do not show.
LEMMA ChallengeMaps ==
  ASSUME IInv, NEW c \in ChallengeAddresses, ChallengeStep(c)
  PROVE  [ConsumerView!PromiseNext]_(ConsumerView!promiseVars)
<1>1. TypeOK /\ Stage' = Stage /\ document.challengerWins \in Nat
  BY ChallengeEffect, StageKept DEF IInv, TypeOK, Documents
<1>2. /\ document.account = "live"
      /\ document'.account = "live"
      /\ result' = result
      /\ result.account = "DCR2"
      /\ result.status \notin USABLE_STATUSES
  BY ChallengeEffect
<1>3. Stage \in {"pending", "refuted"}
  BY <1>1, <1>2, StageOfRecord
  DEF TypeOK, Results, Statuses, USABLE_STATUSES
<1>4. CASE document'.challengerWins = document.challengerWins
  BY <1>1, <1>2, <1>4 DEF ConsumerView!promiseVars
<1>5. CASE document'.challengerWins = document.challengerWins + 1
  <2>1. ConsumerView!LoseDispute
    BY <1>1, <1>2, <1>3, <1>5 DEF ConsumerView!LoseDispute
  <2> QED
    BY <2>1 DEF ConsumerView!PromiseNext
<1> QED
  BY <1>4, <1>5, ChallengeEffect

\* A close writes a verdict if there was none, and keeps the one there was.
LEMMA CloseMaps ==
  ASSUME IInv, AbandonDocument \/ CloseDocument
  PROVE  ConsumerView!PromiseNext
<1>1. PICK status \in Statuses :
        /\ CloseWith(status)
        /\ \/ status = result.status /\ ~ Finalized
           \/ status = STATUS_REFUTED /\ Refuted
           \/ status = STATUS_SETTLED /\ ~ Refuted /\ AllAttested
  BY ClosePaths
<1>2. TypeOK /\ TypeOK'
  BY <1>1, TypeStep DEF IInv, Next
<1>3. /\ document.account = "live"
      /\ document'.account = "drained"
      /\ document'.challengerWins = document.challengerWins
      /\ result.account = "DCR2"
      /\ result'.account = "DCR2"
      /\ result'.status = status
      /\ result'.outputs = result.outputs
  BY <1>1, <1>2, CloseEffect
<1>4. ~ Finalized => ~ Refuted
  BY DEF IInv, RefutationRecorded
<1>5. /\ result.status = STATUS_REFUTED => Refuted
      /\ result.status \in USABLE_STATUSES => ~ Refuted
      /\ result.status \in Statuses
  BY <1>2 DEF IInv, StatusJustified, RefutedWasRuled, TypeOK, Results
<1>6. /\ Stage = "pending" => result.status = STATUS_PENDING
      /\ Stage # "absent"
  BY <1>2, <1>3, <1>5, StageOfRecord DEF Statuses, USABLE_STATUSES
<1>7. CASE Stage' = Stage
  <2>1. Stage = "pending" => ~ (document.challengerWins > 0)
    BY <1>1, <1>3, <1>4, <1>5, <1>6, <1>7, <1>2, StageOfRecord, DisputedIsRefuted
    DEF Stage, STATUS_PENDING, STATUS_REFUTED, STATUS_SETTLED, STATUS_FINAL, USABLE_STATUSES
  <2>2. ConsumerView!Close
    BY <1>3, <1>6, <1>7, <2>1 DEF ConsumerView!Close
  <2> QED
    BY <2>2 DEF ConsumerView!PromiseNext
<1>8. CASE Stage' # Stage
  <2>1. status # result.status
    BY <1>3, <1>8, StageKept
  <2>2. CASE status = STATUS_REFUTED /\ Refuted
    <3>1. result.status = STATUS_PENDING
      BY <1>5, <2>1, <2>2 DEF Statuses, USABLE_STATUSES
    <3>2. Stage = "pending" /\ Stage' = "refuted"
      BY <1>2, <1>3, <2>2, <3>1, StageOfRecord
      DEF Stage, STATUS_PENDING, STATUS_REFUTED, STATUS_SETTLED, STATUS_FINAL, USABLE_STATUSES
    <3>3. ConsumerView!Refute
      BY <1>3, <2>2, <3>2, DisputedIsRefuted DEF ConsumerView!Refute
    <3> QED
      BY <3>3 DEF ConsumerView!PromiseNext
  <2>3. CASE status = STATUS_SETTLED /\ ~ Refuted /\ AllAttested
    <3>1. result.status = STATUS_PENDING
      <4>1. result.status \notin USABLE_STATUSES
        BY <1>2, <1>3, <1>8, <2>3, StageOfRecord
        DEF Stage, STATUS_PENDING, STATUS_REFUTED, STATUS_SETTLED, STATUS_FINAL,
            USABLE_STATUSES
      <4> QED
        BY <1>5, <2>3, <4>1 DEF Statuses, USABLE_STATUSES
    <3>2. Stage = "pending" /\ Stage' = "accepted"
      BY <1>2, <1>3, <2>3, <3>1, StageOfRecord
      DEF Stage, STATUS_PENDING, STATUS_REFUTED, STATUS_SETTLED, STATUS_FINAL, USABLE_STATUSES
    <3>3. ConsumerView!Accept
      BY <1>3, <2>3, <3>2, DisputedIsRefuted DEF ConsumerView!Accept, AllAttested
    <3> QED
      BY <3>3 DEF ConsumerView!PromiseNext
  <2> QED
    BY <1>1, <2>1, <2>2, <2>3
<1> QED
  BY <1>7, <1>8

\* The verdict of a resolve is that of the rulings.
LEMMA ResolveMaps == ASSUME IInv, ResolveResult PROVE ConsumerView!PromiseNext
<1>1. TypeOK
  BY DEF IInv
<1>2. Stage = "pending"
  BY <1>1, ResolveEffect, StageOfRecord
<1>3. CASE Refuted /\ result'.status = STATUS_REFUTED
  <2>1. Stage' = "refuted"
    BY <1>3, ResolveEffect
    DEF Stage, STATUS_PENDING, STATUS_REFUTED, STATUS_SETTLED, STATUS_FINAL, USABLE_STATUSES
  <2>2. ConsumerView!Refute
    BY <1>2, <1>3, <2>1, ResolveEffect, DisputedIsRefuted DEF ConsumerView!Refute
  <2> QED
    BY <2>2 DEF ConsumerView!PromiseNext
<1>4. CASE ~ Refuted /\ AllAttested /\ result'.status = STATUS_FINAL
  <2>1. Stage' = "accepted"
    BY <1>4, ResolveEffect
    DEF Stage, STATUS_PENDING, STATUS_REFUTED, STATUS_SETTLED, STATUS_FINAL, USABLE_STATUSES
  <2>2. ConsumerView!Accept
    BY <1>2, <1>4, <2>1, ResolveEffect, DisputedIsRefuted
    DEF ConsumerView!Accept, AllAttested
  <2> QED
    BY <2>2 DEF ConsumerView!PromiseNext
<1> QED
  BY <1>3, <1>4, ResolveEffect

\* Every step of the document's life is a step of the promise, or does not show.
LEMMA StepMaps ==
  ASSUME IInv, [Next]_vars
  PROVE  [ConsumerView!PromiseNext]_(ConsumerView!promiseVars)
<1>1. TypeOK
  BY DEF IInv
<1>2. CASE UnifiedInit
  <2>1. /\ document.account = "empty"
        /\ document.challengerWins = 0
        /\ result.account = "empty"
        /\ result.outputs = {}
    BY <1>2, CreateEffect DEF EmptyDocument, EmptyResult
  <2>2. document'.account = "live" /\ document'.challengerWins = 0
    BY <1>2, CreateEffect DEF EmptyDocument, NewDocument
  <2>3. /\ result'.account = "DCR2"
        /\ result'.status = STATUS_PENDING
        /\ result'.outputs = {}
    BY <1>2, CreateEffect DEF EmptyResult, atInit
  <2>4. Stage = "absent" /\ Stage' = "pending"
    <3>1. Stage = "absent"
      BY <1>1, <2>1, StageOfRecord
    <3>2. Stage' = "pending"
      BY <2>3 DEF Stage, STATUS_PENDING, STATUS_FINAL, STATUS_SETTLED, STATUS_REFUTED,
                  USABLE_STATUSES
    <3> QED
      BY <3>1, <3>2
  <2>5. ConsumerView!Create
    BY <2>1, <2>2, <2>3, <2>4 DEF ConsumerView!Create
  <2> QED
    BY <2>5 DEF ConsumerView!PromiseNext
<1>3. CASE Tick \/ LandPositionRoots \/ FinalizeDocument \/ UNCHANGED vars
  <2>1. Stage' = Stage
    BY <1>1, <1>3, LandEffect, StageKept
  <2> QED
    BY <1>1, <1>3, <2>1, LandEffect DEF ConsumerView!promiseVars
<1>4. ASSUME NEW index \in Outputs, AttestOutput(index)
      PROVE  ConsumerView!PromiseNext
  <2>1. Stage' = Stage
    BY <1>1, <1>4, AttestEffect, StageKept
  <2>2. result.status \notin USABLE_STATUSES
    BY <1>1, <1>4, AttestEffect DEF IInv, StatusJustified, AllAttested
  <2>3. Stage \in {"pending", "refuted"}
    BY <1>1, <1>4, <2>2, AttestEffect, StageOfRecord
    DEF TypeOK, Results, Statuses, USABLE_STATUSES
  <2>4. ConsumerView!Prove(index)
    BY <1>1, <1>4, <2>1, <2>3, AttestEffect DEF ConsumerView!Prove
  <2> QED
    BY <2>4 DEF ConsumerView!PromiseNext
<1>5. ASSUME NEW c \in ChallengeAddresses, ChallengeStep(c)
      PROVE  [ConsumerView!PromiseNext]_(ConsumerView!promiseVars)
  BY <1>5, ChallengeMaps
<1>6. CASE ResolveResult
  BY <1>6, ResolveMaps
<1>7. CASE AbandonDocument \/ CloseDocument
  BY <1>7, CloseMaps
<1>8. CASE CloseResult
  <2>1. Stage \in {"pending", "accepted", "refuted"}
    BY <1>1, <1>8, RetireEffect, StageOfRecord
    DEF TypeOK, Results, Statuses, USABLE_STATUSES
  <2>2. Stage' = "retired"
    BY <1>8, RetireEffect DEF Stage
  <2>3. ConsumerView!Retire
    BY <1>8, <2>1, <2>2, RetireEffect DEF ConsumerView!Retire
  <2> QED
    BY <2>3 DEF ConsumerView!PromiseNext
<1> QED
  BY <1>2, <1>3, <1>4, <1>5, <1>6, <1>7, <1>8 DEF Next

\* The life of a document implements the promise: what a consumer sees of the
\* result record is a behaviour of ResultPromise.
THEOREM PromiseIsKept == Spec => PromiseKept
<1>1. IInv /\ [Next]_vars => [ConsumerView!PromiseNext]_(ConsumerView!promiseVars)
  BY StepMaps
<1> QED
  BY <1>1, PromiseInitially, Inductive, PTL DEF Spec, PromiseKept, ConsumerView!Promise

-----------------------------------------------------------------------------
(* The accounts an instruction declares                                    *)

\* An instruction that marks some of its accounts writable lets them be written.
LEMMA MarkedIsWritable ==
  ASSUME NEW ix, NEW i \in DOMAIN ix.accounts, ix.accounts[i].writable
  PROVE  ix.accounts[i].account \in Sent!WritableOf(ix)
BY DEF Sent!WritableOf

LEMMA MarkedRoles ==
  ASSUME NEW account
  PROVE  /\ Sent!Writes(account).account = account /\ Sent!Writes(account).writable
         /\ Sent!Pays(account).account = account /\ Sent!Pays(account).writable
BY DEF Sent!Writes, Sent!Pays, Sent!meta

\* What the instructions about the document and its result may write.
LEMMA LandWrites ==
  {"document", "positions"}
    \subseteq Sent!WritableOf(Sent!landPositionRoots)
<1> DEFINE ix == Sent!landPositionRoots
<1>1. DOMAIN ix.accounts = 1..3
  BY DEF Sent!instruction, Sent!landPositionRoots
<1>2. ix.accounts[2] = Sent!Writes("document")
  BY DEF Sent!instruction, Sent!landPositionRoots
<1>3. ix.accounts[3] = Sent!Writes("positions")
  BY DEF Sent!instruction, Sent!landPositionRoots
<1> HIDE DEF ix
<1>4. "document" \in Sent!WritableOf(ix)
  BY <1>1, <1>2, MarkedIsWritable, MarkedRoles
<1>5. "positions" \in Sent!WritableOf(ix)
  BY <1>1, <1>3, MarkedIsWritable, MarkedRoles
<1> QED
  BY <1>4, <1>5 DEF ix

LEMMA FinalizeWrites ==
  {"document", "result"}
    \subseteq Sent!WritableOf(Sent!finalizeDocument)
<1> DEFINE ix == Sent!finalizeDocument
<1>1. DOMAIN ix.accounts = 1..3
  BY DEF Sent!instruction, Sent!finalizeDocument
<1>2. ix.accounts[2] = Sent!Writes("document")
  BY DEF Sent!instruction, Sent!finalizeDocument
<1>3. ix.accounts[3] = Sent!Writes("result")
  BY DEF Sent!instruction, Sent!finalizeDocument
<1> HIDE DEF ix
<1>4. "document" \in Sent!WritableOf(ix)
  BY <1>1, <1>2, MarkedIsWritable, MarkedRoles
<1>5. "result" \in Sent!WritableOf(ix)
  BY <1>1, <1>3, MarkedIsWritable, MarkedRoles
<1> QED
  BY <1>4, <1>5 DEF ix

LEMMA AttestWrites ==
  {"result"}
    \subseteq Sent!WritableOf(Sent!attestOutput("anyone"))
<1> DEFINE ix == Sent!attestOutput("anyone")
<1>1. DOMAIN ix.accounts = 1..7
  BY DEF Sent!instruction, Sent!attestOutput, Sent!Machine
<1>2. ix.accounts[4] = Sent!Writes("result")
  BY DEF Sent!instruction, Sent!attestOutput, Sent!Machine
<1> HIDE DEF ix
<1>3. "result" \in Sent!WritableOf(ix)
  BY <1>1, <1>2, MarkedIsWritable, MarkedRoles
<1> QED
  BY <1>3 DEF ix

LEMMA ResolveWrites ==
  {"result"}
    \subseteq Sent!WritableOf(Sent!resolveResult)
<1> DEFINE ix == Sent!resolveResult
<1>1. DOMAIN ix.accounts = 1..2
  BY DEF Sent!instruction, Sent!resolveResult
<1>2. ix.accounts[2] = Sent!Writes("result")
  BY DEF Sent!instruction, Sent!resolveResult
<1> HIDE DEF ix
<1>3. "result" \in Sent!WritableOf(ix)
  BY <1>1, <1>2, MarkedIsWritable, MarkedRoles
<1> QED
  BY <1>3 DEF ix

LEMMA CloseWrites ==
  {"document", "positions", "familySlots", "result", "executor"}
    \subseteq Sent!WritableOf(Sent!closeDocument("anyone"))
<1> DEFINE ix == Sent!closeDocument("anyone")
<1>1. DOMAIN ix.accounts = 1..6
  BY DEF Sent!instruction, Sent!closeDocument
<1>2. ix.accounts[2] = Sent!Writes("document")
  BY DEF Sent!instruction, Sent!closeDocument
<1>3. ix.accounts[3] = Sent!Writes("positions")
  BY DEF Sent!instruction, Sent!closeDocument
<1>4. ix.accounts[4] = Sent!Writes("familySlots")
  BY DEF Sent!instruction, Sent!closeDocument
<1>5. ix.accounts[5] = Sent!Writes("result")
  BY DEF Sent!instruction, Sent!closeDocument
<1>6. ix.accounts[6] = Sent!Writes("executor")
  BY DEF Sent!instruction, Sent!closeDocument
<1> HIDE DEF ix
<1>7. "document" \in Sent!WritableOf(ix)
  BY <1>1, <1>2, MarkedIsWritable, MarkedRoles
<1>8. "positions" \in Sent!WritableOf(ix)
  BY <1>1, <1>3, MarkedIsWritable, MarkedRoles
<1>9. "familySlots" \in Sent!WritableOf(ix)
  BY <1>1, <1>4, MarkedIsWritable, MarkedRoles
<1>10. "result" \in Sent!WritableOf(ix)
  BY <1>1, <1>5, MarkedIsWritable, MarkedRoles
<1>11. "executor" \in Sent!WritableOf(ix)
  BY <1>1, <1>6, MarkedIsWritable, MarkedRoles
<1> QED
  BY <1>7, <1>8, <1>9, <1>10, <1>11 DEF ix

LEMMA RetireWrites ==
  {"result", "executor"}
    \subseteq Sent!WritableOf(Sent!closeResult("anyone"))
<1> DEFINE ix == Sent!closeResult("anyone")
<1>1. DOMAIN ix.accounts = 1..3
  BY DEF Sent!instruction, Sent!closeResult
<1>2. ix.accounts[2] = Sent!Writes("result")
  BY DEF Sent!instruction, Sent!closeResult
<1>3. ix.accounts[3] = Sent!Writes("executor")
  BY DEF Sent!instruction, Sent!closeResult
<1> HIDE DEF ix
<1>4. "result" \in Sent!WritableOf(ix)
  BY <1>1, <1>2, MarkedIsWritable, MarkedRoles
<1>5. "executor" \in Sent!WritableOf(ix)
  BY <1>1, <1>3, MarkedIsWritable, MarkedRoles
<1> QED
  BY <1>4, <1>5 DEF ix

LEMMA CreateWrites ==
  {"executor", "document", "positions", "familySlots", "result"}
    \subseteq Sent!WritableOf(Sent!unifiedInit)
<1> DEFINE ix == Sent!unifiedInit
<1>1. DOMAIN ix.accounts = 1..13
  BY DEF Sent!instruction, Sent!unifiedInit, Sent!Machine
<1>2. ix.accounts[1] = Sent!Pays("executor")
  BY DEF Sent!instruction, Sent!unifiedInit, Sent!Machine
<1>3. ix.accounts[2] = Sent!Writes("document")
  BY DEF Sent!instruction, Sent!unifiedInit, Sent!Machine
<1>4. ix.accounts[3] = Sent!Writes("positions")
  BY DEF Sent!instruction, Sent!unifiedInit, Sent!Machine
<1>5. ix.accounts[4] = Sent!Writes("familySlots")
  BY DEF Sent!instruction, Sent!unifiedInit, Sent!Machine
<1>6. ix.accounts[13] = Sent!Writes("result")
  BY DEF Sent!instruction, Sent!unifiedInit, Sent!Machine
<1> HIDE DEF ix
<1>7. "executor" \in Sent!WritableOf(ix)
  BY <1>1, <1>2, MarkedIsWritable, MarkedRoles
<1>8. "document" \in Sent!WritableOf(ix)
  BY <1>1, <1>3, MarkedIsWritable, MarkedRoles
<1>9. "positions" \in Sent!WritableOf(ix)
  BY <1>1, <1>4, MarkedIsWritable, MarkedRoles
<1>10. "familySlots" \in Sent!WritableOf(ix)
  BY <1>1, <1>5, MarkedIsWritable, MarkedRoles
<1>11. "result" \in Sent!WritableOf(ix)
  BY <1>1, <1>6, MarkedIsWritable, MarkedRoles
<1> QED
  BY <1>7, <1>8, <1>9, <1>10, <1>11 DEF ix

\* What the instructions about a challenge may write.
LEMMA TimeoutWrites ==
  {"record", "document"}
    \subseteq Sent!WritableOf(Sent!timeout)
<1> DEFINE ix == Sent!timeout
<1>1. DOMAIN ix.accounts = 1..2
  BY DEF Sent!instruction, Sent!timeout
<1>2. ix.accounts[1] = Sent!Writes("record")
  BY DEF Sent!instruction, Sent!timeout
<1>3. ix.accounts[2] = Sent!Writes("document")
  BY DEF Sent!instruction, Sent!timeout
<1> HIDE DEF ix
<1>4. "record" \in Sent!WritableOf(ix)
  BY <1>1, <1>2, MarkedIsWritable, MarkedRoles
<1>5. "document" \in Sent!WritableOf(ix)
  BY <1>1, <1>3, MarkedIsWritable, MarkedRoles
<1> QED
  BY <1>4, <1>5 DEF ix

LEMMA LeafWrites ==
  {"record", "challenger", "document"}
    \subseteq Sent!WritableOf(Sent!challengeLeaf(0))
<1> DEFINE ix == Sent!challengeLeaf(0)
<1>1. DOMAIN ix.accounts = 1..10
  BY DEF Sent!instruction, Sent!challengeLeaf, Sent!Machine
<1>2. ix.accounts[1] = Sent!Writes("record")
  BY DEF Sent!instruction, Sent!challengeLeaf, Sent!Machine
<1>3. ix.accounts[2] = Sent!Pays("challenger")
  BY DEF Sent!instruction, Sent!challengeLeaf, Sent!Machine
<1>4. ix.accounts[3] = Sent!Writes("document")
  BY DEF Sent!instruction, Sent!challengeLeaf, Sent!Machine
<1> HIDE DEF ix
<1>5. "record" \in Sent!WritableOf(ix)
  BY <1>1, <1>2, MarkedIsWritable, MarkedRoles
<1>6. "challenger" \in Sent!WritableOf(ix)
  BY <1>1, <1>3, MarkedIsWritable, MarkedRoles
<1>7. "document" \in Sent!WritableOf(ix)
  BY <1>1, <1>4, MarkedIsWritable, MarkedRoles
<1> QED
  BY <1>5, <1>6, <1>7 DEF ix

LEMMA PositionWrites ==
  {"record", "challenger", "document"}
    \subseteq Sent!WritableOf(Sent!challengePosition(0))
<1> DEFINE ix == Sent!challengePosition(0)
<1>1. DOMAIN ix.accounts = 1..9
  BY DEF Sent!instruction, Sent!challengePosition, Sent!Machine
<1>2. ix.accounts[1] = Sent!Writes("record")
  BY DEF Sent!instruction, Sent!challengePosition, Sent!Machine
<1>3. ix.accounts[2] = Sent!Pays("challenger")
  BY DEF Sent!instruction, Sent!challengePosition, Sent!Machine
<1>4. ix.accounts[3] = Sent!Writes("document")
  BY DEF Sent!instruction, Sent!challengePosition, Sent!Machine
<1> HIDE DEF ix
<1>5. "record" \in Sent!WritableOf(ix)
  BY <1>1, <1>2, MarkedIsWritable, MarkedRoles
<1>6. "challenger" \in Sent!WritableOf(ix)
  BY <1>1, <1>3, MarkedIsWritable, MarkedRoles
<1>7. "document" \in Sent!WritableOf(ix)
  BY <1>1, <1>4, MarkedIsWritable, MarkedRoles
<1> QED
  BY <1>5, <1>6, <1>7 DEF ix

LEMMA SummaryWrites ==
  {"record", "challenger", "document"}
    \subseteq Sent!WritableOf(Sent!challengeSummary(0))
<1> DEFINE ix == Sent!challengeSummary(0)
<1>1. DOMAIN ix.accounts = 1..6
  BY DEF Sent!instruction, Sent!challengeSummary
<1>2. ix.accounts[1] = Sent!Writes("record")
  BY DEF Sent!instruction, Sent!challengeSummary
<1>3. ix.accounts[2] = Sent!Pays("challenger")
  BY DEF Sent!instruction, Sent!challengeSummary
<1>4. ix.accounts[3] = Sent!Writes("document")
  BY DEF Sent!instruction, Sent!challengeSummary
<1> HIDE DEF ix
<1>5. "record" \in Sent!WritableOf(ix)
  BY <1>1, <1>2, MarkedIsWritable, MarkedRoles
<1>6. "challenger" \in Sent!WritableOf(ix)
  BY <1>1, <1>3, MarkedIsWritable, MarkedRoles
<1>7. "document" \in Sent!WritableOf(ix)
  BY <1>1, <1>4, MarkedIsWritable, MarkedRoles
<1> QED
  BY <1>5, <1>6, <1>7 DEF ix

LEMMA SettleWrites ==
  ASSUME NEW winner, NEW custom \in BOOLEAN
  PROVE  {"record", "executor", "document", "incinerator", "challenger"}
           \subseteq Sent!WritableOf(Sent!settle(winner, custom))
<1> DEFINE ix == Sent!settle(winner, custom)
<1>1. 1..7 \subseteq DOMAIN ix.accounts
  <2>1. CASE custom
    BY <2>1 DEF Sent!instruction, Sent!settle
  <2>2. CASE ~ custom
    BY <2>2 DEF Sent!instruction, Sent!settle
  <2> QED
    BY <2>1, <2>2
<1>2. /\ ix.accounts[1] = Sent!Writes("record")
      /\ ix.accounts[4] = Sent!Writes("executor")
      /\ ix.accounts[5] = Sent!Writes("document")
      /\ ix.accounts[6] = Sent!Writes("incinerator")
      /\ ix.accounts[7] = Sent!Writes("challenger")
  <2>1. CASE custom
    BY <2>1 DEF Sent!instruction, Sent!settle
  <2>2. CASE ~ custom
    BY <2>2 DEF Sent!instruction, Sent!settle
  <2> QED
    BY <2>1, <2>2
<1> HIDE DEF ix
<1>3. "record" \in Sent!WritableOf(ix)
  BY <1>1, <1>2, MarkedIsWritable, MarkedRoles
<1>4. "executor" \in Sent!WritableOf(ix)
  BY <1>1, <1>2, MarkedIsWritable, MarkedRoles
<1>5. "document" \in Sent!WritableOf(ix)
  BY <1>1, <1>2, MarkedIsWritable, MarkedRoles
<1>6. "incinerator" \in Sent!WritableOf(ix)
  BY <1>1, <1>2, MarkedIsWritable, MarkedRoles
<1>7. "challenger" \in Sent!WritableOf(ix)
  BY <1>1, <1>2, MarkedIsWritable, MarkedRoles
<1> QED
  BY <1>3, <1>4, <1>5, <1>6, <1>7 DEF ix

-----------------------------------------------------------------------------
(* The accounts a step changes                                             *)

\* A step that leaves the challenges and the bank alone touches the document,
\* the record and what goes with them, at most.
LEMMA TouchedQuietly ==
  ASSUME UNCHANGED <<challenges, bank>>, NEW accounts,
         document' # document => "document" \in accounts,
         document'.positionsComplete # document.positionsComplete => "positions" \in accounts,
         document'.account = document.account,
         result' # result => "result" \in accounts,
         ~ (result.account = "DCR2" /\ result'.account = "DCRZ")
  PROVE  Touched \subseteq accounts
BY DEF Touched, If

\* A step that pays nobody but the executor out of the document.
LEMMA TouchedByLife ==
  ASSUME UNCHANGED challenges,
         bank'.records = bank.records,
         bank'.challengers = bank.challengers,
         bank'.burned = bank.burned,
         document'.positionsComplete = document.positionsComplete
  PROVE  Touched \subseteq {"executor", "document", "positions", "familySlots", "result"}
BY DEF Touched, If

\* A step of a challenge: the result, the position table and the family slots
\* are only read.
LEMMA TouchedByChallenge ==
  ASSUME UNCHANGED result, NEW accounts,
         {"record", "document"} \subseteq accounts,
         document'.account = document.account,
         document'.positionsComplete = document.positionsComplete,
         bank'.executor # bank.executor => "executor" \in accounts,
         bank'.challengers # bank.challengers => "challenger" \in accounts,
         bank'.burned # bank.burned => "incinerator" \in accounts,
         result.account = "DCR2"
  PROVE  Touched \subseteq accounts
BY DEF Touched, If

\* What a step of a challenge leaves of the header.
LEMMA ChallengeKeepsTable ==
  ASSUME TypeOK, NEW c \in ChallengeAddresses,
         OpenChallenge(c) \/ OpenAndConvict(c) \/ Timeout(c) \/ Settle(c)
  PROVE  /\ document'.positionsComplete = document.positionsComplete
         /\ document'.account = document.account
BY DEF OpenChallenge, OpenAndConvict, Timeout, Settle, SettleWithPot, SettleWithoutPot,
       CountOpen, MarkRuling, TypeOK, Documents

\* The accounts changed by a step are writable in every instruction that stands
\* for it, so the runtime refuses none of the instructions the SDK builds.
THEOREM DeclaredChanges == Spec => ChangesAreDeclared
<1> DEFINE custom == ~ isZero(Terms.settlementProgram)
           Declared ==
             /\ UnifiedInit => Within({Sent!unifiedInit})
             /\ LandPositionRoots => Within({Sent!landPositionRoots})
             /\ (\E i \in Outputs : AttestOutput(i)) => Within({Sent!attestOutput("anyone")})
             /\ FinalizeDocument => Within({Sent!finalizeDocument})
             /\ (\E c \in ChallengeAddresses : OpenChallenge(c)) =>
                  Within({Sent!challengeLeaf(0), Sent!challengePosition(0),
                          Sent!challengeSummary(0)})
             /\ (\E c \in ChallengeAddresses : OpenAndConvict(c)) =>
                  Within({Sent!challengeLeaf(0)})
             /\ (\E c \in ChallengeAddresses : Timeout(c)) => Within({Sent!timeout})
             /\ (\E c \in ChallengeAddresses : Settle(c)) =>
                  Within({Sent!settle(winner, custom) : winner \in {"executor", "challenger"}})
             /\ ResolveResult => Within({Sent!resolveResult})
             /\ AbandonDocument \/ CloseDocument => Within({Sent!closeDocument("anyone")})
             /\ CloseResult => Within({Sent!closeResult("anyone")})
<1>1. ASSUME IInv, [Next]_vars PROVE Declared
  <2>1. TypeOK
    BY <1>1 DEF IInv
  <2>2. ASSUME UnifiedInit PROVE Within({Sent!unifiedInit})
    <3>1. document'.positionsComplete = document.positionsComplete
      BY <1>1, <2>2, CreateEffect DEF NewDocument, EmptyDocument
    <3>2. /\ bank'.records = bank.records
          /\ bank'.challengers = bank.challengers
          /\ bank'.burned = bank.burned
      BY <2>1, <2>2 DEF UnifiedInit, TypeOK, Banks
    <3>3. UNCHANGED challenges
      BY <2>2 DEF UnifiedInit
    <3> QED
      BY <3>1, <3>2, <3>3, TouchedByLife, CreateWrites DEF Within
  <2>3. ASSUME LandPositionRoots PROVE Within({Sent!landPositionRoots})
    <3>1. UNCHANGED <<challenges, bank, result>> /\ document'.account = document.account
      BY <2>1, <2>3 DEF LandPositionRoots, landPositionRoots, TypeOK, Documents
    <3>2. Touched \subseteq {"document", "positions"}
      <4>1. ~ (result.account = "DCR2" /\ result'.account = "DCRZ")
        BY <3>1
      <4> QED
        BY <3>1, <4>1 DEF Touched, If
    <3> QED
      BY <3>2, LandWrites DEF Within
  <2>4. ASSUME NEW i \in Outputs, AttestOutput(i)
        PROVE  Within({Sent!attestOutput("anyone")})
    <3>1. UNCHANGED <<challenges, bank, document>> /\ result'.account = result.account
      BY <2>1, <2>4, AttestEffect DEF AttestOutput
    <3>2. Touched \subseteq {"result"}
      <4>1. ~ (result.account = "DCR2" /\ result'.account = "DCRZ")
        BY <3>1
      <4> QED
        BY <3>1, <4>1, TouchedQuietly
    <3> QED
      BY <3>2, AttestWrites DEF Within
  <2>5. ASSUME FinalizeDocument PROVE Within({Sent!finalizeDocument})
    <3>1. /\ UNCHANGED <<challenges, bank>>
          /\ document'.account = document.account
          /\ result'.account = result.account
      BY <2>1, <2>5, LandEffect DEF FinalizeDocument
    <3>2. document'.positionsComplete = document.positionsComplete
      BY <2>1, <2>5 DEF FinalizeDocument, TypeOK, Documents
    <3>3. Touched \subseteq {"document", "result"}
      <4>1. ~ (result.account = "DCR2" /\ result'.account = "DCRZ")
        BY <3>1
      <4> QED
        BY <3>1, <3>2, <4>1 DEF Touched, If
    <3> QED
      BY <3>3, FinalizeWrites DEF Within
  <2>6. ASSUME NEW c \in ChallengeAddresses, OpenChallenge(c) \/ OpenAndConvict(c)
        PROVE  Touched \subseteq {"record", "challenger", "document"}
    <3>1. UNCHANGED result /\ result.account = "DCR2"
      BY <1>1, <2>6, ChallengeEffect DEF ChallengeStep
    <3>2. PostChallengerBond
      BY <2>6 DEF OpenChallenge, OpenAndConvict
    <3>3. bank'.executor = bank.executor /\ bank'.burned = bank.burned
      BY <2>1, <3>2 DEF PostChallengerBond, TypeOK, Banks
    <3> QED
      BY <2>1, <2>6, <3>1, <3>3, ChallengeKeepsTable, TouchedByChallenge
  <2>7. ASSUME NEW c \in ChallengeAddresses, OpenChallenge(c)
        PROVE  Within({Sent!challengeLeaf(0), Sent!challengePosition(0),
                       Sent!challengeSummary(0)})
    BY <2>6, <2>7, LeafWrites, PositionWrites, SummaryWrites DEF Within
  <2>8. ASSUME NEW c \in ChallengeAddresses, OpenAndConvict(c)
        PROVE  Within({Sent!challengeLeaf(0)})
    BY <2>6, <2>8, LeafWrites DEF Within
  <2>9. ASSUME NEW c \in ChallengeAddresses, Timeout(c) PROVE Within({Sent!timeout})
    <3>1. UNCHANGED result /\ result.account = "DCR2"
      BY <1>1, <2>9, ChallengeEffect DEF ChallengeStep
    <3>2. UNCHANGED bank
      BY <2>9 DEF Timeout
    <3>3. Touched \subseteq {"record", "document"}
      BY <2>1, <2>9, <3>1, <3>2, ChallengeKeepsTable, TouchedByChallenge
    <3> QED
      BY <3>3, TimeoutWrites DEF Within
  <2>10. ASSUME NEW c \in ChallengeAddresses, Settle(c)
         PROVE  Within({Sent!settle(winner, custom) : winner \in {"executor", "challenger"}})
    <3>1. UNCHANGED result /\ result.account = "DCR2"
      BY <1>1, <2>10, ChallengeEffect DEF ChallengeStep
    <3>2. Touched \subseteq {"record", "executor", "document", "incinerator", "challenger"}
      BY <2>1, <2>10, <3>1, ChallengeKeepsTable, TouchedByChallenge
    <3>3. custom \in BOOLEAN
      OBVIOUS
    <3> HIDE DEF custom
    <3>4. \A winner : Touched \subseteq Sent!WritableOf(Sent!settle(winner, custom))
      BY <3>2, <3>3, SettleWrites
    <3> QED
      BY <3>4 DEF Within
  <2>11. ASSUME ResolveResult PROVE Within({Sent!resolveResult})
    <3>1. UNCHANGED <<challenges, bank, document>>
      BY <2>11 DEF ResolveResult
    <3>2. Touched \subseteq {"result"}
      <4>1. ~ (result.account = "DCR2" /\ result'.account = "DCRZ")
        BY <1>1, <2>11, ResolveEffect
      <4> QED
        BY <3>1, <4>1, TouchedQuietly
    <3> QED
      BY <3>2, ResolveWrites DEF Within
  <2>12. ASSUME AbandonDocument \/ CloseDocument PROVE Within({Sent!closeDocument("anyone")})
    <3>1. PICK status : CloseWith(status)
      BY <1>1, <2>12, ClosePaths
    <3>2. document'.positionsComplete = document.positionsComplete
      BY <2>1, <3>1 DEF CloseWith, TypeOK, Documents
    <3>3. /\ bank'.records = bank.records
          /\ bank'.challengers = bank.challengers
          /\ bank'.burned = bank.burned
      BY <2>1, <3>1 DEF CloseWith, TypeOK, Banks
    <3>4. UNCHANGED challenges
      BY <3>1 DEF CloseWith
    <3> QED
      BY <3>2, <3>3, <3>4, TouchedByLife, CloseWrites DEF Within
  <2>13. ASSUME CloseResult PROVE Within({Sent!closeResult("anyone")})
    <3>1. UNCHANGED <<challenges, bank, document>>
      BY <2>13 DEF CloseResult
    <3>2. Touched \subseteq {"result", "executor"}
      BY <3>1 DEF Touched, If
    <3> QED
      BY <3>2, RetireWrites DEF Within
  <2> HIDE DEF custom
  <2> QED
    BY <2>2, <2>3, <2>4, <2>5, <2>7, <2>8, <2>9, <2>10, <2>11, <2>12, <2>13
<1>2. IInv /\ [Next]_vars => [Declared]_vars
  BY <1>1
<1> QED
  BY <1>2, Inductive, PTL DEF Spec, ChangesAreDeclared
=============================================================================
