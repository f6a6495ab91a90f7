--------------------------- MODULE MCDocumentPlan ---------------------------
(***************************************************************************)
(* A small instance of the plan for TLC: a run of thirty positions, two    *)
(* more than a packet carries roots for, and inputs that are right but for *)
(* at most one part.                                                       *)
(***************************************************************************)
EXTENDS DocumentPlan, TLC

\* A right value, and those with one part of it exchanged for another.
Variants(right, others) ==
  {right} \cup UNION {{[right EXCEPT ![part] = value] : value \in others[part]} :
                       part \in DOMAIN others}

MCTerms ==
  [challengeWindowSlots |-> 2, responseWindowSlots |-> 1,
   challengerBondLamports |-> 1, executorBondLamports |-> 0,
   executorRewardBps |-> 10000, settlementProgram |-> "zero",
   customSettleWindowSlots |-> 0, resultRetentionSlots |-> 1]
MCLongerTerms == [MCTerms EXCEPT !.challengeWindowSlots = 3]
MCBadTerms == [MCTerms EXCEPT !.challengeWindowSlots = 0]

MCBinding ==
  [executor |-> "nonzero", requestId |-> "nonzero", consumerDigest |-> "nonzero",
   outputFirstPosition |-> 1, outputCount |-> 29, outputWidth |-> 16]

Machine ==
  [modelRoot |-> Named("model"), familyCount |-> 1, segmentCount |-> 2,
   positionCount |-> 30, vocab |-> 3, promptPositions |-> 2, clause |-> <<30, 2>>,
   rs1Height |-> 5, tokenWidth |-> 16]
\* A machine with more positions than a result has room for outputs.
LongMachine ==
  [Machine EXCEPT !.positionCount = 700000, !.clause = <<700000, 2>>, !.rs1Height = 20]
MCMachines ==
  Variants(Machine,
    [modelRoot |-> {Zero}, familyCount |-> {0}, segmentCount |-> {3}, positionCount |-> {29},
     vocab |-> {0}, promptPositions |-> {3}, rs1Height |-> {4}, tokenWidth |-> {8}])
  \cup {[Machine EXCEPT !.positionCount = 29, !.clause = <<29, 2>>], LongMachine}

Asked ==
  [nonce |-> 1, promptTokenCount |-> 2, maxNewTokens |-> 29,
   promptCommitment |-> Named("prompt"), promptTokens |-> {<<1, 2>>},
   promptTokensSha256 |-> {}, tokenizerSha256 |-> Named("tokenizer"),
   machineId |-> machineId(Machine), terms |-> MCTerms, samplerForm |-> 0,
   samplingTail |-> Zero, seed |-> Zero, requestId |-> {}]
MCOptions ==
  Variants(Asked,
    [promptTokenCount |-> {0, 3}, maxNewTokens |-> {0, 28, 30}, promptCommitment |-> {Zero},
     promptTokens |-> {{}}, promptTokensSha256 |-> {{hashPromptTokens(<<1, 2>>)}, {Zero}},
     machineId |-> {Named("machine")}, terms |-> {MCLongerTerms, MCBadTerms},
     samplerForm |-> {1}, samplingTail |-> {Named("top p")}, seed |-> {Named("seed")},
     requestId |-> {{requestAddress(requester, 1)}, {requestAddress(requester, 2)}}])
  \cup {[Asked EXCEPT !.maxNewTokens = n, !.machineId = machineId(LongMachine)] :
          n \in {600000, 699999}}

MCCreateOptions ==
  Variants([deadlineSlots |-> 4, callback |-> Zero, promptTokens |-> <<1>>],
    [deadlineSlots |-> {2}, callback |-> {Named("callback"), Named("dcg program")},
     promptTokens |-> {<<1, 2, 2>>, <<3>>}])

Body(families) == [families |-> families, trailing |-> FALSE]
RightBody == Body(<<[ordinal |-> 0, slots |-> <<<<0, 0>>>>]>>)

SpecFor(asked) ==
  [positionCount |-> 30, segmentCount |-> 2, clause |-> <<30, 2>>, familyCount |-> 1,
   terms |-> asked.terms, binding |-> runBinding(asked, executor),
   modelRoot |-> Named("model"), promptCommitment |-> asked.promptCommitment,
   familyBody |-> RightBody]

\* An exact request gets every spec, any other the right one.
MCSpecs(asked) ==
  IF asked \notin create(requester, Asked)
    THEN {SpecFor(asked)}
    ELSE Variants(SpecFor(asked),
           [segmentCount |-> {1}, clause |-> {<<29, 2>>}, familyCount |-> {2},
            terms |-> {MCLongerTerms}, modelRoot |-> {Zero},
            promptCommitment |-> {Zero, Named("other prompt")},
            binding |-> Variants(runBinding(asked, executor),
              [executor |-> {requester}, requestId |-> {requestAddress(requester, 2)},
               consumerDigest |-> {Zero}, seed |-> {Named("seed")},
               outputFirstPosition |-> {0}, outputCount |-> {28}, outputWidth |-> {8}])])
         \cup {[SpecFor(asked) EXCEPT !.positionCount = 31, !.clause = <<31, 2>>]}

Families ==
  {[ordinal |-> n, slots |-> slots] :
     n \in {0, 1},
     slots \in UNION {[1..m -> {<<0, 0>>, <<0, 1>>, <<1, 0>>}] : m \in 0..2}}
MCFamilyBodies ==
  {Body(families) : families \in UNION {[1..m -> Families] : m \in 0..1}}
  \cup {Body(<<[ordinal |-> m, slots |-> <<<<0, 0>>>>], [ordinal |-> n, slots |-> <<<<0, 1>>>>]>>) :
          m \in {0, 1}, n \in {0, 1}}
  \cup {[RightBody EXCEPT !.trailing = TRUE]}
=============================================================================
