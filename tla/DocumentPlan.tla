---------------------------- MODULE DocumentPlan ----------------------------
(***************************************************************************)
(* From a request to a finalized document: the plan of instructions the    *)
(* SDK draws up (UnifiedInit, the landing batches, FinalizeDocument), and  *)
(* its delivery by an executor over a network that loses, repeats and      *)
(* reorders transactions.  The executor may stop and draw the plan again,  *)
(* with another batch size, and transactions of an earlier plan may still  *)
(* arrive.                                                                 *)
(***************************************************************************)
EXTENDS RequestBlocks

CONSTANTS
  Options,       \* what the requester may ask for
  Machines,      \* the machine blocks it may ask it of
  CreateOptions, \* how it may send the request
  Specs(_),      \* the specs an executor may answer a request with
  FamilyBodies,  \* the family tables it may give
  RootCounts,    \* how many position roots it may give
  BatchSizes,    \* the landing batch sizes it may ask for: {n}, or {} for none
  MaxPlans,      \* bound: plans drawn up
  PACKET_BYTES   \* the largest transaction, 1232 in the code

requester == Named("requester")
executor  == Named("executor")

VARIABLES
  request,       \* the request asked for
  machine,       \* the machine it is asked of
  spec,          \* the descriptor's preimage
  familyBody,    \* the family table given
  positionRoots, \* the position roots given: the root of position i is i
  plans,         \* the batch sizes planned with, oldest first
  planning,      \* what the last documentPlan ended with
  document       \* the document account at the planned address

vars == <<request, machine, spec, familyBody, positionRoots, plans, planning, document>>

-----------------------------------------------------------------------------
(* Packets                                                                 *)

compact(value) == IF value < 128 THEN 1 ELSE IF value < 16384 THEN 2 ELSE 3

\* A legacy transaction with one signature that asks for compute units and then
\* carries one instruction.
legacyTxBytes(dataLen, keys, instructionAccounts) ==
  LET bytes(accounts, data) == 1 + compact(accounts) + accounts + compact(data) + data
  IN  compact(1) + 64 + 3 + compact(keys) + 32 * keys + 32 + compact(2)
      + bytes(instructionAccounts, dataLen) + bytes(0, 5)

landBytes(count) == legacyTxBytes(38 + 32 * count, 5, 3)

\* Mutant: counts on until a batch no longer fits.
maxLandBatch_OneMore == CHOOSE n \in 1..255 :
  landBytes(n) > PACKET_BYTES /\ landBytes(n - 1) <= PACKET_BYTES

maxLandBatch == CHOOSE n \in 0..255 :
  landBytes(n + 1) > PACKET_BYTES /\ (n > 0 => landBytes(n) <= PACKET_BYTES)

\* What is asked for and answered with has the types its encoders allow; a batch
\* that no longer fits a packet has at most 256 roots.
ASSUME PlanAssumption ==
  /\ RootCounts \subseteq Nat
  /\ \A size \in BatchSizes : size \subseteq Nat
  /\ PACKET_BYTES \in 0..(landBytes(256) - 1)
  /\ MAX_FAMILIES \in Nat
  /\ \A options \in Options :
       /\ options.promptTokenCount \in Nat
       /\ options.maxNewTokens \in Nat
       /\ \A asked \in create(requester, options) : \A answer \in Specs(asked) :
            /\ DOMAIN answer.binding = DOMAIN runBinding(asked, executor)
            /\ answer.familyBody \in FamilyBodyBlocks
  /\ FamilyBodies \subseteq FamilyBodyBlocks
  /\ \A options \in CreateOptions : options.deadlineSlots \in Nat
  /\ \A block \in Machines : block.positionCount \in Nat

-----------------------------------------------------------------------------
(* The plan                                                                *)

sameTerms_Ignored(left, right) == TRUE
sameTerms(left, right) == left = right

\* The guard of documentPlan.
answers ==
  /\ spec.binding.requestId = request.request
  /\ spec.binding.consumerDigest = consumerDigest(request)
  /\ sameTerms(spec.terms, request.terms)
  /\ spec.binding.executor = executor
  /\ spec.binding.seed = request.seed
  /\ spec.binding.outputFirstPosition = request.promptTokenCount - 1
  /\ spec.binding.outputCount = request.maxNewTokens
  /\ spec.binding.outputWidth = TOKEN_WIDTH
  /\ familyBody = spec.familyBody

\* A batch size of zero is kept, and the loop over the roots never ends.
BatchOf(size) == IF size = {} THEN maxLandBatch ELSE CHOOSE n \in size : TRUE
Loops(batch) == batch = 0 /\ positionRoots # <<>>

\* Mutant: the last, shorter batch is left out.
Firsts_WholeBatches(batch) == {n \in 0..(Len(positionRoots) - batch) : n % batch = 0}
Firsts(batch) == {n \in 0..(Len(positionRoots) - 1) : n % batch = 0}

\* Mutant: a batch starts one root late.
BatchAt_Late(first, batch) ==
  SubSeq(positionRoots, first + 2, smaller(first + batch + 1, Len(positionRoots)))
BatchAt(first, batch) ==
  SubSeq(positionRoots, first + 1, smaller(first + batch, Len(positionRoots)))

\* documentPlan, with encodeLandPositionRoots' bound on a batch.
DrawUp(size) ==
  LET batch == BatchOf(size)
  IN  /\ Len(plans) < MaxPlans
      /\ planning # "hung"
      /\ planning' = CASE ~ (answers /\ hasDescriptor(spec)) -> "refused"
                       [] answers /\ hasDescriptor(spec) /\ Loops(batch) -> "hung"
                       [] OTHER -> IF smaller(batch, Len(positionRoots)) > 255
                                     THEN "refused" ELSE "planned"
      /\ plans' = IF planning' = "planned" THEN Append(plans, batch) ELSE plans
      /\ UNCHANGED <<request, machine, spec, familyBody, positionRoots, document>>

-----------------------------------------------------------------------------
(* Delivery                                                                *)

Absent == [state |-> "absent", spec |-> Zero, roots |-> <<>>]

\* The program derives the descriptor from the instruction and from the plan
\* sealed for the machine, and refuses any other address.
Derived == [spec EXCEPT !.positionCount = PositionCount, !.familyBody = familyBody]

DeliverInit ==
  /\ plans # <<>>
  /\ document.state = "absent"
  /\ descriptorOf(Derived) = descriptorOf(spec)
  /\ document' = [state |-> "open", spec |-> spec, roots |-> <<>>]
  /\ UNCHANGED <<request, machine, spec, familyBody, positionRoots, plans, planning>>

DeliverLanding(k, first) ==
  LET roots == BatchAt(first, plans[k])
  IN  /\ first \in Firsts(plans[k])
      /\ landBytes(Len(roots)) <= PACKET_BYTES
      /\ document.state = "open"
      /\ first = Len(document.roots)
      /\ first + Len(roots) <= PositionCount
      /\ document' = [document EXCEPT !.roots = @ \o roots]
      /\ UNCHANGED <<request, machine, spec, familyBody, positionRoots, plans, planning>>

DeliverFinalize ==
  /\ plans # <<>>
  /\ document.state = "open"
  /\ Len(document.roots) = PositionCount
  /\ document' = [document EXCEPT !.state = "final"]
  /\ UNCHANGED <<request, machine, spec, familyBody, positionRoots, plans, planning>>

Deliver(k) ==
  \/ DeliverInit
  \/ \E first \in 0..(PositionCount - 1) : DeliverLanding(k, first)
  \/ DeliverFinalize

Init ==
  /\ \E options \in Options : request \in create(requester, options)
  /\ machine \in Machines
  /\ spec \in Specs(request)
  /\ familyBody \in FamilyBodies \cup {spec.familyBody}
  /\ positionRoots \in {[i \in 1..n |-> i] : n \in RootCounts}
  /\ plans = <<>>
  /\ planning = "none"
  /\ document = Absent

Next ==
  \/ \E size \in BatchSizes : DrawUp(size)
  \/ \E k \in DOMAIN plans : Deliver(k)

Spec == Init /\ [][Next]_vars

\* The executor keeps sending the plan it drew up last.
Resend == plans # <<>> /\ Deliver(Len(plans))
FairSpec == Spec /\ WF_vars(Resend)

-----------------------------------------------------------------------------
(* Properties                                                              *)

\* The document never holds anything but the first of the planned roots, in
\* order and each once, whatever arrives twice, late or from an earlier plan;
\* finalized, it holds one for every position.
LandedAsPlanned ==
  /\ Len(document.roots) <= Len(positionRoots)
  /\ \A i \in DOMAIN document.roots : document.roots[i] = positionRoots[i]
  /\ document.state = "final" => Len(document.roots) = PositionCount

\* What a consumer checks of a document that names its request (docs/consumer.md,
\* section 3) holds of every planned one: it is for that request and that
\* digest, under the terms asked for, with an output for each new token.  The prompt
\* is not among it: documentPlan compares no prompt commitment.
DocumentAnswersRequest ==
  document.state # "absent" =>
    /\ document.spec.binding.requestId = requestAddress(requester, request.nonce)
    /\ document.spec.binding.consumerDigest = consumerDigest(request)
    /\ document.spec.terms = request.terms
    /\ document.spec.positionCount >= request.promptTokenCount - 1 + request.maxNewTokens

\* A plan with no batch size of its own fits into packets, and wastes none: one
\* more root in a full batch would not fit.
DefaultBatchFits ==
  \A k \in DOMAIN plans : plans[k] = BatchOf({}) =>
    \A first \in Firsts(plans[k]) :
      LET count == Len(BatchAt(first, plans[k]))
      IN  /\ landBytes(count) <= PACKET_BYTES
          /\ count = plans[k] => landBytes(count + 1) > PACKET_BYTES

\* What can be seen to be wrong with the last plan: it is none, it is for another
\* machine, it has not one root for each position, its batches do not fit, or
\* the document stands where none of its batches starts.
Obstructed ==
  \/ plans = <<>>
  \/ Derived # spec
  \/ Len(positionRoots) # PositionCount
  \/ landBytes(smaller(plans[Len(plans)], PositionCount)) > PACKET_BYTES
  \/ Len(document.roots) # PositionCount /\ Len(document.roots) % plans[Len(plans)] # 0

\* A plan that is sent again and again completes the document, unless there is
\* something to see that keeps it from doing so.
PlanCompletes == <>(document.state = "final") \/ <>[]Obstructed

\* One family table has one accepted body, so it has one descriptor.
Table(body) ==
  {[ordinal |-> family.ordinal, slots |-> Elements(family.slots)] :
     family \in Elements(body.families)}
FamilyBodyIsCanonical ==
  checkFamilyBody(familyBody) =>
    \A other \in FamilyBodies :
      checkFamilyBody(other) /\ Table(other) = Table(familyBody) => other = familyBody

ResultFits(asked) == resultV5Bytes(asked.maxNewTokens, TOKEN_WIDTH) <= MAX_ACCOUNT_BYTES

\* The last output is written at one of the machine's positions.
RunFits(asked, of) == asked.promptTokenCount - 1 + asked.maxNewTokens <= of.positionCount

\* A request that was sent is read back exactly when its run fits into the positions
\* of its machine, which createRequest does not look at; and what is read back can be
\* answered, its binding passing the checks of a document of that machine, exactly
\* when the record of its result fits into an account, which nobody looks at before.
RequestsReadBack ==
  \A options \in CreateOptions :
    LET account == CreatedAccount(request, machine, options, 1)
    IN  /\ createRequest(request, machine, options) =>
             (requestAccountDecodes(account) <=> RunFits(request, machine))
        /\ requestAccountDecodes(account) =>
             (bindingChecks(runBinding(request, executor), machine.positionCount)
                <=> ResultFits(request))

-----------------------------------------------------------------------------
(* The inductive invariants behind the safety properties                   *)

\* What is landed comes from the planned roots, whose list no plan changes; a
\* batch size of zero was planned with only when there was nothing to land.
DeliveryInv ==
  /\ positionRoots \in Seq(Nat)
  /\ plans \in Seq(Nat)
  /\ \A k \in DOMAIN plans : plans[k] = 0 => positionRoots = <<>>
  /\ document = [state |-> document.state, spec |-> document.spec, roots |-> document.roots]
  /\ document.roots \in Seq(Nat)
  /\ LandedAsPlanned

\* Whatever was planned answers the request, which is one of the requester's,
\* and only what was planned gets a document.
AnswerInv ==
  /\ \E options \in Options : request \in create(requester, options)
  /\ machine \in Machines
  /\ spec \in Specs(request)
  /\ familyBody \in FamilyBodies \cup {spec.familyBody}
  /\ plans # <<>> => answers /\ hasDescriptor(spec)
  /\ document = [state |-> document.state, spec |-> document.spec, roots |-> document.roots]
  /\ document.state # "absent" => plans # <<>> /\ document.spec = spec
=============================================================================
