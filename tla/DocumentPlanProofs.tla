------------------------- MODULE DocumentPlanProofs -------------------------
(***************************************************************************)
(* What holds of a planned document for every request, every list of roots *)
(* and every cut into batches: the document holds the first of the planned *)
(* roots and nothing else, it answers the request, a batch of the default  *)
(* size fits into a packet, a family table has one body, and a request is  *)
(* read back as it was sent.                                               *)
(***************************************************************************)
EXTENDS DocumentPlan, DataLemmas

-----------------------------------------------------------------------------
(* Packets                                                                 *)

LEMMA LandBytesGrow ==
  ASSUME NEW m \in Nat, NEW n \in Nat, m <= n
  PROVE  landBytes(m) \in Nat /\ landBytes(m) <= landBytes(n)
BY DEF landBytes, legacyTxBytes, compact

\* The largest batch that fits exists.
LEMMA MaxLandBatch ==
  /\ maxLandBatch \in 0..255
  /\ landBytes(maxLandBatch + 1) > PACKET_BYTES
  /\ maxLandBatch > 0 => landBytes(maxLandBatch) <= PACKET_BYTES
<1> DEFINE TooLarge == {n \in Nat : landBytes(n + 1) > PACKET_BYTES}
<1>1. 255 \in TooLarge
  BY LandBytesGrow, PlanAssumption
<1>2. PICK n \in TooLarge : \A m \in TooLarge : n <= m
  BY <1>1, LeastNumber
<1>3. n \in 0..255
  BY <1>1, <1>2
<1>4. ASSUME n > 0 PROVE landBytes(n) <= PACKET_BYTES
  <2>1. n - 1 \in Nat /\ n - 1 \notin TooLarge /\ (n - 1) + 1 = n
    BY <1>2, <1>4
  <2>2. ~ (landBytes(n) > PACKET_BYTES)
    BY <2>1
  <2> QED
    BY <2>2, LandBytesGrow, PlanAssumption
<1>5. \E b \in 0..255 :
        landBytes(b + 1) > PACKET_BYTES /\ (b > 0 => landBytes(b) <= PACKET_BYTES)
  BY <1>2, <1>3, <1>4
<1> QED
  BY <1>5 DEF maxLandBatch

-----------------------------------------------------------------------------
(* Landing                                                                 *)

\* A batch size planned with is a number.
LEMMA BatchOfType ==
  ASSUME NEW size \in BatchSizes
  PROVE  BatchOf(size) \in Nat
BY MaxLandBatch, PlanAssumption DEF BatchOf

\* A batch is a stretch of the roots.
LEMMA BatchIsStretch ==
  ASSUME positionRoots \in Seq(Nat), NEW batch \in Nat,
         NEW first \in 0..(Len(positionRoots) - 1)
  PROVE  LET roots == BatchAt(first, batch)
         IN  /\ roots \in Seq(Nat)
             /\ first + Len(roots) = smaller(first + batch, Len(positionRoots))
             /\ \A i \in 1..Len(roots) : roots[i] = positionRoots[first + i]
<1> DEFINE last == smaller(first + batch, Len(positionRoots))
<1>1. /\ Len(positionRoots) \in Nat
      /\ last \in Nat
      /\ first <= last
      /\ last <= Len(positionRoots)
  BY DEF smaller
<1>2. BatchAt(first, batch) = SubSeq(positionRoots, first + 1, last)
  BY DEF BatchAt
<1> HIDE DEF last
<1>3. BatchAt(first, batch) = [i \in 1..(last - first) |-> positionRoots[first + i]]
  <2>1. /\ first + 1 \in 1..(Len(positionRoots) + 1)
        /\ last \in first..Len(positionRoots)
    BY <1>1
  <2> QED
    BY <1>1, <1>2, <2>1
<1>4. last - first \in Nat /\ \A i \in 1..(last - first) : first + i \in 1..Len(positionRoots)
  BY <1>1
<1>5. \A i \in 1..(last - first) : positionRoots[first + i] \in Nat
  BY <1>4, ElementOfSeq
<1>6. /\ BatchAt(first, batch) \in Seq(Nat)
      /\ Len(BatchAt(first, batch)) = last - first
  <2>1. BatchAt(first, batch) \in [1..(last - first) -> Nat]
    BY <1>3, <1>5
  <2> QED
    BY <1>4, <2>1, FunctionIsSequence
<1> QED
  BY <1>1, <1>3, <1>6 DEF last

LEMMA DeliveryInit == Init => DeliveryInv
<1> SUFFICES ASSUME Init PROVE DeliveryInv
  OBVIOUS
<1>1. /\ plans = <<>>
      /\ document.state = "absent"
      /\ document.roots = <<>>
      /\ document = [state |-> document.state, spec |-> document.spec, roots |-> document.roots]
  BY DEF Init, Absent
<1>2. PICK n \in RootCounts : positionRoots = [i \in 1..n |-> i]
  BY DEF Init
<1>3. positionRoots \in Seq(Nat) /\ Len(positionRoots) \in Nat
  <2>1. n \in Nat /\ positionRoots \in [1..n -> Nat]
    BY <1>2, PlanAssumption
  <2> QED
    BY <2>1, FunctionIsSequence
<1>4. LandedAsPlanned
  <2>1. Len(document.roots) = 0 /\ DOMAIN document.roots = {}
    BY <1>1
  <2> QED
    BY <1>1, <1>3, <2>1 DEF LandedAsPlanned
<1> QED
  BY <1>1, <1>3, <1>4 DEF DeliveryInv

LEMMA DrawUpDelivery ==
  ASSUME DeliveryInv, NEW size \in BatchSizes, DrawUp(size)
  PROVE  DeliveryInv'
<1>1. UNCHANGED <<positionRoots, document>>
  BY DEF DrawUp
<1>2. BatchOf(size) \in Nat
  BY BatchOfType
<1>3. CASE plans' = plans
  BY <1>1, <1>3 DEF DeliveryInv, LandedAsPlanned
<1>4. CASE planning' = "planned" /\ plans' = Append(plans, BatchOf(size))
  <2>1. ~ Loops(BatchOf(size))
    BY <1>4 DEF DrawUp
  <2>2. /\ plans' \in Seq(Nat)
        /\ \A k \in DOMAIN plans' : plans'[k] \in {plans[j] : j \in DOMAIN plans}
                                    \/ plans'[k] = BatchOf(size)
    BY <1>2, <1>4 DEF DeliveryInv
  <2>3. \A k \in DOMAIN plans' : plans'[k] = 0 => positionRoots = <<>>
    BY <2>1, <2>2 DEF DeliveryInv, Loops
  <2> QED
    BY <1>1, <2>2, <2>3 DEF DeliveryInv, LandedAsPlanned
<1> QED
  BY <1>3, <1>4 DEF DrawUp

LEMMA LandingDelivery ==
  ASSUME DeliveryInv, NEW k \in DOMAIN plans, NEW first \in 0..(PositionCount - 1),
         DeliverLanding(k, first)
  PROVE  DeliveryInv'
<1> DEFINE roots == BatchAt(first, plans[k])
           old == document.roots
<1>1. /\ positionRoots \in Seq(Nat)
      /\ old \in Seq(Nat)
      /\ plans[k] \in Nat
      /\ Len(positionRoots) \in Nat
  BY DEF DeliveryInv
<1>2. /\ first \in 0..(Len(positionRoots) - 1)
      /\ first = Len(old)
      /\ document.state = "open"
      /\ document' = [document EXCEPT !.roots = @ \o roots]
      /\ UNCHANGED <<plans, positionRoots>>
  BY DEF DeliverLanding, Firsts
<1>3. /\ roots \in Seq(Nat)
      /\ first + Len(roots) = smaller(first + plans[k], Len(positionRoots))
      /\ \A i \in 1..Len(roots) : roots[i] = positionRoots[first + i]
  BY <1>1, <1>2, BatchIsStretch
<1> HIDE DEF roots, old
<1>4. /\ old \o roots \in Seq(Nat)
      /\ Len(old \o roots) = Len(old) + Len(roots)
      /\ \A i \in 1..(Len(old) + Len(roots)) :
           (old \o roots)[i] = IF i <= Len(old) THEN old[i] ELSE roots[i - Len(old)]
  BY <1>1, <1>3, ConcatProperties, Zenon
<1>5. /\ document'.roots = old \o roots
      /\ document'.state = "open"
      /\ document' = [state |-> document'.state, spec |-> document'.spec,
                      roots |-> document'.roots]
  <2>1. document = [state |-> document.state, spec |-> document.spec, roots |-> document.roots]
    BY DEF DeliveryInv
  <2>2. document' = [state |-> document.state, spec |-> document.spec, roots |-> old \o roots]
    BY <1>2, <2>1 DEF old
  <2>3. /\ document'.state = document.state
        /\ document'.spec = document.spec
        /\ document'.roots = old \o roots
    BY <2>2
  <2> QED
    BY <1>2, <2>2, <2>3
<1>6. Len(old) \in Nat /\ Len(roots) \in Nat
  BY <1>1, <1>3
<1>7. Len(old) + Len(roots) <= Len(positionRoots)
  BY <1>1, <1>2, <1>3, <1>6 DEF smaller
<1>8. ASSUME NEW i \in 1..(Len(old) + Len(roots))
      PROVE  (old \o roots)[i] = positionRoots[i]
  <2>1. CASE i <= Len(old)
    <3>1. i \in DOMAIN old /\ (old \o roots)[i] = old[i]
      BY <1>1, <1>4, <1>6, <2>1
    <3> QED
      BY <3>1 DEF DeliveryInv, LandedAsPlanned, old
  <2>2. CASE ~ (i <= Len(old))
    <3>1. i - Len(old) \in 1..Len(roots) /\ first + (i - Len(old)) = i
      BY <1>2, <1>6, <2>2
    <3>2. (old \o roots)[i] = roots[i - Len(old)]
      BY <1>4, <2>2
    <3>3. roots[i - Len(old)] = positionRoots[first + (i - Len(old))]
      BY <1>3, <3>1
    <3> QED
      BY <3>1, <3>2, <3>3
  <2> QED
    BY <2>1, <2>2
<1>9. DOMAIN (old \o roots) = 1..(Len(old) + Len(roots))
  BY <1>4, LenProperties
<1>10. LandedAsPlanned'
  BY <1>2, <1>4, <1>5, <1>7, <1>8, <1>9 DEF LandedAsPlanned
<1> QED
  BY <1>1, <1>2, <1>4, <1>5, <1>10 DEF DeliveryInv

LEMMA DeliveryStep == ASSUME DeliveryInv, [Next]_vars PROVE DeliveryInv'
<1>1. ASSUME NEW size \in BatchSizes, DrawUp(size) PROVE DeliveryInv'
  BY <1>1, DrawUpDelivery
<1>2. CASE DeliverInit
  <2>1. /\ document'.state = "open"
        /\ document'.roots = <<>>
        /\ document' = [state |-> document'.state, spec |-> document'.spec,
                        roots |-> document'.roots]
        /\ UNCHANGED <<positionRoots, plans>>
    BY <1>2 DEF DeliverInit
  <2>2. Len(document'.roots) = 0 /\ DOMAIN document'.roots = {} /\ document'.roots \in Seq(Nat)
    BY <2>1
  <2>3. Len(positionRoots) \in Nat
    BY DEF DeliveryInv
  <2>4. LandedAsPlanned'
    BY <2>1, <2>2, <2>3 DEF LandedAsPlanned
  <2> QED
    BY <2>1, <2>2, <2>4 DEF DeliveryInv
<1>3. ASSUME NEW k \in DOMAIN plans, NEW first \in 0..(PositionCount - 1),
             DeliverLanding(k, first)
      PROVE  DeliveryInv'
  BY <1>3, LandingDelivery
<1>4. CASE DeliverFinalize
  <2>1. /\ document' = [state |-> "final", spec |-> document.spec, roots |-> document.roots]
        /\ Len(document.roots) = PositionCount
        /\ UNCHANGED <<positionRoots, plans>>
    BY <1>4 DEF DeliverFinalize, DeliveryInv
  <2>2. document'.roots = document.roots
    BY <2>1
  <2> QED
    BY <2>1, <2>2 DEF DeliveryInv, LandedAsPlanned
<1>5. CASE UNCHANGED vars
  BY <1>5 DEF vars, DeliveryInv, LandedAsPlanned
<1> QED
  BY <1>1, <1>2, <1>3, <1>4, <1>5 DEF Next, Deliver

\* What delivery can do to a document holds in every reachable state.
THEOREM DeliveryInductive == Spec => []DeliveryInv
<1>1. DeliveryInv /\ [Next]_vars => DeliveryInv'
  BY DeliveryStep
<1> QED
  BY <1>1, DeliveryInit, PTL DEF Spec

\* The document holds the first of the planned roots, in order and each once,
\* whatever arrives twice, late or from an earlier plan.
THEOREM RootsLandAsPlanned == Spec => []LandedAsPlanned
<1>1. DeliveryInv => LandedAsPlanned
  BY DEF DeliveryInv
<1> QED
  BY <1>1, DeliveryInductive, PTL

\* A batch of the default size fits into a packet, and one more root would not.
THEOREM DefaultBatchesFit == Spec => []DefaultBatchFits
<1>1. ASSUME DeliveryInv PROVE DefaultBatchFits
  <2> SUFFICES ASSUME NEW k \in DOMAIN plans, plans[k] = BatchOf({}),
                      NEW first \in Firsts(plans[k])
               PROVE  /\ landBytes(Len(BatchAt(first, plans[k]))) <= PACKET_BYTES
                      /\ Len(BatchAt(first, plans[k])) = plans[k] =>
                           landBytes(Len(BatchAt(first, plans[k])) + 1) > PACKET_BYTES
    BY DEF DefaultBatchFits
  <2> DEFINE count == Len(BatchAt(first, plans[k]))
  <2>1. plans[k] = maxLandBatch /\ plans[k] \in Nat
    BY MaxLandBatch DEF BatchOf
  <2>2. first \in 0..(Len(positionRoots) - 1) /\ Len(positionRoots) \in Nat
    BY <1>1 DEF Firsts, DeliveryInv
  <2>3. /\ BatchAt(first, plans[k]) \in Seq(Nat)
        /\ first + count = smaller(first + plans[k], Len(positionRoots))
    BY <1>1, <2>1, <2>2, BatchIsStretch DEF DeliveryInv
  <2> HIDE DEF count
  <2>4. count \in Nat
    BY <2>3 DEF count
  <2>5. count <= plans[k]
    BY <2>1, <2>2, <2>3, <2>4 DEF smaller
  <2>6. plans[k] > 0
    <3>1. positionRoots # <<>>
      BY <2>2
    <3> QED
      BY <1>1, <2>1, <3>1 DEF DeliveryInv
  <2>7. landBytes(count) <= PACKET_BYTES
    <3>1. /\ landBytes(count) \in Nat
          /\ landBytes(count) <= landBytes(plans[k])
          /\ landBytes(plans[k]) \in Nat
      BY <2>1, <2>4, <2>5, LandBytesGrow
    <3>2. landBytes(plans[k]) <= PACKET_BYTES
      BY <2>1, <2>6, MaxLandBatch
    <3>3. PACKET_BYTES \in Int
      BY LandBytesGrow, PlanAssumption
    <3> QED
      BY <3>1, <3>2, <3>3
  <2>8. count = plans[k] => landBytes(count + 1) > PACKET_BYTES
    BY <2>1, MaxLandBatch
  <2> QED
    BY <2>7, <2>8 DEF count
<1> QED
  BY <1>1, DeliveryInductive, PTL

-----------------------------------------------------------------------------
(* The request and its answer                                              *)

LEMMA CreatedRequest ==
  ASSUME NEW options \in Options, NEW asked \in create(requester, options)
  PROVE  /\ asked.request = requestAddress(requester, asked.nonce)
         /\ asked.requester = requester
         /\ asked.promptTokenCount \in Nat
         /\ asked.maxNewTokens \in Nat
         /\ validRequest(asked)
BY PlanAssumption DEF create

LEMMA AnswerInit == Init => AnswerInv
<1> SUFFICES ASSUME Init PROVE AnswerInv
  OBVIOUS
<1>1. /\ plans = <<>>
      /\ document = Absent
      /\ \E options \in Options : request \in create(requester, options)
      /\ machine \in Machines
      /\ spec \in Specs(request)
      /\ familyBody \in FamilyBodies \cup {spec.familyBody}
  BY DEF Init
<1>2. /\ document.state = "absent"
      /\ document = [state |-> document.state, spec |-> document.spec, roots |-> document.roots]
  BY <1>1 DEF Absent
<1> QED
  BY <1>1, <1>2 DEF AnswerInv

LEMMA AnswerStep == ASSUME AnswerInv, [Next]_vars PROVE AnswerInv'
<1>1. /\ UNCHANGED <<request, machine, spec, familyBody>>
      /\ answers' = answers
      /\ hasDescriptor(spec)' = hasDescriptor(spec)
  <2>1. UNCHANGED <<request, machine, spec, familyBody>>
    BY DEF Next, DrawUp, Deliver, DeliverInit, DeliverLanding, DeliverFinalize, vars
  <2> QED
    BY <2>1 DEF answers
<1>2. ASSUME NEW size \in BatchSizes, DrawUp(size) PROVE AnswerInv'
  <2>1. UNCHANGED document
    BY <1>2 DEF DrawUp
  <2>2. CASE plans' = plans
    BY <1>1, <2>1, <2>2 DEF AnswerInv
  <2>3. CASE planning' = "planned" /\ plans' = Append(plans, BatchOf(size))
    <3>1. answers /\ hasDescriptor(spec)
      BY <1>2, <2>3 DEF DrawUp
    <3>2. plans' # <<>>
      BY <2>3
    <3> QED
      BY <1>1, <2>1, <3>1, <3>2 DEF AnswerInv
  <2> QED
    BY <1>2, <2>2, <2>3 DEF DrawUp
<1>3. CASE DeliverInit
  <2>1. /\ document' = [state |-> "open", spec |-> spec, roots |-> <<>>]
        /\ plans # <<>>
        /\ UNCHANGED plans
    BY <1>3 DEF DeliverInit
  <2>2. /\ document'.spec = spec
        /\ document' = [state |-> document'.state, spec |-> document'.spec,
                        roots |-> document'.roots]
    BY <2>1
  <2> QED
    BY <1>1, <2>1, <2>2 DEF AnswerInv
<1>4. ASSUME NEW k \in DOMAIN plans, NEW first \in 0..(PositionCount - 1),
             DeliverLanding(k, first)
      PROVE  AnswerInv'
  <2> DEFINE roots == document.roots \o BatchAt(first, plans[k])
  <2>1. /\ document' = [document EXCEPT !.roots = roots]
        /\ document.state = "open"
        /\ UNCHANGED plans
    BY <1>4 DEF DeliverLanding
  <2> HIDE DEF roots
  <2>2. document' = [state |-> document.state, spec |-> document.spec, roots |-> roots]
    BY <2>1 DEF AnswerInv
  <2>3. /\ document'.spec = document.spec
        /\ document'.state = document.state
        /\ document'.roots = roots
    BY <2>2
  <2> QED
    BY <1>1, <2>1, <2>2, <2>3 DEF AnswerInv
<1>5. CASE DeliverFinalize
  <2>1. /\ document' = [state |-> "final", spec |-> document.spec, roots |-> document.roots]
        /\ document.state = "open"
        /\ UNCHANGED plans
    BY <1>5 DEF DeliverFinalize, AnswerInv
  <2>2. /\ document'.spec = document.spec
        /\ document'.state = "final"
        /\ document'.roots = document.roots
    BY <2>1
  <2> QED
    BY <1>1, <2>1, <2>2 DEF AnswerInv
<1>6. CASE UNCHANGED vars
  BY <1>1, <1>6 DEF vars, AnswerInv
<1> QED
  BY <1>2, <1>3, <1>4, <1>5, <1>6 DEF Next, Deliver

\* What was planned answers the request, in every reachable state.
THEOREM AnswerInductive == Spec => []AnswerInv
<1>1. AnswerInv /\ [Next]_vars => AnswerInv'
  BY AnswerStep
<1> QED
  BY <1>1, AnswerInit, PTL DEF Spec

\* A document that was planned is one for the request: it names it, under the
\* terms asked for, and has a position for each new token.
THEOREM PlannedDocumentAnswers == Spec => []DocumentAnswersRequest
<1>1. ASSUME AnswerInv PROVE DocumentAnswersRequest
  <2> SUFFICES ASSUME document.state # "absent"
               PROVE  /\ document.spec.binding.requestId
                           = requestAddress(requester, request.nonce)
                      /\ document.spec.binding.consumerDigest = consumerDigest(request)
                      /\ document.spec.terms = request.terms
                      /\ document.spec.positionCount
                           >= request.promptTokenCount - 1 + request.maxNewTokens
    BY DEF DocumentAnswersRequest
  <2>1. document.spec = spec /\ answers /\ hasDescriptor(spec) /\ spec \in Specs(request)
    BY <1>1 DEF AnswerInv
  <2>2. PICK options \in Options : request \in create(requester, options)
    BY <1>1 DEF AnswerInv
  <2>3. /\ request.request = requestAddress(requester, request.nonce)
        /\ request.promptTokenCount \in Nat
        /\ request.maxNewTokens \in Nat
    BY <2>2, CreatedRequest
  <2>4. DOMAIN spec.binding = DOMAIN runBinding(request, executor)
    BY <2>1, <2>2, PlanAssumption
  <2>5. {"executor", "requestId", "consumerDigest", "outputFirstPosition", "outputCount"}
          \subseteq DOMAIN spec.binding
    BY <2>4 DEF runBinding
  <2>6. spec.binding.outputFirstPosition + spec.binding.outputCount <= spec.positionCount
    BY <2>1, <2>5 DEF hasDescriptor, bindingChecks, checkRunBinding
  <2>7. /\ spec.binding.outputFirstPosition = request.promptTokenCount - 1
        /\ spec.binding.outputCount = request.maxNewTokens
        /\ spec.binding.requestId = request.request
        /\ spec.binding.consumerDigest = consumerDigest(request)
        /\ spec.terms = request.terms
    BY <2>1 DEF answers, sameTerms
  <2>8. spec.positionCount >= request.promptTokenCount - 1 + request.maxNewTokens
    BY <2>6, <2>7
  <2> QED
    BY <2>1, <2>3, <2>7, <2>8
<1> QED
  BY <1>1, AnswerInductive, PTL

-----------------------------------------------------------------------------
(* The request account                                                     *)

LEMMA KeysAreNotZero ==
  /\ \A name : Named(name) # Zero
  /\ \A asked : consumerDigest(asked) # Zero
<1>1. DOMAIN Zero = {"zero"}
  BY DEF Zero
<1>2. \A name : DOMAIN Named(name) = {"name"}
  BY DEF Named
<1>3. \A asked : DOMAIN consumerDigest(asked) = {"consumer"}
  BY DEF consumerDigest
<1> QED
  BY <1>1, <1>2, <1>3

\* What was sent is read back.
LEMMA SentIsReadBack ==
  ASSUME validRequest(request), NEW options \in CreateOptions,
         createRequest(request, machine, options), OutputsFit(request, machine)
  PROVE  requestAccountDecodes(CreatedAccount(request, machine, options, 1))
<1> DEFINE account == CreatedAccount(request, machine, options, 1)
<1>1. /\ account.status = STATUS_OPEN
      /\ account.requester = request.requester
      /\ account.created = 1
      /\ account.deadline = 1 + options.deadlineSlots
      /\ account.consumerDigest = consumerDigest(request)
      /\ account.request = request
      /\ account.machine = machine
      /\ account.callback = options.callback
      /\ account.callbackPresent = IF options.callback = Zero THEN 0 ELSE 1
      /\ account.callbackPending = 0
      /\ account.answer = <<Zero, Zero, Zero, Zero>>
  BY DEF CreatedAccount
<1>2. Elements(account.answer) = {Zero}
  BY <1>1 DEF Elements
<1>3. account.deadline >= account.created
  BY <1>1, PlanAssumption
<1>4. /\ validMachine(machine)
      /\ request.machineId = machineId(machine)
      /\ machine.promptPositions = request.promptTokenCount
  BY DEF createRequest
<1> HIDE DEF account
<1>5. /\ account.callbackPresent \in {0, 1}
      /\ account.callbackPresent = 0 <=> account.callback = Zero
      /\ account.callbackPending \in {0, 1}
      /\ account.callbackPending # 1
  BY <1>1
<1>6. STATUS_OPEN \in STATUS_OPEN..STATUS_RESOLVED
  BY DEF STATUS_OPEN, STATUS_RESOLVED
<1>7. requestAccountDecodes(account)
  BY <1>1, <1>2, <1>3, <1>4, <1>5, <1>6 DEF requestAccountDecodes
<1> QED
  BY <1>7 DEF account

\* What is read back can be answered if its result fits into an account.
LEMMA ReadBackIsAnswerable ==
  ASSUME request.promptTokenCount \in Nat, request.maxNewTokens \in Nat,
         machine.positionCount \in Nat, NEW options,
         requestAccountDecodes(CreatedAccount(request, machine, options, 1))
  PROVE  bindingChecks(runBinding(request, executor), machine.positionCount)
           <=> ResultFits(request)
<1> DEFINE binding == runBinding(request, executor)
           checked == [binding EXCEPT !.executor = Digested(@), !.requestId = Digested(@),
                                      !.consumerDigest = Digested(@)]
<1>1. /\ validRequest(request)
      /\ machine.promptPositions = request.promptTokenCount
      /\ OutputsFit(request, machine)
  BY DEF requestAccountDecodes, CreatedAccount
<1>2. /\ Digested(executor) = "nonzero"
      /\ Digested(request.request) = "nonzero"
      /\ Digested(consumerDigest(request)) = "nonzero"
  BY <1>1, KeysAreNotZero DEF Digested, executor, validRequest
<1>3. /\ checked.executor = "nonzero"
      /\ checked.requestId = "nonzero"
      /\ checked.consumerDigest = "nonzero"
      /\ checked.outputFirstPosition = request.promptTokenCount - 1
      /\ checked.outputCount = request.maxNewTokens
      /\ checked.outputWidth = TOKEN_WIDTH
  BY <1>2 DEF runBinding
<1>4. request.maxNewTokens >= 1
  BY <1>1 DEF validRequest
<1>5. TOKEN_WIDTH \in 1..MAX_OUTPUT_WIDTH
  BY DEF TOKEN_WIDTH, MAX_OUTPUT_WIDTH
<1>6. request.promptTokenCount - 1 + request.maxNewTokens <= machine.positionCount
  BY <1>1 DEF OutputsFit
<1> HIDE DEF checked
<1>7. checkRunBinding(checked, machine.positionCount) <=> ResultFits(request)
  BY <1>3, <1>4, <1>5, <1>6 DEF checkRunBinding, ResultFits, isZero
<1>8. bindingChecks(binding, machine.positionCount)
        = checkRunBinding(checked, machine.positionCount)
  BY DEF bindingChecks, checked
<1> QED
  BY <1>7, <1>8

\* A request that was sent is read back exactly if its run fits its machine, and what
\* is read back can be answered exactly if the record of its result fits an account.
THEOREM SentRequestsReadBack == Spec => []RequestsReadBack
<1>1. ASSUME AnswerInv PROVE RequestsReadBack
  <2>1. PICK asked \in Options : request \in create(requester, asked)
    BY <1>1 DEF AnswerInv
  <2>2. /\ validRequest(request)
        /\ request.promptTokenCount \in Nat
        /\ request.maxNewTokens \in Nat
    BY <2>1, CreatedRequest
  <2>3. machine.positionCount \in Nat
    BY <1>1, PlanAssumption DEF AnswerInv
  <2>4. ASSUME NEW options \in CreateOptions, createRequest(request, machine, options)
        PROVE  requestAccountDecodes(CreatedAccount(request, machine, options, 1))
                 <=> RunFits(request, machine)
    <3>1. OutputsFit(request, machine) <=> RunFits(request, machine)
      <4>1. machine.promptPositions = request.promptTokenCount
        BY <2>4 DEF createRequest
      <4> QED
        BY <2>2, <2>3, <4>1 DEF OutputsFit, RunFits
    <3>2. requestAccountDecodes(CreatedAccount(request, machine, options, 1))
            => OutputsFit(request, machine)
      <4> DEFINE account == CreatedAccount(request, machine, options, 1)
      <4>1. account.request = request /\ account.machine = machine
        BY DEF CreatedAccount
      <4> HIDE DEF account
      <4>2. requestAccountDecodes(account) => OutputsFit(request, machine)
        BY <4>1 DEF requestAccountDecodes
      <4> QED
        BY <4>2 DEF account
    <3> QED
      BY <2>2, <2>4, <3>1, <3>2, SentIsReadBack
  <2> QED
    BY <2>2, <2>3, <2>4, ReadBackIsAnswerable DEF RequestsReadBack
<1> QED
  BY <1>1, AnswerInductive, PTL

-----------------------------------------------------------------------------
(* The family table                                                        *)

Slots    == Nat \X Nat
Families == [ordinal : Nat, slots : Seq(Slots)]

SlotOrder   == {pair \in Slots \X Slots : SlotBefore(pair[1], pair[2])}
FamilyOrder == {pair \in Families \X Families : pair[1].ordinal < pair[2].ordinal}

LEMMA SlotOrderIsStrict == IsStrictOrder(SlotOrder, Slots)
<1>1. \A x \in Slots : <<x, x>> \notin SlotOrder
  BY DEF SlotOrder, SlotBefore, Slots
<1>2. ASSUME NEW x \in Slots, NEW y \in Slots, NEW z \in Slots,
             <<x, y>> \in SlotOrder, <<y, z>> \in SlotOrder
      PROVE  <<x, z>> \in SlotOrder
  <2>1. SlotBefore(x, y) /\ SlotBefore(y, z)
    BY <1>2 DEF SlotOrder
  <2>2. SlotBefore(x, z)
    BY <2>1 DEF SlotBefore, Slots
  <2> QED
    BY <2>2 DEF SlotOrder
<1> QED
  BY <1>1, <1>2 DEF IsStrictOrder

LEMMA FamilyOrderIsStrict == IsStrictOrder(FamilyOrder, Families)
<1>1. \A x \in Families : x.ordinal \in Nat
  BY DEF Families
<1>2. \A x \in Families : <<x, x>> \notin FamilyOrder
  BY <1>1 DEF FamilyOrder
<1>3. ASSUME NEW x \in Families, NEW y \in Families, NEW z \in Families,
             <<x, y>> \in FamilyOrder, <<y, z>> \in FamilyOrder
      PROVE  <<x, z>> \in FamilyOrder
  <2>1. x.ordinal < y.ordinal /\ y.ordinal < z.ordinal
    BY <1>3 DEF FamilyOrder
  <2>2. x.ordinal < z.ordinal
    BY <1>1, <2>1
  <2> QED
    BY <2>2 DEF FamilyOrder
<1> QED
  BY <1>2, <1>3 DEF IsStrictOrder

\* Slots in order with the same elements are the same slots.
LEMMA OneSlotList ==
  ASSUME NEW s \in Seq(Slots), NEW t \in Seq(Slots), SlotsInOrder(s), SlotsInOrder(t),
         Elements(s) = Elements(t)
  PROVE  s = t
<1>1. ASSUME NEW seq \in Seq(Slots), SlotsInOrder(seq) PROVE InOrder(SlotOrder, seq)
  <2> SUFFICES ASSUME NEW i \in 1..(Len(seq) - 1)
               PROVE  <<seq[i], seq[i + 1]>> \in SlotOrder
    BY DEF InOrder
  <2>1. i \in 1..Len(seq) /\ i + 1 \in 1..Len(seq)
    BY LenProperties
  <2>2. seq[i] \in Slots /\ seq[i + 1] \in Slots
    BY <2>1, ElementOfSeq
  <2>3. SlotBefore(seq[i], seq[i + 1])
    BY <1>1 DEF SlotsInOrder
  <2> QED
    BY <2>2, <2>3 DEF SlotOrder
<1>2. InOrder(SlotOrder, s) /\ InOrder(SlotOrder, t)
  BY <1>1
<1>3. SameElements(s, t)
  BY LenProperties DEF SameElements, Elements
<1> QED
  BY <1>2, <1>3, SlotOrderIsStrict, OneListing

LEMMA BodyFacts ==
  ASSUME NEW body \in FamilyBodyBlocks, checkFamilyBody(body)
  PROVE  /\ body.families \in Seq(Families)
         /\ body.trailing = FALSE
         /\ body = [families |-> body.families, trailing |-> body.trailing]
         /\ DOMAIN body.families = 1..Len(body.families)
         /\ InOrder(FamilyOrder, body.families)
         /\ \A i \in 1..Len(body.families) :
              /\ body.families[i] \in Families
              /\ SlotsInOrder(body.families[i].slots)
<1>1. /\ body.families \in Seq(Families)
      /\ body.trailing \in BOOLEAN
      /\ body = [families |-> body.families, trailing |-> body.trailing]
  BY DEF FamilyBodyBlocks, Families, Slots
<1>2. /\ Len(body.families) \in Nat
      /\ DOMAIN body.families = 1..Len(body.families)
      /\ \A i \in 1..Len(body.families) : body.families[i] \in Families
  BY <1>1, LenProperties, ElementOfSeq
<1>3. ASSUME NEW i \in 1..(Len(body.families) - 1)
      PROVE  <<body.families[i], body.families[i + 1]>> \in FamilyOrder
  <2>1. i \in 1..Len(body.families) /\ i + 1 \in 1..Len(body.families)
    BY <1>2
  <2>2. body.families[i].ordinal < body.families[i + 1].ordinal
    BY DEF checkFamilyBody
  <2> QED
    BY <1>2, <2>1, <2>2 DEF FamilyOrder
<1>4. InOrder(FamilyOrder, body.families)
  BY <1>3 DEF InOrder
<1> QED
  BY <1>1, <1>2, <1>4 DEF checkFamilyBody

\* Every family of a body is one of any other body of the same table.
LEMMA FamiliesOfTable ==
  ASSUME NEW body \in FamilyBodyBlocks, checkFamilyBody(body),
         NEW other \in FamilyBodyBlocks, checkFamilyBody(other),
         Table(body) = Table(other),
         NEW i \in 1..Len(body.families)
  PROVE  \E j \in 1..Len(other.families) : body.families[i] = other.families[j]
<1> DEFINE family == body.families[i]
<1>1. family \in Families /\ SlotsInOrder(family.slots)
  BY BodyFacts
<1>2. [ordinal |-> family.ordinal, slots |-> Elements(family.slots)] \in Table(body)
  <2>1. family \in Elements(body.families)
    BY BodyFacts DEF Elements
  <2> QED
    BY <2>1 DEF Table
<1>3. PICK match \in Elements(other.families) :
        [ordinal |-> family.ordinal, slots |-> Elements(family.slots)]
          = [ordinal |-> match.ordinal, slots |-> Elements(match.slots)]
  BY <1>2 DEF Table
<1>4. PICK j \in 1..Len(other.families) : match = other.families[j]
  BY <1>3, BodyFacts DEF Elements
<1>5. match \in Families /\ SlotsInOrder(match.slots)
  BY <1>4, BodyFacts
<1>6. family.ordinal = match.ordinal /\ Elements(family.slots) = Elements(match.slots)
  BY <1>3
<1>7. family.slots = match.slots
  <2>1. family.slots \in Seq(Slots) /\ match.slots \in Seq(Slots)
    BY <1>1, <1>5 DEF Families
  <2> QED
    BY <1>1, <1>5, <1>6, <2>1, OneSlotList
<1>8. family = match
  BY <1>1, <1>5, <1>6, <1>7 DEF Families
<1> QED
  BY <1>4, <1>8

\* A family table has one body, so it has one descriptor.
THEOREM FamilyTableHasOneBody == Spec => []FamilyBodyIsCanonical
<1>1. ASSUME AnswerInv PROVE FamilyBodyIsCanonical
  <2> SUFFICES ASSUME checkFamilyBody(familyBody),
                      NEW other \in FamilyBodies, checkFamilyBody(other),
                      Table(other) = Table(familyBody)
               PROVE  other = familyBody
    BY DEF FamilyBodyIsCanonical
  <2>1. familyBody \in FamilyBodyBlocks /\ other \in FamilyBodyBlocks
    BY <1>1, PlanAssumption DEF AnswerInv
  <2>2. SameElements(other.families, familyBody.families)
    BY <2>1, FamiliesOfTable DEF SameElements
  <2>3. other.families = familyBody.families
    BY <2>1, <2>2, BodyFacts, FamilyOrderIsStrict, OneListing
  <2> QED
    BY <2>1, <2>3, BodyFacts
<1> QED
  BY <1>1, AnswerInductive, PTL
=============================================================================
