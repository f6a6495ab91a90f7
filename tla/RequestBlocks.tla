--------------------------- MODULE RequestBlocks ----------------------------
(***************************************************************************)
(* The blocks a request for a run is made of and the checks the SDK        *)
(* applies to them: the request block TRQ1, the machine block TMC1, the    *)
(* request account TCR1 that holds both, the family table, and the         *)
(* descriptor of the document that answers the request.                    *)
(*                                                                         *)
(* A digest is the thing digested, an address the things it is derived     *)
(* from: two are equal only when those are.                                *)
(***************************************************************************)
EXTENDS RunTerms, Sequences, FiniteSets

CONSTANTS
  MAX_FAMILIES,  \* 24 in the code
  MAX_SEGMENTS   \* 128 in the code

Zero      == [zero |-> TRUE]
Named(name) == [name |-> name]

smaller(a, b) == IF a < b THEN a ELSE b
Elements(seq) == {seq[i] : i \in DOMAIN seq}

-----------------------------------------------------------------------------
(* TRQ1                                                                    *)

SAMPLER_GREEDY == 0
TOKEN_WIDTH    == 16

requestAddress(requester, nonce) == [request |-> <<requester, nonce>>]
hashPromptTokens(tokens) == [tokens |-> tokens]
consumerDigest(request) == [consumer |-> request]

\* RequestBlockV7.validate.  The first four sampling bytes are free.
validRequest(request) ==
  /\ request.samplerForm = SAMPLER_GREEDY
  /\ request.samplingTail = Zero
  /\ request.seed = Zero
  /\ request.promptTokenCount >= 1
  /\ request.maxNewTokens >= 1
  /\ Zero \notin {request.tokenizerSha256, request.request, request.requester,
                  request.promptCommitment}
  /\ checkRunTerms(request.terms, 1)

\* RequestBlockV7.create: the block is for its own address, and for the prompt
\* given, by its tokens or by their hash.  The set is empty when it refuses.
create(requester, options) ==
  LET derived == requestAddress(requester, options.nonce)
      hashes == {hashPromptTokens(tokens) : tokens \in options.promptTokens}
                \cup options.promptTokensSha256
      block(hash) ==
        [request |-> derived, requester |-> requester, nonce |-> options.nonce,
         promptTokenCount |-> options.promptTokenCount,
         maxNewTokens |-> options.maxNewTokens,
         promptCommitment |-> options.promptCommitment,
         promptTokensSha256 |-> hash,
         tokenizerSha256 |-> options.tokenizerSha256,
         machineId |-> options.machineId, terms |-> options.terms,
         samplerForm |-> options.samplerForm,
         samplingTail |-> options.samplingTail, seed |-> options.seed]
  IN  {request \in {block(hash) : hash \in hashes} :
         /\ Cardinality(hashes) = 1
         /\ options.requestId \subseteq {derived}
         /\ validRequest(request)}

\* The binding of the run that answers the request.
runBinding(request, executor) ==
  [executor |-> executor, requestId |-> request.request,
   consumerDigest |-> consumerDigest(request), seed |-> request.seed,
   outputFirstPosition |-> request.promptTokenCount - 1,
   outputCount |-> request.maxNewTokens, outputWidth |-> TOKEN_WIDTH]

\* To the checks of a binding a digest is only zero or nonzero.
Digested(value) == IF value = Zero THEN "zero" ELSE "nonzero"
bindingChecks(binding, positionCount) ==
  checkRunBinding([binding EXCEPT !.executor = Digested(@), !.requestId = Digested(@),
                                  !.consumerDigest = Digested(@)], positionCount)

-----------------------------------------------------------------------------
(* TMC1                                                                    *)

machineId(machine) == [machine |-> machine]

\* The height of the tree over the positions.
rs1Height(positionCount) == CHOOSE h \in 0..32 :
  2^h >= positionCount /\ (h = 0 \/ 2^(h - 1) < positionCount)

validMachine(machine) ==
  /\ machine.modelRoot # Zero
  /\ machine.familyCount \in 1..MAX_FAMILIES
  /\ machine.segmentCount \in 1..MAX_SEGMENTS
  /\ machine.positionCount >= 1
  /\ machine.vocab >= 1
  /\ machine.promptPositions \in 1..machine.positionCount
  /\ machine.clause = <<machine.positionCount, machine.segmentCount>>
  /\ machine.rs1Height = rs1Height(machine.positionCount)
  /\ machine.tokenWidth = TOKEN_WIDTH

-----------------------------------------------------------------------------
(* TCR1                                                                    *)

STATUS_OPEN == 0
STATUS_RESOLVED == 2

\* RequestProgramClient.createRequest: what it sends, or nothing.
createRequest(request, machine, options) ==
  /\ validRequest(request)
  /\ validMachine(machine)
  /\ request.request = requestAddress(request.requester, request.nonce)
  /\ request.machineId = machineId(machine)
  /\ options.deadlineSlots > request.terms.challengeWindowSlots
  /\ options.callback \notin {Named("request program"), Named("system program"),
                              Named("dcg program")}
  /\ Len(options.promptTokens) <= request.promptTokenCount
  /\ machine.promptPositions = request.promptTokenCount
  /\ \A token \in Elements(options.promptTokens) : token \in 0..(machine.vocab - 1)

\* The account the program makes of it at some slot.
CreatedAccount(request, machine, options, slot) ==
  [status |-> STATUS_OPEN, requester |-> request.requester,
   created |-> slot, deadline |-> slot + options.deadlineSlots,
   consumerDigest |-> consumerDigest(request), request |-> request,
   machine |-> machine, callback |-> options.callback,
   callbackPresent |-> IF options.callback = Zero THEN 0 ELSE 1,
   callbackPending |-> 0, answer |-> <<Zero, Zero, Zero, Zero>>]

\* Mutant: one token too many.
OutputsFit_OneMore(request, machine) ==
  request.maxNewTokens <= machine.positionCount - machine.promptPositions + 2

OutputsFit(request, machine) ==
  request.maxNewTokens <= machine.positionCount - machine.promptPositions + 1

\* RequestAccount.decode.  The answer is the descriptor, the document, the
\* result and the executor: all four are there once the request is bound.
requestAccountDecodes(account) ==
  /\ account.status \in STATUS_OPEN..STATUS_RESOLVED
  /\ account.callbackPresent \in {0, 1}
  /\ account.callbackPresent = 0 <=> account.callback = Zero
  /\ account.callbackPending \in {0, 1}
  /\ account.callbackPending = 1 =>
       account.status = STATUS_RESOLVED /\ account.callbackPresent = 1
  /\ validRequest(account.request)
  /\ validMachine(account.machine)
  /\ account.request.requester = account.requester
  /\ account.request.machineId = machineId(account.machine)
  /\ account.machine.promptPositions = account.request.promptTokenCount
  /\ OutputsFit(account.request, account.machine)
  /\ account.consumerDigest = consumerDigest(account.request)
  /\ account.deadline >= account.created
  /\ IF account.status = STATUS_OPEN THEN Elements(account.answer) = {Zero}
                                     ELSE Zero \notin Elements(account.answer)

-----------------------------------------------------------------------------
(* The family table and the descriptor                                     *)

FamilyBodyBlocks ==
  [families : Seq([ordinal : Nat, slots : Seq(Nat \X Nat)]), trailing : BOOLEAN]

\* The order of slots by entry and then by write.
SlotBefore(a, b) == a[1] < b[1] \/ (a[1] = b[1] /\ a[2] < b[2])

\* Mutant: slots may come in any order, as long as none comes twice.
SlotsInOrder_Distinct(slots) == Cardinality(Elements(slots)) = Len(slots)

SlotsInOrder(slots) == \A i \in 1..(Len(slots) - 1) : SlotBefore(slots[i], slots[i + 1])

\* A body is its families, each with an ordinal and its slots, and perhaps more
\* bytes than they take.
checkFamilyBody(body) ==
  /\ Len(body.families) \in 1..MAX_FAMILIES
  /\ ~ body.trailing
  /\ \A i \in DOMAIN body.families :
       body.families[i].slots # <<>> /\ SlotsInOrder(body.families[i].slots)
  /\ \A i \in 1..(Len(body.families) - 1) :
       body.families[i].ordinal < body.families[i + 1].ordinal

\* DescriptorSpecV7.preimage: what has a descriptor at all.
hasDescriptor(spec) ==
  /\ spec.clause = <<spec.positionCount, spec.segmentCount>>
  /\ checkFamilyBody(spec.familyBody)
  /\ spec.familyCount = Len(spec.familyBody.families)
  /\ spec.positionCount >= 1
  /\ spec.segmentCount \in 1..MAX_SEGMENTS
  /\ Zero \notin {spec.modelRoot, spec.promptCommitment}
  /\ bindingChecks(spec.binding, spec.positionCount)

descriptorOf(spec) == [descriptor |-> spec]
=============================================================================
