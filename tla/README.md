# Basanos DCG lifecycle: a TLA+ development

This directory holds a TLA+ model of the protocol that the Basanos development kit
implements, model-checking runs for TLC, and proofs for TLAPS. The kit is a pair of
libraries, TypeScript (`sdk/typescript/src`) and Python (`sdk/python/src/basanos_sdk`),
for four parties that meet in accounts on a chain: a *requester* asks for a run of a
plan, an *executor* commits to the run in a *document*, *challengers* dispute it, and
*consumers* read the *result*. The libraries hold the reference code of the result
handlers and of landing, encode and decode every account, build the instructions,
and talk to the chain through a JSON-RPC client. The challenge handlers themselves
run in the on-chain program, which is not in the repository.

## 1. Inventory

| Component | State | Operations | What is hard | What makes it correct |
|---|---|---|---|---|
| Run terms, run binding (`consensus.ts` RunTerms, RunBinding) | none: committed blocks DDT2, DRB1 | checks, built-in division of the executor bond | caps, zero values, rounding | what is accepted decodes again; shares add up |
| Document and result (`Dcm2V6`, `ResultV5`, `ResultTombstone`) | header DCM2, record DCR2, tombstone DCRZ | init, land, attest, finalize, resolve, close, close result | independent senders in any order, deadlines, status copied from document to result | an accepted result is beyond dispute and stable; retention is honoured; records decode |
| Challenges and settlement (`decodeChallengeRecord`, `builtInSettlement`, `watcher.ts`) | records DCR1, counters of DCM2, escrowed lamports | open, reveal, select, descend, answer, rule, time out, settle by two routes | several challenges at once, silent parties, failing callback, one bond for many winners, bytes that change meaning with the phase | counter exact, bond divided once, every challenge ends, the instruction of the party in turn is accepted, records read back |
| Landing (`mmrAppend`, `landPositionRoots`) | mountain range of DCM2, table DPR2 | append, land a batch | long append sequences, refusal in the middle of a batch | header and table agree; a refusal changes nothing |
| RPC transport (`transport.ts`) | request counter | call, send with retries, confirm, read accounts, events from logs | lost answers, repeated sends, timeouts, batching, attribution of log lines | a reported confirmation is true, a timeout means undecided, accounts come back in order, events are the program's, every call ends |
| Request program client (`request_program.ts`) | TCR1 request account, TMC1 machine | create, append prompt, bind, resolve | checks split between sender and decoder | what is sent is read back; what is read can be answered |
| Requester, document plan (`requester.ts`) | none | request, binding, plan of init, landing batches, finalize | the plan is delivered late, twice, after another plan | the document answers the request and lands as planned |
| Consumer (`consumer.ts`) | none | read result, view, decode tokens, verify an output | two reads that are not one | tokens taken are final |
| Watcher (`watcher.ts`) | none | sample, open, reveal, select, descend, settle | account list by round and by route, stale record | the instruction fits the record's phase |
| Instruction builders (`instructions.ts`) | none | one per instruction | an account not marked writable fails only in the rare case that writes it | what a step changes is declared |
| Trees (`consensus.ts`) | none | levels, paths, folds, position and segment roots, attestations | uneven shapes, a node paired with itself | a proof verifies exactly for its leaf |
| Registry, admission, seal and config codecs, addresses, keys, events | none | byte layouts, digests | none for a model checker | vectors test them |

The components interact through accounts only: every instruction reads and writes
DCM2, DPR2, DCR2 and DCR1 atomically at one slot, and nobody's instruction waits for
another's. The SDK calls into the chain through the transport, and reads accounts back.

`PROJECT.json` lists every component with its status and every hazard at its line.

## 2. Modules

| Module | Models | Lines up with |
|---|---|---|
| `RunTerms` | the committed blocks as constants `Terms`, `Binding` with the checks as assumptions | `checkRunTerms`, `checkRunBinding`, `builtInSettlement` |
| `Lifecycle` | a document from `UnifiedInit` to the tombstone, its challenges, its escrow | one action per instruction (table below) |
| `LifecycleProperties` | the properties and the inductive invariant | the decoders of DCM2 and DCR2 |
| `LifecycleProofs` | theorems and proofs: its inductive invariant, its escrow, its action properties, its refinement of `ResultPromise` | |
| `ResultPromise` | the abstract specification: what a consumer that reads only the result record is promised | implemented by `Lifecycle` through `ConsumerView` |
| `Instructions` | the account list of every instruction of a document and a challenge | `instructions.ts` |
| `Challenge` | one challenge, phase by phase, with the watcher's instructions sent at any time | `watcher.ts`, `decodeChallengeRecord` |
| `ChallengeProperties` | its properties and its refinement of `Lifecycle` | |
| `ChallengeProofs` | theorems and proofs, the refinement step by step | |
| `Landing` | the SDK's replay of LandPositionRoots on a `Dcm2V6` and a DPR2 table, in both libraries | `mmrAppend`, `appendPosition`, `landPositionRoots`, `land_position_roots` |
| `LandingProofs` | theorems and proofs | |
| `Transport` | the JSON-RPC client sending a transaction and confirming it, over a lossy endpoint and a chain that forks, in both libraries | `call`, `sendRawTransaction`, `signatureStatuses`, `confirm`, `send_raw_transaction` |
| `TransportProofs` | theorems and proofs | |
| `ClientReads` | account lists in halved batches, a result with its events, and the events alone, read while the chain (`ResultPromise`) goes on | `getMultipleAccounts`, `eventsFromLogs`, `Consumer`, `usableTokens` |
| `ClientReadsProofs` | theorems and proofs | |
| `RequestBlocks` | the blocks of a request and their checks, the family table, the descriptor | `requester.ts`, `request_program.ts`, `checkFamilyBody`, `DescriptorSpecV7` |
| `DocumentPlan` | from a request to a finalized document: the plan and its delivery | `documentPlan`, `maxLandBatch`, `encodeLandPositionRoots` |
| `DocumentPlanProofs` | theorems and proofs | |
| `Trees` | a committed position, the proofs of its outputs, and their verification | `duplicateLevels`, `duplicatePath`, `duplicateFold`, `positionRoot`, `segmentRootFromLeaf`, `verifySpp1`, `verifyAttestation` |
| `TreesProofs` | theorems and proofs | |
| `DataLemmas` | facts on numbers and sequences that the proofs about data share | |
| `MCLifecycle`, `MCChallenge`, `MCLanding`, `MCTransport`, `MCClientReads`, `MCDocumentPlan`, `MCTrees` | instances for TLC | |

What composes what: `Lifecycle` and `Challenge` both stand on `RunTerms`; `Challenge` sends
the instructions of `Instructions` and implements `Lifecycle`; `Lifecycle` implements
`ResultPromise`; `ClientReads` reads a chain that is `ResultPromise`, so what a reader is told
holds over every life of a document, and over challenges played phase by phase.

### State and actions of `Lifecycle`

`document` and `result` are records with the fields of `Dcm2V6` and `ResultV5` that
change; `account` says whether the account exists, and for the result which form
(`DCR2`, `DCRZ`) it has. A root is abstracted to the number of positions it commits to,
a key or digest to zero or nonzero. `challenges` maps an address (challenger and nonce)
to its DCR1 record; the eleven phases are reduced to whose turn it is (`Challenge` has them). `bank` holds the
lamports in the document's and the records' escrow and each side's balance, with rent
and fees left out. `slot` is the clock.

| Action | Instruction | Code |
|---|---|---|
| `UnifiedInit` | 161 | `ResultV5.atInit`, defaults of `Dcm2V6`; checks external |
| `landPositionRoots` | 162 | `landPositionRoots`, roots abstracted to their count (`Landing` has them) |
| `AttestOutput` | 177 | external |
| `FinalizeDocument` | 165 | result half `finalizeResultV7`; document half external |
| `OpenChallenge`, `OpenAndConvict` | 166, 167, 171 | external |
| `Respond`, `Verdict` | 163, 164, 168-170, 179-181, 124 | external; a round reduced to a turn, which the next may be of either party |
| `Timeout` | 132 | external |
| `SettleWithPot`, `SettleWithoutPot` | 131 | division `builtInSettlement`; routes external |
| `ResolveResult` | 178 | `resolveStatusV7` |
| `AbandonDocument`, `CloseDocument` | 172 | `closeDocumentV7`, before and after finalization |
| `CloseResult` | 185 | `closeResultV7` |
| `Tick` | | the chain's clock |

A refused transaction is rolled back, so a refusal is an action that is not enabled.
External handlers are modelled from the fields, flags, counters and deadlines the SDK
decodes and from the instruction descriptions of `docs/executor.md` and
`docs/watcher-challenger.md`.

### State and actions of `Challenge`

`record` is the DCR1 record: its phase, deadline, winner, counters, and in `bytes` the pieces of
bytes 170 to 182, which `decodeChallengeRecord` reads by phase. The counters hold what was
last meant, the bytes what was last written, and the two are compared. `response` is the
response account, `document` the counters a challenge touches, and `turns` and `paid` are
histories. `Execute(ix)` runs one handler on an instruction of the SDK and refuses it, as the
runtime does, when it would change an account the list did not mark writable. Any instruction
the watcher can build may be sent in any state, so lost, late and repeated ones are covered.

The handlers are external. Where the docs leave something open, a choice was made: silence in
the summary answer phase (11) favours the challenger; the fix-point accounts are required in the last
descent only, and in the last reveal allow an early conviction; the entry is one that reads from a
family table; tag 118 only reads the record, so that tag 120 is the step from phase 1 to phase 2.
The executor's answer (tags 115 to 118, 120, 121, 124, 125, 129) and tag 170 have no builder
in the SDK and are modelled by what they leave in the record.

The mapping to `Lifecycle` forgets the phase but for the party in turn. Most answers hand over
the turn, but a sealed response and a summary leaf fixed early leave it with the executor, which
is why `Respond` of `Lifecycle` lets either party be next. A chunk of a reveal, a family
table and one of several summary slots are no turn and map to a stutter. The executor bond is held,
and the pot divided by the built-in shares when a win is settled, as `paid` tells (`BankSeen`); the
result record is the one a finalize leaves (`ResultSeen`), since no challenge writes it.

### State and actions of `Landing`

`document` and `dpr2` are the caller's objects; `accepted` is a history of the roots of
the calls that returned; `outcome` is how the last call ended. A call that throws is a
step, because the objects outlive it. The TypeScript and the Python replay are separate
actions, chosen for a whole behaviour from the constant `SDKs`. The two loops, over the peaks that a
new leaf merges with and over the roots of a batch, are recursive functions. SHA-256 is taken as injective: a digest is the
sequence of what was hashed.

### State and actions of `Transport`

`client` is the local state of `sendRawTransaction` or `confirm`: the attempt, or the target
commitment, the deadline and the last status read. `wire` is the call under way: asked, then
answered or failed, then received. `chain` is what the endpoint knows of each transaction and
`now` the clock that `confirm` reads. A call is three steps (`Post`, `AnswerSend` or
`AnswerStatus`, then `ReceiveSend`, `ReceiveStatus` or `ReceiveStatusError`), because the chain
and the clock go on while it is under way. The endpoint and the chain are external: a send
may be taken and its answer lost or turned into an error; a transaction may expire before it
executes, be taken back by a fork while it is only processed, or stay unseen for ever. The
endpoint is taken to answer `null` for a signature it has not seen, as the `is not None` of the
Python client expects.

The libraries differ in two operators, `Retried` and `Throws`. Python retries a send after an
`RpcError` only, TypeScript after any exception. Python waits when a status is null, TypeScript
reads a field of it. Left out: `sendTransaction` fetches a blockhash and signs once, before it
sends, and the bytes stay the same from one attempt to the next.

### State and actions of `ClientReads`

The chain is `ResultPromise` with a `height` that counts its changes. `job` is the read under
way, `pc` the client's place in it: it asks for accounts (a body over the limit halves the batch
before anything is sent, a batch of one fails), or reads the result and then, in a second call, the
events. Logs are lines between an invoke and a success, with calls nested once and twice;
`eventsFromLogs` keeps a stack as the code does. What a program logs is read like any other line: it
may hold the words of an invoke, of an end or of event data (`Looks`). A value is two words of a small
width, laid out as `tokenValue` does, the token second, so that a negative token and one beyond the
vocabulary occur. Left out: the chain stands still while
events alone are read, since nothing there depends on it.

### State and actions of `DocumentPlan`

A request, a machine, a spec, a family table and a list of roots are chosen at the start, right but
for at most one part. `DrawUp` is `documentPlan` with a batch size or none; it ends planned,
refused, or hung (a size of zero). Transactions are those of any plan drawn up so far, delivered
any number of times in any order; the chain's side (`DeliverInit`, `DeliverLanding`,
`DeliverFinalize`) checks the derived address, the first position, the count and the packet size.
Addresses and digests are the things they are made from. The rest of a request's own life (append, bind, resolve,
callback) runs in a program that is not in the repository; its account is modelled as it is
created, and through the decoder.

### State and actions of `Trees`

A committer builds one position with the library's functions: segments of entries that write
values to places, the writes being rows of the entry's leaf. A prover then presents an attestation
(`Offered`): the committed one of an output, one made for other coordinates, the one of another
position of the same size, or one with a part exchanged, the rows of its leaf included, alone or so
that value and row agree. The verifier gives any subset of its options (`Optional`: descriptor, index,
table root, checked by `consensus.ts:1975-1976` and `:1884` only when given) and answers. No digest
covers the index, so a verifier that does not expect one lets the prover choose it; the other two
follow from the root. SHA-256 is injective: a digest is the record of what it covers. The committer is
taken as honest: that a root was built at all is what a challenge is for.

## 3. Runs

| Run | Question | Bounds |
|---|---|---|
| `lifecycle` | what usable, refuted, counted and escrowed mean in every reachable state | two records, three openings, two turns per challenge, nine slots, two positions, executor bond 3 at half reward, custom program |
| `lifecycle_time` | what a step may never do; the refinement of `ResultPromise`; that the SDK's instruction declares every account a step changes; progress | two records, two openings, one turn, eight slots; executor bond 1, retention 2, a custom program whose callback may fail until its deadline |
| `challenge` | the party in turn has a move and it is accepted; the record reads back; a dispute ends in a time known in advance; the refinement of `Lifecycle` | three segments in chunks of one or two, three rounds to an entry and to a summary leaf, three digests in a round, two summary slots, one family root, eight slots, an executor bond of 3 at half reward, choices up to the first that does not fit a byte |
| `landing` | header and table agree, what landed was accepted, in both libraries; in Python a refusal changes nothing | seven positions (three merges deep), batches up to three, two roots and the zero root |
| `landing_refusal` | a violation: TypeScript changes its objects before it refuses | the same |
| `transport` | what a confirmation and a timeout mean, in both libraries; in Python an unseen signature is waited for; every call ends | one transaction, sent and confirmed any number of times; two retries, a timeout of two ticks, a clock of three |
| `transport_null` | a violation: the TypeScript `confirm` does not survive a null status | the same |
| `reads` | order and completeness of accounts, finality of tokens, attribution of events, every read ends | five keys, one twice and one missing, batches up to four, every body limit; two outputs, words of three bits, a vocabulary of three; calls nested up to two deep |
| `reads_logs` | a violation: a logged word ends a call | the same, with that word |
| `reads_tokens` | a violation: the docs put the token first in a value | the same as `reads` |
| `plan` | the document answers the request and lands as planned; the default batch fits; every plan completes but for what can be seen to stop it; blocks and family tables | thirty positions (a packet carries 28 roots), 29 to 31 roots, batch sizes none, 0, 7, 10, 40, two plans; a machine of 700000 positions, with a request whose result just fits a record and one whose result does not |
| `trees` | an attestation is accepted exactly when it is the committed one; roots bind leaves | every tree of up to three segments of up to five entries, two places, values and descriptors, two digests of nothing, every subset of the options; values and digests are symmetric |

Why the bounds are enough. The interesting orders of `Lifecycle` need two challenges at once, a third
that reuses the address of a settled one, one win and one loss, an answer at the last slot of
a window and a timeout one slot later; nine slots hold a challenge window, an opening at its last slot, two response
windows, a settlement and a retention one after the other. `MaxSlot`, `MaxOpens` and `MaxRounds` bound
the clock, the openings and the turns; `FinalizeDocument` and the round deadlines are held
inside the clock so that the deadlines themselves are always reached, and a custom deadline
past the clock is capped at its last slot. `U64_MAX` is the last slot of the clock in both runs:
a close at that slot, or within a retention of two before it, is one whose retention would overflow, and is
refused (`RetentionFits`). A bond of 3
at half reward leaves an odd lamport. The theorems of section 4 hold without these bounds on size:
they need the clock, the openings and the turns to be bounded, by any numbers.

Three segments in chunks of two need a reveal of more than one chunk and allow one that repeats; three rounds
have a first, a middle and a last one, of which only the last needs other accounts. A round
deadline falls before the clock stops, so every turn can be timed out. Seven positions
reach peaks of levels 2, 1, 0 and every batch boundary across a merge. Five entries and three
segments pair a node with itself at the first level, in the middle and not at all, in both trees.
Thirty positions leave a short last batch for every size, the default one included. Five keys in
batches of four, halved to two and one, end in batches of every length.

The transport keeps one transaction because a client's calls on different transactions share
nothing. A clock one tick longer than the timeout lets a confirmation start late and early; time
stops at `MaxTime` and `Confirm` must start a full timeout before it, so no deadline is cut off.

`CHECK_DEADLOCK FALSE` where the system really stops: a retired document, a settled challenge
and a stopped clock, a read that is done, a document that is final, a verdict given. The landing
and transport runs check deadlock: a batch can always be refused, a client can always send again.

### Fairness

`FairSpec` of `Lifecycle` assumes weak fairness of the clock and of the instructions that *anyone* may send:
attest, timeout, settle, resolve, close, close result. Each has a party with a reason to send
it: the winner wants the bond of its record, the executor its bond and rent, and either side
the result. Nothing is assumed of the executor's or a challenger's own turns (`Respond`,
`Verdict`, openings): they may fall silent for ever, and the timeout has to do. The settlement
program is untrusted, so its callback may fail for ever: fairness is asked of
`SettleWithoutCallback`, a settle at or after the custom deadline, and not of a settle before
it. `AttestOutput` is permissionless but needs the execution data; without its fairness a
finalized and undisputed document with a missing output can be neither resolved nor closed,
which `closeDocumentV7` refuses (`consensus.ts:1189`). Landing and finalizing are not
assumed: the progress properties start from a finalized document or an open challenge.

In `Transport` the client's own steps, the clock and the answers are weakly fair: an event loop
resumes what is ready, and a call ends because the HTTP client cuts it off. The latter is the
`timeout` option in TypeScript; without it the claim rests on the limit that `fetch` itself has.
Nothing is assumed of the chain.

In `ClientReads` the client's steps are weakly fair for the same reason; a call may always be
answered by a failure. In `DocumentPlan` the executor goes on sending the transactions of the
last plan it drew up, in any order, as an executor has to that wants its document finalized; nothing is
assumed of the drawing up, nor of the transactions of earlier plans. `Challenge` and `Trees` need none.

### What the violations show

`landPositionRoots` (`consensus.ts:1603-1608`) tests each root inside the loop that lands them.
A batch whose second root is zero throws after its first root is in the header and the table.
`docs/quickstart.md:128` and `docs/watcher-challenger.md:262` say a refusal changes nothing;
the Python replay tests all roots first. The chain is not affected, a transaction is atomic;
the caller's replayed objects are.

`confirm` (`transport.ts:299-304`) tests a status for `undefined`, and the endpoint reports a
signature it has not seen as `null`. In the shortest trace a client confirms a transaction, the
answer is null, and the call ends with a `TypeError` at once instead of polling until
"transaction confirmation timed out". A client that confirms right after a send meets this
whenever it is faster than the chain.

`eventsFromLogs` (`transport.ts:339-341`) takes a line that begins with `Program ` and contains
` success` for the end of a call. What a program logs appears as `Program log: ...`, so a program
that logs the word is popped from the stack while it runs: its later events go to its caller, or are
dropped. `docs/reference.md:472` asks for attribution through the invoke stack. A logged
` invoke [` or ` failed:` is misread likewise, and `Program data:` anywhere in a line is read as event data
(`transport.ts:343`): with `"invoke"` or `"data"` in `Texts` TLC finds the same property violated. In the `reads`
run programs log none of these words, and the attribution is right. The Python client does the same.

`decodeToken` (`consumer.ts:57-59`) takes the token from bytes 8 to 16 of a value, after the best score, as
its comment says and as `tokenValue` writes it. `docs/consumer.md:96-97` and `docs/quickstart.md:181` put
`token_id` first and the logit second. The values are written by a program that is not in the repository, so
it is not for the model to say which is right: `reads` shows that what the library takes is final
(`TokensAreFinal`), `reads_tokens` that it is not what the docs describe (`TokensAsDocumented`).

## 4. Theorems

Every theorem holds for all values of the constants that satisfy the named assumptions of the
modules: `LimitsAssumption`, `TermsAssumption` and `BindingAssumption` (what `checkRunTerms` and
`checkRunBinding` accept), `LifecycleAssumption`, `ChallengeAssumption`, `LandingAssumption`,
`TransportAssumption`, `ReadsAssumption`, `PlanAssumption`, `TreesAssumption`. TLC evaluates each of them in the runs
of its module. Those that say more than the kind of a constant: `COUNT_MAX < pow2[PEAK_SLOTS]`, a
32-bit count against the 32 peak slots of the header; the clock runs past the last slot for an opening; the
descriptor a prover draws up has the fields of the run binding; a challenge is played inside the clock
(`FirstSlot <= MaxSlot <= U64_MAX`).

| Module | Theorem | States |
|---|---|---|
| `LifecycleProofs` | `TypeCorrect` | `Spec => []TypeOK` |
| | `Inductive` | `Spec => []IInv` |
| | `ChallengesCounted` | `Spec => []OpenChallengesExact` |
| | `AcceptanceIsSafe` | `Spec => []UsableIsUncontested` |
| | `RefutationIsRuled` | `Spec => []RefutedWasRuled` |
| | `RecordsDecode` | `Spec => []StoredRecordsDecode` |
| | `EscrowInductive` | `Spec => []EscrowAccounted` |
| | `EscrowIsBacked`, `LamportsAreConserved`, `BondIsSettled` | `EscrowBacked`, `LamportsConserved`, `BondFate` always hold |
| | `AcceptedAnswerIsStable`, `RetentionIsHonoured`, `DeclaredChanges` | `AnswerIsStable`, `RetentionHonoured`, `ChangesAreDeclared` hold of every step |
| | `PromiseIsKept` | `Spec => PromiseKept`: `Lifecycle` implements `ResultPromise` |
| `ChallengeProofs` | `ChallengeInductive` | `Spec => []ChallengeInv` |
| | `RecordsReadTrue` | `Spec => []RecordReadsTrue` |
| | `DisputesAreBounded` | `DisputeIsBounded` always holds |
| | `PhasesImplementTurns` | `Spec => ImplementsLifecycle`: `Challenge` implements `Lifecycle` |
| | `LifecycleHolds` | `IInv` and `EscrowAccounted` of `Lifecycle` always hold, seen through the mapping |
| | `TurnsArePlayable` | `Spec => []TurnIsPlayable`: the party in turn has a move |
| | `MovesSucceed` | in a state of `ChallengeInv`, each instruction of `Moves` can be executed: into the state `After(ix)` |
| | `MovesDeclareTheirWrites` | there, what the handler of such an instruction writes is writable in its list |
| `LandingProofs` | `LandingInductive` | `Spec => []LandingInv` |
| | `LandingTypeCorrect`, `HeaderStandsForTable`, `PythonTableIsAccepted` | `TypeOK`, `FrontierMatchesTable`, `LandedIsAccepted` always hold |
| | `PythonRefusesWhole` | `PythonRefusalChangesNothing` holds of every step |
| `TransportProofs` | `TransportInductive` | `Spec => []TransportInv` |
| | `TransportTypeCorrect`, `ConfirmTellsTheTruth` | `TypeOK`, `ConfirmationIsTrue` always hold |
| | `ConfirmWaits` | `GivesUpForAReason` always holds |
| `ClientReadsProofs` | `TokensTakenAreFinal`, `AccountsComeInOrder` | `TokensAreFinal`, `AccountsInOrder` always hold |
| | `EventsAreAttributed` | `QuietTexts /\ Spec => []EventsOfProgram`: programs that log no word of the runtime |
| `DocumentPlanProofs` | `DeliveryInductive`, `AnswerInductive` | `DeliveryInv`, `AnswerInv` always hold |
| | `RootsLandAsPlanned`, `DefaultBatchesFit` | `LandedAsPlanned`, `DefaultBatchFits` always hold |
| | `PlannedDocumentAnswers`, `SentRequestsReadBack`, `FamilyTableHasOneBody` | `DocumentAnswersRequest`, `RequestsReadBack`, `FamilyBodyIsCanonical` always hold |
| `TreesProofs` | `OneProof` | of all attestations, whatever options are given, `verifyAttestation` is true of the committed one only, up to an index nobody expects |
| | `Acceptance`, `ModelProver` | `AnyProver => []AcceptedIffCommitted`, and `Spec => AnyProver` |
| | `RootsBindLists` | lists of any lengths with one root are one list |
| | `Binding` | `DigestsKnown /\ Spec => []RootBindsLeaves`: finitely many digests, of nothing in a tree |

### The inductive invariants

TLC checked each of them on the instances of section 3 before it was proved.

*`Lifecycle`.* `UsableIsUncontested` is not inductive: that a FINAL result stays uncontested
needs that no challenge can open any more, so the deadline has passed, so the deadline read
from the result is the document's; that no challenge *was* open when the status was written
needs the counter to be exact; that none was won needs the refuted flag and the win counter to
agree. `IInv` collects these: `AccountsCoupled` (the two accounts are created together and
the result knows of the close), `OpenChallengesExact`, `RefutationRecorded` (flag, counter and
ruled records agree), `ResultCopiesDocument`, `StatusJustified` (the reason a status was
written still holds), `BondJustified` (a held bond of a refuted document still has a winning
record to claim it), `StoredRecordsDecode` and `ClockStarted`. The proof has the initial
states, one lemma per action (`OpenStep`, `TurnIndStep`, `SettleStep`, `CloseStep`, ...), the
lemmas on the set of live records and its cardinality (`LiveGrows`, `LiveShrinks`), and the
shape of the records each operator builds (`AnsweredType`, `MarkRulingType`, ...).

*Escrow.* `BondFate` speaks of the end, when the bond is gone; `EscrowAccounted` carries it there by
saying what each party is short of while the bond is held, and that nothing is burned before the bond
is divided. The division itself needs that the shares of `builtInSettlement` add up to the bond for
any share, rounding included.

*`ResultPromise`.* The mapping reads the stage off the result record alone. A finalize, a resolve or
a close must map to a step whose guard speaks of disputes, which is where `StatusJustified` and
`RefutationRecorded` are used. `AnswerIsStable` and `RetentionHonoured` are proved from `IInv` action by
action.

*`Challenge`.* `GoodRecord` ties the level of a record to its phase, so that the bytes read by
phase are those last written. `TurnsLeft` is a measure of the phases: every turn lowers it by at least
one, so a challenge takes at most `MostTurns` turns (three more than twice its rounds, or twice the
summary's), which is the bound on turns that `Lifecycle` is instantiated with. Since a turn is answered
in time and sets a deadline one window later, the deadline follows from the turns taken
(`DisputeIsBounded`); what is no turn leaves it alone. In `PhasesImplementTurns` each handler is a lemma of its own
(`OpenSeen`, `TurnSeen`, `RulingSeen`, `ConvictionSeen`, `SettlementSeen`, `TickSeen`, and
`NothingSeen` for what maps to a stutter). `LifecycleHolds` then takes the steps of `Lifecycle`'s own proof
through the mapping: the safety theorems about `Lifecycle` hold of challenges played phase by phase, and with
`PromiseIsKept` so does the promise to a consumer.

`MovesAccepted` says that the party in turn has a move, that the instruction for it is accepted, and that
nothing its handler writes is refused. The first part is a theorem, from the invariant `WorkIsLeft`: what a party
has sent of a reveal, a table or a leaf never fills up without the phase ending. The other two speak of ENABLED,
which the provers do not expand, and are proved without it: `MovesSucceed` gives for each expected
instruction the state it leads to (`After`) and shows that this is a step of `Execute`;
`MovesDeclareTheirWrites` takes any step of the handler and shows that the runtime has nothing to
refuse. What stays with TLC is only that ENABLED means the existence of such a state.

*`Landing`.* The peaks lie end to end from position 0, fall strictly in level, each holds two to the power of
its level roots, and their digests are those of the table (`IsFrontier`). Strict fall is lost while a new leaf
is carried; `FirstCarry`, `NextCarry` and `LastCarry` say what holds of a carry part of the way up. That the number of
peaks stays within the header follows from the powers of two they sum up to.

*`Transport`.* A status travels: it is true when the endpoint answers, and the chain goes on. It stays true
when it names a level no fork takes back, and `StillTrue` says so of the status on the wire as well as of the one
the client holds.

*`ClientReads`.* `ReadIsFinal` ties the record that was read to the chain as it is now;
`BatchIsPrefix` says that what was collected answers a prefix of the keys up to where the next batch
starts, at heights that never fall. For the events, a line is read on the frame of the program that
wrote it: `Steady` lines leave the reader's stack as it is, a frame around them is `Balanced`, and so, by
concatenation, is every log; cutting a log off cuts the reader's stacks off with it.

*`DocumentPlan`.* Transactions of several plans arrive in any order. All of them carry slices of one
list of roots, and the chain takes a batch only where the last one ended, so the landed roots are
a prefix of the planned ones (`DeliveryInv`). `FamilyBodyIsCanonical` is the lemma `OneListing`: a set has one
listing in a strict order. While proving `RequestsReadBack` its first form turned out too strong: a request that is
read back can be answered only if the record of its result fits an account, a limit that
`requester.ts:287` does not check; the property now says so (`ResultFits`) and the `plan` run has a request
on either side of the limit. Nor does `createRequest` bound the new tokens by the machine's positions, as the
decoder does (`request_program.ts:227`): the property says that a request that was sent is read back exactly
when its run fits (`RunFits`), and the run has requests on either side of that limit too. A batch size of zero makes
`documentPlan` loop for ever (`planning = "hung"`): nothing forbids it, so it is a hazard without a property, and
`PlanCompletes` leaves it out.

*`Trees`.* Nothing changes but the verdict, so the invariant says only that the position is committed and
asked for as the committer's functions have it; the proof is about those functions. `LevelsShape` finds the
height of the tree over any list, which is what a verifier computes with `bitLength`. `ClimbBinds` takes one round of a fold: a node that stands at a level
either is refused or stands at the level above with the range committed there (`RangedAbove`), and has
the digest committed there exactly if both nodes it paired had theirs, the case of a node paired with itself included. By induction over the rounds
a fold ends in the root exactly for the leaf and the path of its index (`FoldBinds`). `OneProof` applies this
twice, to the segment (`SegmentBinds`) and to the position (`PositionBinds`); that the proof may name another segment than the
verifier asks for is settled by the coordinates a segment root covers, another document by the position root
(`DocumentBinds`), and the value by the one row of a committed leaf that is for its place (`RowBinds`). It asks
nothing of the attestation but its form, so `Acceptance` is stated of `AnyProver`, who may make up all parts together; the
prover that TLC tries is one of those (`ModelProver`). `RootsBindLists` is two uses of `FoldBinds` on one path for
lists of one length, and the end of the range the top node covers for lists of different length.

### How data is reasoned about

The library states induction with an operator as a parameter, which the installed
provers cannot instantiate. `DataLemmas` states it of sets (`SetInduction`): to prove something of every number, take the set of
numbers that satisfy it. Recursive functions are unfolded with it once each (`CarriesUnfold`,
`AppendedUnfold`, `Pow2Unfold`, `EventsUnfold`, `BitLengthUnfold`, `LevelsUnfold`, `FoldUnfold`, `PathUnfold`), so no proof relies on a bound on the length of a
log, a batch, a mountain range or a path.

### Only model-checked

Liveness (`ChallengesEnd`, `FinalizedIsDecided`, `ClosedIsRetired`, `EveryCallEnds`, `ReadsEnd`,
`PlanCompletes`) is out of the provers' reach, and so is `MovesAccepted` as it stands, with ENABLED: its
content is proved as `TurnsArePlayable`, `MovesSucceed` and `MovesDeclareTheirWrites`.

## 5. Not modelled

- Byte layouts, digests, addresses and keys; DLE1 schemas.
- Registry, admission, template seal and config: records an authority writes once and whose
  rules are decided on chain. `UnifiedInit` has them behind it.
- The request program's append, bind, resolve and callback: the repository has the account
  layout and the instruction lists, no handler.
- Rent and fees, and the contents of the DRU1 response account.
- `pickSample`, a digest taken modulo the number of positions.
- The records of revisions 5 and 6, re-exports, vectors.

Assumptions the code does not state: the slot is past 0 (`closeDocumentV7` would otherwise
write a retention that looks unstarted, see the hazards), and hashes are injective.

Met while modelling, and without a run of their own: `documentPlan` (`requester.ts:414`) compares a
descriptor with the request field by field, but not the prompt commitment, which `docs/requester.md:27` says
must equal the document's (the `plan` run has specs for another prompt, which are planned like the right one, and
shows that a plan is for the request in every other respect); a choice of 256 is sent as 0 by `encodeDescend`
(`consensus.ts:2350`) and raises in Python; `getTransaction` (`transport.ts:312`) asks without
a commitment, so events of a transaction that is confirmed and not yet finalized read as none.

## 6. Plan

The model is complete as far as the repository has code for it, and every safety invariant and action
property is a theorem, `MovesAccepted` in its three parts. What is left is liveness, which stays
with TLC: the safety half of "every challenge ends" is `DisputesAreBounded`.
