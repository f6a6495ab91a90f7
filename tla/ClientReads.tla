---------------------------- MODULE ClientReads -----------------------------
(***************************************************************************)
(* What a program off the chain reads with the SDK: a list of accounts, a  *)
(* result with the events of a transaction (Consumer.view), or the events  *)
(* alone, while the chain goes on between any two of its calls.            *)
(*                                                                         *)
(* The chain's result record is the abstract ResultPromise, which the life *)
(* of a document implements.  One client makes one read; reads share       *)
(* nothing but the chain, so a second one would add states and no          *)
(* behaviour.                                                              *)
(***************************************************************************)
EXTENDS Integers, Sequences, FiniteSets

CONSTANTS
  Keys,       \* the accounts asked for, in order, perhaps with repetitions
  Missing,    \* those of them that do not exist
  MAX_BATCH,  \* most accounts in one call, 100 in the code
  Program,    \* the DCG program, whose events are wanted
  Others,     \* the programs it calls and is called by
  Texts,      \* what a program may log: "plain", or words the reader looks for
  Outputs,    \* the outputs of the result
  Words,      \* the 64-bit words of an output value
  WORD,       \* their number, 2^64 in the code
  vocab       \* the size of the vocabulary

ASSUME ReadsAssumption ==
  /\ Keys \in Seq({Keys[i] : i \in DOMAIN Keys})
  /\ Missing \subseteq {Keys[i] : i \in DOMAIN Keys}
  /\ MAX_BATCH \in Nat \ {0}
  /\ Program \notin Others
  /\ Texts \subseteq {"plain", "invoke", "success", "data"}
  /\ WORD \in Nat
  /\ Words \subseteq 0..(WORD - 1)
  /\ vocab \in 0..(WORD \div 2)

VARIABLES
  stage, closed, proven, disputed,  \* the result record on the chain
  height,    \* how often it has changed: the version of every account
  committed, \* the value the run committed at each output, in two words
  job,       \* which read is under way, and its body limit in accounts
  pc,        \* where the client is in it
  batch,     \* getMultipleAccounts: start, batchSize and the accounts so far
  result,    \* the result record read
  events,    \* the events returned
  emitted    \* those the program emitted in that transaction

Chain == INSTANCE ResultPromise

chainVars  == <<stage, closed, proven, disputed, height, committed>>
clientVars == <<job, pc, batch, result, events, emitted>>
vars == <<chainVars, clientVars>>

smaller(a, b) == IF a < b THEN a ELSE b

-----------------------------------------------------------------------------
(* Records                                                                 *)

USABLE_STATUSES == {"FINAL", "SETTLED"}

\* The DCR2 record of a stage.  The root of a pending result is zero until the
\* document is finalized.
ResultRecord(root) ==
  [status  |-> CASE stage = "pending"  -> "PENDING"
                 [] stage = "refuted"  -> "REFUTED"
                 [] stage = "accepted" -> IF closed THEN "SETTLED" ELSE "FINAL",
   documentRoot |-> IF stage = "pending" THEN root ELSE "nonzero",
   outputs |-> [o \in proven |-> committed[o]]]

\* A value of 16 bytes, laid out as tokenValue does: the token is the second word.
\* A run puts its best score in the first one.
Value(score, token) == <<score, token>>

asIntN(raw) == IF raw >= WORD \div 2 THEN raw - WORD ELSE raw

\* The set of the token a value decodes to: empty when it is refused.
decodeToken(value) == {asIntN(value[2])} \cap 0..(vocab - 1)

\* Mutant: a complete result that may still be refuted is used.
usableTokens_AnyStatus(r) ==
  IF /\ r.documentRoot # "zero"
     /\ DOMAIN r.outputs = Outputs
     /\ \A o \in Outputs : decodeToken(r.outputs[o]) # {}
    THEN {[o \in Outputs |-> CHOOSE token \in decodeToken(r.outputs[o]) : TRUE]}
    ELSE {}

\* The set of the list of tokens: empty when any part of the result is refused.
usableTokens(r) ==
  IF /\ r.status \in USABLE_STATUSES
     /\ r.documentRoot # "zero"
     /\ DOMAIN r.outputs = Outputs
     /\ \A o \in Outputs : decodeToken(r.outputs[o]) # {}
    THEN {[o \in Outputs |-> CHOOSE token \in decodeToken(r.outputs[o]) : TRUE]}
    ELSE {}

-----------------------------------------------------------------------------
(* Transaction logs                                                        *)

\* Whether the bytes of a "Program data:" line decode depends on the version in
\* them, on whether they fit its schema, and on the padding.
decodeEvent(record)   == record.version = 1 /\ record.fits /\ record.padded
decodeEventV7(record) == record.version = 2 /\ record.fits /\ record.padded
decodeEventAny(record) ==
  IF record.version = 2 THEN decodeEventV7(record) ELSE decodeEvent(record)

\* A program that logs the words of a data line may log an event's bytes after them.
\* The second word of a line, which the reader takes for a program, is "log:" there.
Invoke(p)       == [kind |-> "invoke", program |-> p]
Success         == [kind |-> "success"]
Log(text)       == [kind |-> "log", text |-> text, program |-> "log:",
                    record |-> [version |-> 2, fits |-> TRUE, padded |-> TRUE]]
Data(p, record) == [kind |-> "data", by |-> p, record |-> record]

\* What the lines of a log look like to the reader, by the words in them.
Looks(line, kind) == line.kind = kind \/ (line.kind = "log" /\ line.text = kind)
invokes(line)     == Looks(line, "invoke")
succeeds(line)    == Looks(line, "success")
carriesData(line) == Looks(line, "data")

Pop(stack) == IF stack = <<>> THEN stack ELSE SubSeq(stack, 1, Len(stack) - 1)

\* Mutant: the caller's frame is lost with the callee's.
StackAfter_Cleared(stack, line) ==
  LET pushed == IF invokes(line) THEN Append(stack, line.program) ELSE stack
  IN  IF succeeds(line) THEN <<>> ELSE pushed

StackAfter(stack, line) ==
  LET pushed == IF invokes(line) THEN Append(stack, line.program) ELSE stack
  IN  IF succeeds(line) THEN Pop(pushed) ELSE pushed

\* The events of a log, each named by its line.
eventsFromLogs(logs) ==
  LET stack[i \in 0..Len(logs)] ==
        IF i = 0 THEN <<>> ELSE StackAfter(stack[i - 1], logs[i])
      Attributed(i) == stack[i] # <<>> /\ stack[i][Len(stack[i])] = Program
  IN  {i \in 1..Len(logs) : /\ carriesData(logs[i])
                            /\ Attributed(i)
                            /\ decodeEventAny(logs[i].record)}

Emitted(logs) ==
  {i \in 1..Len(logs) : /\ logs[i].kind = "data"
                        /\ logs[i].by = Program
                        /\ decodeEventAny(logs[i].record)}

\* The logs the runtime writes: each call is a frame of lines between an invoke
\* and a success, and frames nest.
Records ==
  {[version |-> 2, fits |-> TRUE, padded |-> TRUE],
   [version |-> 1, fits |-> TRUE, padded |-> TRUE],
   [version |-> 2, fits |-> TRUE, padded |-> FALSE]}

Pairs(items) == {<<>>} \cup items \cup {a \o b : a \in items, b \in items}
Own(p) == {<<Data(p, record)>> : record \in Records} \cup {<<Log(text)>> : text \in Texts}
Frame(p, lines) == <<Invoke(p)>> \o lines \o <<Success>>
Calls(callees) ==
  UNION {{Frame(p, lines) : lines \in Pairs(Own(p))} : p \in callees}
Logs ==
  LET Programs == Others \cup {Program}
      Nested == UNION {{Frame(p, lines) : lines \in Pairs(Own(p) \cup Calls({q}))} :
                         p \in Programs, q \in Programs}
  IN  Nested \cup {a \o b : a \in Calls({Program}), b \in Calls(Others)}

\* For a view, whose states are many, a call of the program alone.
ViewLogs == {Frame(Program, lines) : lines \in Own(Program)}

-----------------------------------------------------------------------------
(* The chain                                                               *)

\* The events of a transaction depend on no account, so the chain may stand still
\* while they alone are read.
ChainStep ==
  /\ job.read # "events"
  /\ Chain!PromiseNext
  /\ Chain!promiseVars' # Chain!promiseVars
  /\ height' = height + 1
  /\ UNCHANGED <<committed, clientVars>>

-----------------------------------------------------------------------------
(* Reading accounts: getMultipleAccounts                                   *)

Account(key) == IF key \in Missing THEN [key |-> "null", at |-> height]
                                   ELSE [key |-> key, at |-> height]

Asked == smaller(batch.batchSize, Len(Keys) - batch.start)

\* Mutant: a batch of one that is still too large is tried for ever.
MayHalve_Always == batch.batchSize >= 1
MayHalve == batch.batchSize # 1

\* The body limit is checked before anything is sent.
AskAccounts ==
  LET fits == Asked <= job.limit
  IN  /\ job.read = "accounts"
      /\ pc = "ask"
      /\ pc' = CASE batch.start >= Len(Keys) -> "done"
                 [] batch.start < Len(Keys) /\ fits -> "asked"
                 [] ~ fits /\ MayHalve -> "ask"
                 [] ~ fits /\ ~ MayHalve -> "failed"
      /\ batch' = IF fits \/ ~ MayHalve
                    THEN batch
                    ELSE [batch EXCEPT !.batchSize = IF @ = 1 THEN 1 ELSE @ \div 2]
      /\ UNCHANGED <<chainVars, job, result, events, emitted>>

\* Mutant: a short answer is taken as it comes.
WellFormed_AnyLength(answered) == TRUE
WellFormed(answered) == answered = Asked

\* The endpoint answers with an account, or null, for each key in order, with
\* fewer of them, or with an error or something that is no account.
ReceiveAccounts ==
  /\ job.read = "accounts"
  /\ pc = "asked"
  /\ \/ \E answered \in 0..Asked :
          /\ WellFormed(answered)
          /\ batch' = [batch EXCEPT
               !.accounts = @ \o [i \in 1..answered |-> Account(Keys[batch.start + i])],
               !.start = @ + batch.batchSize]
          /\ pc' = "ask"
     \/ /\ pc' = "failed"
        /\ UNCHANGED batch
  /\ UNCHANGED <<chainVars, job, result, events, emitted>>

-----------------------------------------------------------------------------
(* Reading a result with its events: Consumer.view                         *)

\* readResult: an absent account and a tombstone are errors, as is a failed call.
ReadResult ==
  /\ job.read = "view"
  /\ pc = "result"
  /\ UNCHANGED <<chainVars, job, batch, events, emitted>>
  /\ \/ /\ stage \notin {"absent", "retired"}
        /\ \E root \in {"zero", "nonzero"} : result' = ResultRecord(root)
        /\ pc' = "events"
     \/ /\ pc' = "failed"
        /\ UNCHANGED result

\* The events of a transaction that failed, or that the endpoint does not have,
\* are none; so may be those of a log cut short.
ReadEvents ==
  /\ job.read \in {"view", "events"}
  /\ pc = "events"
  /\ UNCHANGED <<chainVars, job, batch, result>>
  /\ \/ \E logs \in IF job.read = "events" THEN Logs ELSE ViewLogs :
        \E seen \in 0..Len(logs) :
          /\ events' = eventsFromLogs(SubSeq(logs, 1, seen))
          /\ emitted' = Emitted(SubSeq(logs, 1, seen))
          /\ pc' = "done"
     \/ /\ pc' = "done"
        /\ UNCHANGED <<events, emitted>>
     \/ /\ pc' = "failed"
        /\ UNCHANGED <<events, emitted>>

-----------------------------------------------------------------------------

NoResult == [status |-> "none"]

Init ==
  /\ Chain!PromiseInit
  /\ height = 0
  /\ committed \in [Outputs -> {Value(score, token) : score \in Words, token \in Words}]
  /\ job \in {[read |-> "accounts", limit |-> n] : n \in 0..Len(Keys)}
             \cup {[read |-> r, limit |-> 0] : r \in {"view", "events"}}
  /\ job.read = "view" \/ \A o \in Outputs, i \in {1, 2} : committed[o][i] = 0
  /\ pc = CASE job.read = "accounts" -> "ask"
            [] job.read = "view"     -> "result"
            [] job.read = "events"   -> "events"
  /\ batch = [start |-> 0, batchSize |-> smaller(MAX_BATCH, Len(Keys)), accounts |-> <<>>]
  /\ result = NoResult
  /\ events = {}
  /\ emitted = {}

ClientStep == AskAccounts \/ ReceiveAccounts \/ ReadResult \/ ReadEvents

Next == ChainStep \/ ClientStep

Spec == Init /\ [][Next]_vars

\* The client runs, and every call is answered or fails.
FairSpec == Spec /\ WF_vars(ClientStep)

-----------------------------------------------------------------------------
(* Properties                                                              *)

\* A list of accounts comes back whole and in the order asked, a missing one
\* in its place, however often the batch was halved; and since each batch is
\* read at a moment of its own, later accounts are never older than earlier.
AccountsInOrder ==
  pc = "done" /\ job.read = "accounts" =>
    /\ Len(batch.accounts) = Len(Keys)
    /\ \A i \in DOMAIN Keys :
         batch.accounts[i].key = IF Keys[i] \in Missing THEN "null" ELSE Keys[i]
    /\ \A i, j \in DOMAIN Keys : i <= j => batch.accounts[i].at <= batch.accounts[j].at

\* The tokens a consumer takes from a result are final: when usableTokens gives
\* tokens, now or at any later time, they are the ones the run committed, all
\* of them, and the chain never refutes the result: it only retires it.
TokensAreFinal ==
  result # NoResult =>
    \A tokens \in usableTokens(result) :
      /\ stage \in {"accepted", "retired"}
      /\ ~ disputed
      /\ \A o \in Outputs : tokens[o] = committed[o][2]

\* What docs/consumer.md:95-98 and docs/quickstart.md:181 say of a value: it is two
\* signed words, (token_id, logit), and the tokens of a result are the first ones.
TokensAsDocumented ==
  result # NoResult =>
    \A tokens \in usableTokens(result) :
      \A o \in Outputs : tokens[o] = asIntN(committed[o][1])

\* The events of a transaction are those the program emitted, whoever called it
\* and whomever it called in between.
EventsOfProgram == events = emitted

\* Every read ends, with an answer or an error, whatever the body limit is.
ReadsEnd == <>(pc \in {"done", "failed"})

-----------------------------------------------------------------------------
(* The inductive invariants behind the safety properties                   *)

\* An accepted result is complete and undisputed, and so is, for good, the chain
\* behind a usable result that was read: its outputs are the committed values.
ReadIsFinal ==
  /\ stage \in Chain!Stages
  /\ committed \in [Outputs -> {Value(score, token) : score \in Words, token \in Words}]
  /\ stage = "accepted" => ~ disputed /\ proven = Outputs
  /\ result.status \in USABLE_STATUSES =>
       /\ stage \in {"accepted", "retired"}
       /\ ~ disputed
       /\ result.outputs = committed

AccountReads == [key : {Keys[i] : i \in DOMAIN Keys} \cup {"null"}, at : Nat]

\* The accounts collected so far answer the first keys, in order, up to where the
\* next batch starts, and none is newer than the chain.
BatchIsPrefix ==
  /\ height \in Nat
  /\ batch \in [start : Nat, batchSize : Nat, accounts : Seq(AccountReads)]
  /\ Len(batch.accounts) = smaller(batch.start, Len(Keys))
  /\ \A i \in 1..Len(batch.accounts) :
       /\ batch.accounts[i].key = IF Keys[i] \in Missing THEN "null" ELSE Keys[i]
       /\ batch.accounts[i].at <= height
  /\ \A i, j \in 1..Len(batch.accounts) :
       i <= j => batch.accounts[i].at <= batch.accounts[j].at
  /\ job.read = "accounts" =>
       /\ pc = "asked" => batch.start < Len(Keys)
       /\ pc = "done" => batch.start >= Len(Keys)
=============================================================================
