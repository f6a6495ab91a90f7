------------------------- MODULE ClientReadsProofs --------------------------
(***************************************************************************)
(* Proofs about what a program off the chain reads, for every list of      *)
(* keys, every batch size and body limit, every set of outputs and every   *)
(* width of their words: the tokens taken from a result are the committed  *)
(* ones for good, a list of accounts comes back whole and in order, and    *)
(* the events read from a log are those its program emitted.               *)
(***************************************************************************)
EXTENDS ClientReads, DataLemmas

-----------------------------------------------------------------------------
(* The result                                                              *)

\* A value that decodes to a token decodes to its own second word: a word that
\* stands for a negative number, or for one past the vocabulary, is refused.
LEMMA TokenIsItsWord ==
  ASSUME NEW score \in Words, NEW word \in Words,
         NEW token \in decodeToken(Value(score, word))
  PROVE  token = word
<1>1. word \in 0..(WORD - 1) /\ WORD \in Nat
  BY ReadsAssumption
<1>2. vocab \in Int
  BY ReadsAssumption
<1>3. token = asIntN(word) /\ token \in 0..(vocab - 1)
  BY DEF decodeToken, Value
<1> QED
  BY <1>1, <1>2, <1>3 DEF asIntN

\* The tokens of a usable result are those of its outputs.
LEMMA UsableTokensAreItsOutputs ==
  ASSUME NEW r, NEW tokens \in usableTokens(r)
  PROVE  /\ r.status \in USABLE_STATUSES
         /\ \A o \in Outputs : tokens[o] \in decodeToken(r.outputs[o])
<1>1. /\ r.status \in USABLE_STATUSES
      /\ \A o \in Outputs : decodeToken(r.outputs[o]) # {}
      /\ tokens = [o \in Outputs |-> CHOOSE token \in decodeToken(r.outputs[o]) : TRUE]
  BY DEF usableTokens
<1> QED
  BY <1>1

\* A step of the promise keeps an accepted result accepted, or retires it.
LEMMA AcceptedIsKept ==
  ASSUME stage \in Chain!Stages,
         stage = "accepted" => ~ disputed /\ proven = Outputs,
         Chain!PromiseNext
  PROVE  /\ stage' \in Chain!Stages
         /\ stage' = "accepted" => ~ disputed' /\ proven' = Outputs
         /\ stage \in {"accepted", "retired"} /\ ~ disputed =>
              stage' \in {"accepted", "retired"} /\ ~ disputed'
<1>1. CASE Chain!Create
  BY <1>1 DEF Chain!Create, Chain!Stages
<1>2. CASE \E output \in Outputs : Chain!Prove(output)
  BY <1>2 DEF Chain!Prove, Chain!Stages
<1>3. CASE Chain!LoseDispute
  BY <1>3 DEF Chain!LoseDispute, Chain!Stages
<1>4. CASE Chain!Accept
  BY <1>4 DEF Chain!Accept, Chain!Stages
<1>5. CASE Chain!Refute
  BY <1>5 DEF Chain!Refute, Chain!Stages
<1>6. CASE Chain!Close
  BY <1>6 DEF Chain!Close, Chain!Stages
<1>7. CASE Chain!Retire
  BY <1>7 DEF Chain!Retire, Chain!Stages
<1> QED
  BY <1>1, <1>2, <1>3, <1>4, <1>5, <1>6, <1>7 DEF Chain!PromiseNext

\* Only an accepted result is read as usable.
LEMMA UsableIsAccepted ==
  ASSUME stage \in Chain!Stages \ {"absent", "retired"},
         NEW root, ResultRecord(root).status \in USABLE_STATUSES
  PROVE  stage = "accepted"
BY DEF ResultRecord, USABLE_STATUSES, Chain!Stages

LEMMA ReadInit == Init => ReadIsFinal
<1> SUFFICES ASSUME Init PROVE ReadIsFinal
  OBVIOUS
<1>1. stage = "absent" /\ stage \in Chain!Stages
  BY DEF Init, Chain!PromiseInit, Chain!Stages
<1>2. result.status \notin USABLE_STATUSES
  BY DEF Init, NoResult, USABLE_STATUSES
<1> QED
  BY <1>1, <1>2 DEF Init, ReadIsFinal

LEMMA ReadStep == ASSUME ReadIsFinal, [Next]_vars PROVE ReadIsFinal'
<1>1. CASE ChainStep
  <2>1. Chain!PromiseNext /\ UNCHANGED <<committed, result>>
    BY <1>1 DEF ChainStep, clientVars
  <2> QED
    BY <2>1, AcceptedIsKept DEF ReadIsFinal
<1>2. CASE ReadResult
  <2>1. UNCHANGED <<stage, disputed, proven, closed, committed>>
    BY <1>2 DEF ReadResult, chainVars
  <2>2. CASE UNCHANGED result
    BY <2>1, <2>2 DEF ReadIsFinal, Chain!Stages
  <2>3. ASSUME stage \notin {"absent", "retired"}, NEW root, result' = ResultRecord(root)
        PROVE  ReadIsFinal'
    <3>1. ASSUME result'.status \in USABLE_STATUSES
          PROVE  stage = "accepted" /\ result'.outputs = committed
      <4>1. stage = "accepted"
        BY <2>3, <3>1, UsableIsAccepted DEF ReadIsFinal
      <4>2. result'.outputs = [o \in Outputs |-> committed[o]]
        BY <2>3, <4>1 DEF ResultRecord, ReadIsFinal
      <4> QED
        BY <4>1, <4>2 DEF ReadIsFinal
    <3> QED
      BY <2>1, <3>1 DEF ReadIsFinal, Chain!Stages
  <2> QED
    BY <1>2, <2>2, <2>3 DEF ReadResult
<1>3. CASE AskAccounts \/ ReceiveAccounts \/ ReadEvents \/ UNCHANGED vars
  <2>1. UNCHANGED <<stage, disputed, proven, committed, result>>
    BY <1>3 DEF AskAccounts, ReceiveAccounts, ReadEvents, vars, chainVars, clientVars
  <2> QED
    BY <2>1 DEF ReadIsFinal, Chain!Stages
<1> QED
  BY <1>1, <1>2, <1>3 DEF Next, ClientStep

\* What a consumer takes from a usable result is what the run committed, and the
\* chain never refutes it afterwards.
THEOREM TokensTakenAreFinal == Spec => []TokensAreFinal
<1>1. ASSUME ReadIsFinal PROVE TokensAreFinal
  <2> SUFFICES ASSUME NEW tokens \in usableTokens(result)
               PROVE  /\ stage \in {"accepted", "retired"}
                      /\ ~ disputed
                      /\ \A o \in Outputs : tokens[o] = committed[o][2]
    BY DEF TokensAreFinal
  <2>1. /\ stage \in {"accepted", "retired"}
        /\ ~ disputed
        /\ result.outputs = committed
        /\ \A o \in Outputs : tokens[o] \in decodeToken(committed[o])
    BY <1>1, UsableTokensAreItsOutputs DEF ReadIsFinal
  <2>2. ASSUME NEW o \in Outputs PROVE tokens[o] = committed[o][2]
    <3>1. PICK score \in Words, word \in Words : committed[o] = Value(score, word)
      BY <1>1 DEF ReadIsFinal
    <3>2. tokens[o] = word
      BY <2>1, <3>1, TokenIsItsWord
    <3> QED
      BY <3>1, <3>2 DEF Value
  <2> QED
    BY <2>1, <2>2
<1>2. ReadIsFinal /\ [Next]_vars => ReadIsFinal'
  BY ReadStep
<1> QED
  BY <1>1, <1>2, ReadInit, PTL DEF Spec

-----------------------------------------------------------------------------
(* The list of accounts                                                    *)

LEMMA KeysType == Len(Keys) \in Nat /\ DOMAIN Keys = 1..Len(Keys)
BY ReadsAssumption

\* An account answered for a key in the list.
LEMMA AccountType ==
  ASSUME height \in Nat, NEW i \in DOMAIN Keys
  PROVE  /\ Account(Keys[i]) \in AccountReads
         /\ Account(Keys[i]).key = IF Keys[i] \in Missing THEN "null" ELSE Keys[i]
         /\ Account(Keys[i]).at = height
BY DEF Account, AccountReads

\* An answer of the length asked for carries the prefix on, by accounts at least
\* as new as those already there.
LEMMA AnswerExtendsPrefix ==
  ASSUME BatchIsPrefix, batch.start < Len(Keys),
         NEW accounts,
         accounts = batch.accounts \o
                      [i \in 1..Asked |-> Account(Keys[batch.start + i])]
  PROVE  /\ accounts \in Seq(AccountReads)
         /\ Len(accounts) = smaller(batch.start + batch.batchSize, Len(Keys))
         /\ \A i \in 1..Len(accounts) :
              /\ accounts[i].key = IF Keys[i] \in Missing THEN "null" ELSE Keys[i]
              /\ accounts[i].at <= height
         /\ \A i, j \in 1..Len(accounts) : i <= j => accounts[i].at <= accounts[j].at
<1> DEFINE answer == [i \in 1..Asked |-> Account(Keys[batch.start + i])]
           old == batch.accounts
<1>1. /\ height \in Nat
      /\ batch.start \in Nat
      /\ batch.batchSize \in Nat
      /\ old \in Seq(AccountReads)
      /\ Len(old) = batch.start
  BY KeysType DEF BatchIsPrefix, smaller
<1>2. /\ Asked \in Nat
      /\ batch.start + Asked <= Len(Keys)
      /\ batch.start + Asked = smaller(batch.start + batch.batchSize, Len(Keys))
  BY <1>1, KeysType DEF Asked, smaller
<1>3. \A i \in 1..Asked : batch.start + i \in DOMAIN Keys
  BY <1>1, <1>2, KeysType
<1>4. \A i \in 1..Asked :
        /\ answer[i] = Account(Keys[batch.start + i])
        /\ answer[i] \in AccountReads
  BY <1>1, <1>3, AccountType
<1>5. answer \in Seq(AccountReads) /\ Len(answer) = Asked
  BY <1>2, <1>4
<1>6. accounts = old \o answer
  OBVIOUS
<1> HIDE DEF answer, old
<1>7. /\ old \o answer \in Seq(AccountReads)
      /\ Len(old \o answer) = Len(old) + Len(answer)
      /\ \A i \in 1..(Len(old) + Len(answer)) :
           (old \o answer)[i] = IF i <= Len(old) THEN old[i] ELSE answer[i - Len(old)]
  <2>1. old \in Seq(AccountReads) /\ answer \in Seq(AccountReads)
    BY <1>1, <1>5
  <2> QED
    BY <2>1, ConcatProperties, Zenon
<1>8. /\ accounts \in Seq(AccountReads)
      /\ Len(accounts) = batch.start + Asked
      /\ \A i \in 1..Len(accounts) :
           accounts[i] = IF i <= batch.start THEN old[i] ELSE answer[i - batch.start]
  BY <1>1, <1>5, <1>6, <1>7
<1>9. ASSUME NEW i \in 1..Len(accounts), i > batch.start
      PROVE  accounts[i] = Account(Keys[i]) /\ i \in DOMAIN Keys
  <2>1. i - batch.start \in 1..Asked /\ i = batch.start + (i - batch.start)
    BY <1>1, <1>2, <1>8, <1>9
  <2>2. accounts[i] = answer[i - batch.start]
    <3>1. accounts[i] = IF i <= batch.start THEN old[i] ELSE answer[i - batch.start]
      BY <1>8
    <3>2. ~ (i <= batch.start)
      BY <1>1, <1>2, <1>8, <1>9
    <3> QED
      BY <3>1, <3>2
  <2>3. answer[i - batch.start] = Account(Keys[batch.start + (i - batch.start)])
    BY <1>4, <2>1
  <2>4. batch.start + (i - batch.start) \in DOMAIN Keys
    BY <1>3, <2>1
  <2> QED
    BY <2>1, <2>2, <2>3, <2>4
<1>10. ASSUME NEW i \in 1..Len(accounts), i > batch.start
       PROVE  /\ accounts[i].key = IF Keys[i] \in Missing THEN "null" ELSE Keys[i]
              /\ accounts[i].at = height
  BY <1>1, <1>9, <1>10, AccountType
<1>11. /\ \A i \in 1..batch.start :
            /\ old[i].key = IF Keys[i] \in Missing THEN "null" ELSE Keys[i]
            /\ old[i].at <= height
            /\ old[i] \in AccountReads
       /\ \A i, j \in 1..batch.start : i <= j => old[i].at <= old[j].at
  BY <1>1, ElementOfSeq DEF BatchIsPrefix, old
<1>12. ASSUME NEW i \in 1..Len(accounts), i <= batch.start
       PROVE  i \in 1..batch.start /\ accounts[i] = old[i]
  <2>1. accounts[i] = IF i <= batch.start THEN old[i] ELSE answer[i - batch.start]
    BY <1>8
  <2>2. i \in 1..batch.start
    BY <1>1, <1>2, <1>8, <1>12
  <2> QED
    BY <1>12, <2>1, <2>2
<1>13. ASSUME NEW i \in 1..Len(accounts)
       PROVE  /\ accounts[i].key = IF Keys[i] \in Missing THEN "null" ELSE Keys[i]
              /\ accounts[i].at <= height
  <2>1. i <= batch.start \/ i > batch.start
    BY <1>1, <1>8
  <2>2. CASE i <= batch.start
    BY <1>11, <1>12, <2>2
  <2>3. CASE i > batch.start
    <3>1. height <= height
      BY <1>1
    <3>2. accounts[i].at = height
      BY <1>10, <2>3
    <3> QED
      BY <1>10, <2>3, <3>1, <3>2
  <2> QED
    BY <2>1, <2>2, <2>3
<1>14. ASSUME NEW i \in 1..Len(accounts), NEW j \in 1..Len(accounts), i <= j
       PROVE  accounts[i].at <= accounts[j].at
  <2>1. j <= batch.start \/ j > batch.start
    BY <1>1, <1>8
  <2>2. CASE j <= batch.start
    <3>1. i <= batch.start
      BY <1>1, <1>8, <1>14, <2>2
    <3> QED
      BY <1>11, <1>12, <1>14, <2>2, <3>1
  <2>3. CASE j > batch.start
    BY <1>10, <1>13, <2>3
  <2> QED
    BY <2>1, <2>2, <2>3
<1> QED
  BY <1>2, <1>8, <1>13, <1>14

LEMMA BatchInit == Init => BatchIsPrefix
<1> SUFFICES ASSUME Init PROVE BatchIsPrefix
  OBVIOUS
<1>1. /\ batch.start = 0
      /\ batch.batchSize = smaller(MAX_BATCH, Len(Keys))
      /\ batch.accounts = <<>>
      /\ height = 0
  BY DEF Init
<1>2. batch.batchSize \in Nat
  BY <1>1, KeysType, ReadsAssumption DEF smaller
<1>3. job.read = "accounts" => pc = "ask"
  BY DEF Init
<1>4. Len(batch.accounts) = smaller(batch.start, Len(Keys)) /\ Len(batch.accounts) = 0
  BY <1>1, KeysType DEF smaller
<1>5. batch.accounts \in Seq(AccountReads)
  BY <1>1
<1>6. batch \in [start : Nat, batchSize : Nat, accounts : Seq(AccountReads)]
  BY <1>2, <1>5 DEF Init
<1>7. height \in Nat
  BY <1>1
<1> QED
  BY <1>3, <1>4, <1>6, <1>7 DEF BatchIsPrefix

LEMMA BatchStep == ASSUME BatchIsPrefix, [Next]_vars PROVE BatchIsPrefix'
<1>1. CASE ChainStep
  <2>1. /\ height' = height + 1
        /\ UNCHANGED <<batch, job, pc>>
    BY <1>1 DEF ChainStep, clientVars
  <2>2. height' \in Nat /\ height <= height' /\ height \in Nat
    BY <2>1 DEF BatchIsPrefix
  <2>3. \A i \in 1..Len(batch.accounts) : batch.accounts[i].at <= height'
    <3>1. \A i \in 1..Len(batch.accounts) : batch.accounts[i] \in AccountReads
      BY ElementOfSeq DEF BatchIsPrefix
    <3> QED
      BY <2>2, <3>1 DEF BatchIsPrefix, AccountReads
  <2> QED
    BY <2>1, <2>2, <2>3 DEF BatchIsPrefix
<1>2. CASE AskAccounts
  <2>1. UNCHANGED <<height, job>>
    BY <1>2 DEF AskAccounts, chainVars
  <2>2. /\ batch'.start = batch.start
        /\ batch'.accounts = batch.accounts
        /\ batch'.batchSize \in Nat
    <3>1. CASE batch' = batch
      BY <3>1 DEF BatchIsPrefix
    <3>2. CASE batch' = [batch EXCEPT !.batchSize = IF @ = 1 THEN 1 ELSE @ \div 2]
      <4>1. batch.batchSize \div 2 \in Nat
        BY DEF BatchIsPrefix
      <4> QED
        BY <3>2, <4>1
    <3> QED
      BY <1>2, <3>1, <3>2 DEF AskAccounts
  <2>4. batch' \in [start : Nat, batchSize : Nat, accounts : Seq(AccountReads)]
    BY <1>2, <2>2 DEF AskAccounts, BatchIsPrefix
  <2>3. /\ pc' = "asked" => batch.start < Len(Keys)
        /\ pc' = "done" => batch.start >= Len(Keys)
    BY <1>2, KeysType DEF AskAccounts, BatchIsPrefix
  <2> QED
    BY <2>1, <2>2, <2>3, <2>4 DEF BatchIsPrefix
<1>3. CASE ReceiveAccounts
  <2>1. UNCHANGED <<height, job>> /\ job.read = "accounts" /\ batch.start < Len(Keys)
    BY <1>3 DEF ReceiveAccounts, chainVars, BatchIsPrefix
  <2>2. CASE pc' = "failed" /\ UNCHANGED batch
    BY <2>1, <2>2 DEF BatchIsPrefix
  <2>3. CASE \E answered \in 0..Asked :
               /\ WellFormed(answered)
               /\ batch' = [batch EXCEPT
                    !.accounts = @ \o [i \in 1..answered |-> Account(Keys[batch.start + i])],
                    !.start = @ + batch.batchSize]
               /\ pc' = "ask"
    <3>1. batch' = [batch EXCEPT
            !.accounts = @ \o [i \in 1..Asked |-> Account(Keys[batch.start + i])],
            !.start = @ + batch.batchSize]
      BY <2>3 DEF WellFormed
    <3> DEFINE accounts == batch.accounts \o
                             [i \in 1..Asked |-> Account(Keys[batch.start + i])]
    <3>2. /\ batch'.accounts = accounts
          /\ batch'.start = batch.start + batch.batchSize
          /\ batch'.batchSize = batch.batchSize
      BY <3>1 DEF BatchIsPrefix
    <3> HIDE DEF accounts
    <3>3. /\ accounts \in Seq(AccountReads)
          /\ Len(accounts) = smaller(batch.start + batch.batchSize, Len(Keys))
          /\ \A i \in 1..Len(accounts) :
               /\ accounts[i].key = IF Keys[i] \in Missing THEN "null" ELSE Keys[i]
               /\ accounts[i].at <= height
          /\ \A i, j \in 1..Len(accounts) : i <= j => accounts[i].at <= accounts[j].at
      BY <2>1, AnswerExtendsPrefix DEF accounts
    <3>4. batch.start + batch.batchSize \in Nat
      BY DEF BatchIsPrefix
    <3> QED
      BY <2>1, <2>3, <3>2, <3>3, <3>4 DEF BatchIsPrefix
  <2> QED
    BY <1>3, <2>2, <2>3 DEF ReceiveAccounts
<1>4. CASE ReadResult \/ ReadEvents
  <2>1. UNCHANGED <<height, job, batch>> /\ job.read # "accounts"
    BY <1>4 DEF ReadResult, ReadEvents, chainVars
  <2> QED
    BY <2>1 DEF BatchIsPrefix
<1>5. CASE UNCHANGED vars
  BY <1>5 DEF vars, chainVars, clientVars, BatchIsPrefix
<1> QED
  BY <1>1, <1>2, <1>3, <1>4, <1>5 DEF Next, ClientStep

\* A list of accounts comes back whole, in the order asked and never going back
\* in time, however the batches were cut.
THEOREM AccountsComeInOrder == Spec => []AccountsInOrder
<1>1. ASSUME BatchIsPrefix PROVE AccountsInOrder
  <2> SUFFICES ASSUME pc = "done", job.read = "accounts"
               PROVE  /\ Len(batch.accounts) = Len(Keys)
                      /\ \A i \in DOMAIN Keys :
                           batch.accounts[i].key
                             = IF Keys[i] \in Missing THEN "null" ELSE Keys[i]
                      /\ \A i, j \in DOMAIN Keys :
                           i <= j => batch.accounts[i].at <= batch.accounts[j].at
    BY DEF AccountsInOrder
  <2>1. Len(batch.accounts) = Len(Keys)
    BY <1>1, KeysType DEF BatchIsPrefix, smaller
  <2> QED
    BY <1>1, <2>1, KeysType DEF BatchIsPrefix
<1>2. BatchIsPrefix /\ [Next]_vars => BatchIsPrefix'
  BY BatchStep
<1> QED
  BY <1>1, <1>2, BatchInit, PTL DEF Spec

-----------------------------------------------------------------------------
(* The events of a log                                                     *)

AllPrograms == Others \cup {Program}
Lines == {Invoke(p) : p \in AllPrograms} \cup {Success} \cup {Log(text) : text \in Texts}
           \cup {Data(p, record) : p \in AllPrograms, record \in Records}

OnTop(stack, p) == stack # <<>> /\ stack[Len(stack)] = p

\* The reader's stack from one line to the next: every data line is read under
\* the program that wrote it.
Reading(lines, stack) ==
  \A i \in 1..Len(lines) :
    /\ stack[i] = StackAfter(stack[i - 1], lines[i])
    /\ lines[i].kind = "data" => OnTop(stack[i], lines[i].by)

\* Lines that take the reader's stack from one value to another, and are
\* attributed rightly on the way.
Reads(lines, before, after) ==
  /\ lines \in Seq(Lines)
  /\ \E stack \in [0..Len(lines) -> Seq(AllPrograms)] :
       stack[0] = before /\ stack[Len(lines)] = after /\ Reading(lines, stack)

LEMMA NothingReads == ASSUME NEW s \in Seq(AllPrograms) PROVE Reads(<<>>, s, s)
<1> DEFINE stack == [i \in 0..0 |-> s]
<1>1. Len(<<>>) = 0 /\ <<>> \in Seq(Lines)
  BY EmptySeq
<1>2. stack \in [0..0 -> Seq(AllPrograms)] /\ stack[0] = s
  OBVIOUS
<1>3. Reading(<<>>, stack)
  BY <1>1 DEF Reading
<1> HIDE DEF stack
<1> QED
  BY <1>1, <1>2, <1>3 DEF Reads

LEMMA OneLineReads ==
  ASSUME NEW line \in Lines, NEW s \in Seq(AllPrograms), NEW t \in Seq(AllPrograms),
         t = StackAfter(s, line),
         line.kind = "data" => OnTop(t, line.by)
  PROVE  Reads(<<line>>, s, t)
<1> DEFINE stack == [i \in 0..1 |-> IF i = 0 THEN s ELSE t]
<1>1. Len(<<line>>) = 1 /\ <<line>> \in Seq(Lines) /\ <<line>>[1] = line
  OBVIOUS
<1>2. stack \in [0..1 -> Seq(AllPrograms)] /\ stack[0] = s /\ stack[1] = t
  OBVIOUS
<1> HIDE DEF stack
<1>3. Reading(<<line>>, stack)
  <2> SUFFICES ASSUME NEW i \in 1..1
               PROVE  /\ stack[i] = StackAfter(stack[i - 1], <<line>>[i])
                      /\ <<line>>[i].kind = "data" => OnTop(stack[i], <<line>>[i].by)
    BY <1>1 DEF Reading
  <2>1. i = 1 /\ i - 1 = 0
    OBVIOUS
  <2> QED
    BY <1>1, <1>2, <2>1
<1> QED
  BY <1>1, <1>2, <1>3 DEF Reads

LEMMA ConcatReads ==
  ASSUME NEW a, NEW b, NEW r, NEW s, NEW t, Reads(a, r, s), Reads(b, s, t)
  PROVE  Reads(a \o b, r, t)
<1>1. a \in Seq(Lines) /\ b \in Seq(Lines) /\ Len(a) \in Nat /\ Len(b) \in Nat
  BY LenProperties DEF Reads
<1>2. PICK f \in [0..Len(a) -> Seq(AllPrograms)] :
        f[0] = r /\ f[Len(a)] = s /\ Reading(a, f)
  BY DEF Reads
<1>3. PICK g \in [0..Len(b) -> Seq(AllPrograms)] :
        g[0] = s /\ g[Len(b)] = t /\ Reading(b, g)
  BY DEF Reads
<1>4. /\ a \o b \in Seq(Lines)
      /\ Len(a \o b) = Len(a) + Len(b)
      /\ \A i \in 1..(Len(a) + Len(b)) :
           (a \o b)[i] = IF i <= Len(a) THEN a[i] ELSE b[i - Len(a)]
  BY <1>1, ConcatProperties, Zenon
<1> DEFINE m == Len(a)
           n == Len(b)
           h == [i \in 0..(m + n) |-> IF i <= m THEN f[i] ELSE g[i - m]]
<1>5. h \in [0..(m + n) -> Seq(AllPrograms)]
  <2> SUFFICES ASSUME NEW i \in 0..(m + n)
               PROVE  (IF i <= m THEN f[i] ELSE g[i - m]) \in Seq(AllPrograms)
    OBVIOUS
  <2>1. CASE i <= m
    <3>1. i \in 0..m
      BY <1>1, <2>1
    <3> QED
      BY <1>2, <2>1, <3>1
  <2>2. CASE ~ (i <= m)
    <3>1. i - m \in 0..n
      BY <1>1, <2>2
    <3> QED
      BY <2>2, <3>1
  <2> QED
    BY <2>1, <2>2
<1>6. h[0] = r
  BY <1>1, <1>2
<1>7. /\ \A i \in 0..m : h[i] = f[i]
      /\ \A i \in 0..n : h[m + i] = g[i]
  <2>1. \A i \in 0..m : h[i] = f[i]
    BY <1>1
  <2>2. ASSUME NEW i \in 0..n PROVE h[m + i] = g[i]
    <3>1. CASE i = 0
      BY <1>1, <1>2, <1>3, <3>1
    <3>2. CASE i # 0
      <4>1. m + i \in 0..(m + n) /\ ~ (m + i <= m) /\ (m + i) - m = i
        BY <1>1, <3>2
      <4> QED
        BY <4>1
    <3> QED
      BY <3>1, <3>2
  <2> QED
    BY <2>1, <2>2
<1> HIDE DEF h
<1>8. h[m + n] = t
  BY <1>1, <1>3, <1>7
<1>9. ASSUME NEW i \in 1..(m + n)
      PROVE  /\ h[i] = StackAfter(h[i - 1], (a \o b)[i])
             /\ (a \o b)[i].kind = "data" => OnTop(h[i], (a \o b)[i].by)
  <2>1. CASE i <= m
    <3>1. i \in 1..m /\ i \in 0..m /\ i - 1 \in 0..m
      BY <1>1, <2>1
    <3>2. (a \o b)[i] = a[i] /\ h[i] = f[i] /\ h[i - 1] = f[i - 1]
      BY <1>4, <1>7, <2>1, <3>1
    <3> QED
      BY <1>2, <3>1, <3>2 DEF Reading
  <2>2. CASE ~ (i <= m)
    <3> DEFINE j == i - m
    <3>1. j \in 1..n /\ j \in 0..n /\ j - 1 \in 0..n /\ m + j = i /\ m + (j - 1) = i - 1
      BY <1>1, <2>2
    <3>2. (a \o b)[i] = b[j]
      BY <1>4, <2>2
    <3> HIDE DEF j
    <3>3. h[i] = g[j] /\ h[i - 1] = g[j - 1]
      BY <1>7, <3>1
    <3> QED
      BY <1>3, <3>1, <3>2, <3>3 DEF Reading
  <2> QED
    BY <2>1, <2>2
<1>10. Reading(a \o b, h)
  BY <1>4, <1>9 DEF Reading
<1> QED
  BY <1>4, <1>5, <1>6, <1>8, <1>10 DEF Reads

\* No program logs a word of the runtime.
QuietTexts == Texts \subseteq {"plain"}

\* Then only a data line looks like one.
LEMMA DataLines ==
  ASSUME QuietTexts, NEW line \in Lines
  PROVE  carriesData(line) <=> line.kind = "data"
<1>1. CASE \E text \in Texts : line = Log(text)
  <2>1. PICK text \in Texts : line = Log(text)
    BY <1>1
  <2>2. line.kind = "log" /\ line.text = "plain"
    BY <2>1 DEF Log, QuietTexts
  <2> QED
    BY <2>2 DEF carriesData, Looks
<1>2. CASE ~ \E text \in Texts : line = Log(text)
  <2>1. \/ \E p \in AllPrograms : line = Invoke(p)
        \/ line = Success
        \/ \E p \in AllPrograms, record \in Records : line = Data(p, record)
    BY <1>2 DEF Lines
  <2>2. line.kind # "log"
    BY <2>1 DEF Invoke, Success, Data
  <2> QED
    BY <2>2 DEF carriesData, Looks
<1> QED
  BY <1>1, <1>2

\* What a program writes itself is read on its own frame, and leaves it there.
Steady(lines, p) == \A s \in Seq(AllPrograms) : OnTop(s, p) => Reads(lines, s, s)

\* A whole call is read on any stack, and leaves it as it was.
Balanced(lines) == \A s \in Seq(AllPrograms) : Reads(lines, s, s)

LEMMA OwnLineIsSteady ==
  ASSUME QuietTexts, NEW p \in AllPrograms, NEW lines \in Own(p)
  PROVE  Steady(lines, p)
<1> SUFFICES ASSUME NEW s \in Seq(AllPrograms), OnTop(s, p) PROVE Reads(lines, s, s)
  BY DEF Steady
<1>1. CASE \E record \in Records : lines = <<Data(p, record)>>
  <2>1. PICK record \in Records : lines = <<Data(p, record)>>
    BY <1>1
  <2> DEFINE line == Data(p, record)
  <2>2. line \in Lines
    BY DEF Lines
  <2>3. line.kind = "data" /\ line.by = p
    BY DEF Data
  <2>4. StackAfter(s, line) = s
    BY <2>3 DEF StackAfter, invokes, succeeds, Looks
  <2> HIDE DEF line
  <2>5. Reads(<<line>>, s, s)
    BY <2>2, <2>3, <2>4, OneLineReads
  <2> QED
    BY <2>1, <2>5 DEF line
<1>2. CASE \E text \in Texts : lines = <<Log(text)>>
  <2>1. PICK text \in Texts : lines = <<Log(text)>>
    BY <1>2
  <2> DEFINE line == Log(text)
  <2>2. line \in Lines
    BY DEF Lines
  <2>3. line.kind = "log" /\ line.text = "plain"
    BY DEF Log, QuietTexts
  <2>4. StackAfter(s, line) = s
    BY <2>3 DEF StackAfter, invokes, succeeds, Looks
  <2> HIDE DEF line
  <2>5. Reads(<<line>>, s, s)
    BY <2>2, <2>3, <2>4, OneLineReads
  <2> QED
    BY <2>1, <2>5 DEF line
<1> QED
  BY <1>1, <1>2 DEF Own

LEMMA PairsAreSteady ==
  ASSUME NEW p, NEW items, \A item \in items : Steady(item, p), NEW lines \in Pairs(items)
  PROVE  Steady(lines, p)
<1> SUFFICES ASSUME NEW s \in Seq(AllPrograms), OnTop(s, p) PROVE Reads(lines, s, s)
  BY DEF Steady
<1>1. CASE lines = <<>>
  BY <1>1, NothingReads
<1>2. CASE lines \in items
  BY <1>2 DEF Steady
<1>3. CASE \E a \in items, b \in items : lines = a \o b
  <2>1. PICK a \in items, b \in items : lines = a \o b
    BY <1>3
  <2>2. Reads(a, s, s) /\ Reads(b, s, s)
    BY DEF Steady
  <2> QED
    BY <2>1, <2>2, ConcatReads
<1> QED
  BY <1>1, <1>2, <1>3 DEF Pairs

LEMMA FrameIsBalanced ==
  ASSUME NEW p \in AllPrograms, NEW lines, Steady(lines, p)
  PROVE  Balanced(Frame(p, lines))
<1> SUFFICES ASSUME NEW s \in Seq(AllPrograms) PROVE Reads(Frame(p, lines), s, s)
  BY DEF Balanced
<1> DEFINE inner == Append(s, p)
<1>1. /\ inner \in Seq(AllPrograms)
      /\ OnTop(inner, p)
      /\ Pop(inner) = s
  <2>1. /\ inner \in Seq(AllPrograms)
        /\ Len(inner) = Len(s) + 1
        /\ inner[Len(s) + 1] = p
        /\ \A i \in 1..Len(s) : inner[i] = s[i]
        /\ Len(s) \in Nat
    BY AppendProperties, LenProperties
  <2> HIDE DEF inner
  <2>2. inner # <<>>
    BY <2>1
  <2>3. SubSeq(inner, 1, Len(inner) - 1) = s
    <3>1. Len(inner) - 1 = Len(s)
      BY <2>1
    <3>2. SubSeq(inner, 1, Len(s)) = s
      <4>1. \A i \in 1..Len(s) : inner[i] \in AllPrograms
        BY <2>1, ElementOfSeq
      <4>2. /\ SubSeq(inner, 1, Len(s)) \in Seq(AllPrograms)
            /\ Len(SubSeq(inner, 1, Len(s))) = Len(s)
            /\ \A i \in 1..Len(s) : SubSeq(inner, 1, Len(s))[i] = s[i]
        BY <2>1, <4>1, SubSeqProperties
      <4> QED
        BY <4>2, SeqEqual
    <3> QED
      BY <3>1, <3>2
  <2> QED
    BY <2>1, <2>2, <2>3 DEF OnTop, Pop
<1> HIDE DEF inner
<1>2. Reads(<<Invoke(p)>>, s, inner)
  <2> DEFINE line == Invoke(p)
  <2>1. line \in Lines /\ line.kind = "invoke" /\ line.program = p
    BY DEF Lines, Invoke
  <2>2. StackAfter(s, line) = inner
    BY <2>1 DEF StackAfter, invokes, succeeds, Looks, inner
  <2> HIDE DEF line
  <2>3. Reads(<<line>>, s, inner)
    BY <1>1, <2>1, <2>2, OneLineReads
  <2> QED
    BY <2>3 DEF line
<1>3. Reads(lines, inner, inner)
  BY <1>1 DEF Steady
<1>4. Reads(<<Success>>, inner, s)
  <2>1. Success \in Lines /\ Success.kind = "success"
    BY DEF Lines, Success
  <2>2. StackAfter(inner, Success) = s
    BY <1>1, <2>1 DEF StackAfter, invokes, succeeds, Looks
  <2> QED
    BY <1>1, <2>1, <2>2, OneLineReads
<1>5. Reads(<<Invoke(p)>> \o lines, s, inner)
  BY <1>2, <1>3, ConcatReads
<1>6. Reads((<<Invoke(p)>> \o lines) \o <<Success>>, s, s)
  BY <1>4, <1>5, ConcatReads
<1> QED
  BY <1>6 DEF Frame

LEMMA CallsAreBalanced ==
  ASSUME QuietTexts, NEW callees, callees \subseteq AllPrograms, NEW lines \in Calls(callees)
  PROVE  Balanced(lines)
<1>1. PICK p \in callees : \E own \in Pairs(Own(p)) : lines = Frame(p, own)
  BY DEF Calls
<1>2. PICK own \in Pairs(Own(p)) : lines = Frame(p, own)
  BY <1>1
<1>3. \A item \in Own(p) : Steady(item, p)
  BY OwnLineIsSteady
<1>4. Steady(own, p)
  BY <1>3, PairsAreSteady
<1> QED
  BY <1>2, <1>4, FrameIsBalanced

\* Every log of the runtime is read from the empty stack to the empty stack.
LEMMA LogsAreRead ==
  ASSUME QuietTexts, NEW logs \in Logs \cup ViewLogs
  PROVE  Reads(logs, <<>>, <<>>)
<1>0. <<>> \in Seq(AllPrograms)
  BY EmptySeq
<1>1. CASE logs \in ViewLogs
  <2>1. PICK lines \in Own(Program) : logs = Frame(Program, lines)
    BY <1>1 DEF ViewLogs
  <2>2. Program \in AllPrograms
    BY DEF AllPrograms
  <2> QED
    BY <1>0, <2>1, <2>2, OwnLineIsSteady, FrameIsBalanced DEF Balanced
<1> DEFINE Mine == Calls({Program})
           Theirs == Calls(Others)
           Inside(p, q) == {Frame(p, lines) : lines \in Pairs(Own(p) \cup Calls({q}))}
<1>2. Logs = (UNION {Inside(p, q) : p \in AllPrograms, q \in AllPrograms})
               \cup {a \o b : a \in Mine, b \in Theirs}
  BY DEF Logs, AllPrograms
<1>3. \A lines \in Mine \cup Theirs : Balanced(lines)
  <2>1. {Program} \subseteq AllPrograms /\ Others \subseteq AllPrograms
    BY DEF AllPrograms
  <2> QED
    BY <2>1, CallsAreBalanced
<1> HIDE DEF Mine, Theirs, Inside
<1>4. CASE logs \in {a \o b : a \in Mine, b \in Theirs}
  <2>1. PICK a \in Mine, b \in Theirs : logs = a \o b
    BY <1>4
  <2>2. Reads(a, <<>>, <<>>) /\ Reads(b, <<>>, <<>>)
    BY <1>0, <1>3 DEF Balanced
  <2> QED
    BY <2>1, <2>2, ConcatReads
<1>5. CASE logs \in UNION {Inside(p, q) : p \in AllPrograms, q \in AllPrograms}
  <2>1. PICK p \in AllPrograms, q \in AllPrograms : logs \in Inside(p, q)
    BY <1>5
  <2>2. PICK lines \in Pairs(Own(p) \cup Calls({q})) : logs = Frame(p, lines)
    BY <2>1 DEF Inside
  <2>3. ASSUME NEW item \in Own(p) \cup Calls({q}) PROVE Steady(item, p)
    <3>1. CASE item \in Own(p)
      BY <3>1, OwnLineIsSteady
    <3>2. CASE item \in Calls({q})
      <4>1. {q} \subseteq AllPrograms
        OBVIOUS
      <4>2. Balanced(item)
        BY <3>2, <4>1, CallsAreBalanced
      <4> QED
        BY <4>2 DEF Balanced, Steady
    <3> QED
      BY <3>1, <3>2
  <2>4. Steady(lines, p)
    BY <2>3, PairsAreSteady
  <2>5. Balanced(logs)
    BY <2>2, <2>4, FrameIsBalanced
  <2> QED
    BY <1>0, <2>5 DEF Balanced
<1> QED
  BY <1>1, <1>2, <1>4, <1>5

LEMMA EventsUnfold ==
  ASSUME NEW logs, Len(logs) \in Nat
  PROVE  \E stack :
           /\ stack[0] = <<>>
           /\ \A i \in 1..Len(logs) : stack[i] = StackAfter(stack[i - 1], logs[i])
           /\ eventsFromLogs(logs)
                = {i \in 1..Len(logs) : /\ carriesData(logs[i])
                                        /\ stack[i] # <<>> /\ stack[i][Len(stack[i])] = Program
                                        /\ decodeEventAny(logs[i].record)}
<1> DEFINE Step(i, before) == StackAfter(before, logs[i])
           Fits(g, n) == g = [i \in 0..n |-> IF i = 0 THEN <<>> ELSE Step(i, g[i - 1])]
           Some == {n \in Nat : \E g : Fits(g, n)}
<1> HIDE DEF Step
<1>1. 0 \in Some
  <2>1. Fits([i \in 0..0 |-> <<>>], 0)
    OBVIOUS
  <2> QED
    BY <2>1
<1>2. ASSUME NEW n \in Nat, n \in Some PROVE n + 1 \in Some
  <2>1. PICK g : Fits(g, n)
    BY <1>2
  <2> DEFINE h == [i \in 0..(n + 1) |-> IF i <= n THEN g[i] ELSE Step(n + 1, g[n])]
  <2>2. ASSUME NEW i \in 0..(n + 1)
        PROVE  h[i] = IF i = 0 THEN <<>> ELSE Step(i, h[i - 1])
    <3>1. CASE i = 0
      BY <2>1, <3>1
    <3>2. CASE i \in 1..n
      BY <2>1, <3>2
    <3>3. CASE i = n + 1
      BY <3>3
    <3> QED
      BY <3>1, <3>2, <3>3
  <2>3. Fits(h, n + 1)
    BY <2>2
  <2> HIDE DEF Fits, h
  <2>4. n + 1 \in Nat /\ \E f : Fits(f, n + 1)
    BY <2>3
  <2> QED
    BY <2>4
<1>3. Len(logs) \in Some
  BY <1>1, <1>2, SetInduction
<1>4. PICK g : Fits(g, Len(logs))
  BY <1>3
<1> DEFINE stack == CHOOSE f : Fits(f, Len(logs))
<1>5. eventsFromLogs(logs)
        = {i \in 1..Len(logs) : /\ carriesData(logs[i])
                                /\ stack[i] # <<>> /\ stack[i][Len(stack[i])] = Program
                                /\ decodeEventAny(logs[i].record)}
  BY DEF eventsFromLogs, Step
<1>6. Fits(stack, Len(logs))
  BY <1>4
<1> HIDE DEF stack
<1>7. /\ stack[0] = <<>>
      /\ \A i \in 1..Len(logs) : stack[i] = Step(i, stack[i - 1])
  BY <1>6
<1> QED
  BY <1>5, <1>7 DEF Step

\* A log cut off anywhere gives the events the program emitted up to there.
LEMMA EventsAreEmitted ==
  ASSUME QuietTexts, NEW logs, Reads(logs, <<>>, <<>>), NEW seen \in 0..Len(logs)
  PROVE  eventsFromLogs(SubSeq(logs, 1, seen)) = Emitted(SubSeq(logs, 1, seen))
<1> DEFINE read == SubSeq(logs, 1, seen)
<1>1. logs \in Seq(Lines) /\ Len(logs) \in Nat /\ \A i \in 1..Len(logs) : logs[i] \in Lines
  BY LenProperties, ElementOfSeq DEF Reads
<1>2. Len(read) = seen /\ seen \in Nat /\ \A i \in 1..seen : read[i] = logs[i]
  <2>1. seen \in Nat /\ \A i \in 1..seen : logs[i] \in Lines
    BY <1>1
  <2> QED
    BY <2>1, SubSeqProperties
<1> HIDE DEF read
<1>3. PICK stack :
        /\ stack[0] = <<>>
        /\ \A i \in 1..Len(read) : stack[i] = StackAfter(stack[i - 1], read[i])
        /\ eventsFromLogs(read)
             = {i \in 1..Len(read) : /\ carriesData(read[i])
                                     /\ stack[i] # <<>> /\ stack[i][Len(stack[i])] = Program
                                     /\ decodeEventAny(read[i].record)}
  BY <1>2, EventsUnfold
<1>4. PICK f \in [0..Len(logs) -> Seq(AllPrograms)] : f[0] = <<>> /\ Reading(logs, f)
  BY DEF Reads
<1> DEFINE Same == {i \in Nat : i <= seen => stack[i] = f[i]}
<1>5. 0 \in Same
  BY <1>3, <1>4
<1>6. ASSUME NEW i \in Nat, i \in Same PROVE i + 1 \in Same
  <2> SUFFICES ASSUME i + 1 <= seen PROVE stack[i + 1] = f[i + 1]
    OBVIOUS
  <2>1. i + 1 \in 1..seen /\ i + 1 \in 1..Len(logs) /\ (i + 1) - 1 = i /\ i <= seen
    BY <1>1, <1>2
  <2>2. stack[i + 1] = StackAfter(stack[i], read[i + 1])
    BY <1>2, <1>3, <2>1
  <2>3. f[i + 1] = StackAfter(f[i], logs[i + 1])
    BY <1>4, <2>1 DEF Reading
  <2> QED
    BY <1>2, <1>6, <2>1, <2>2, <2>3
<1> HIDE DEF Same
<1>7. Nat \subseteq Same
  BY <1>5, <1>6, SetInduction
<1>8. ASSUME NEW i \in 1..seen, read[i].kind = "data"
      PROVE  stack[i] # <<>> /\ stack[i][Len(stack[i])] = read[i].by
  <2>1. i \in Nat /\ i <= seen /\ i \in 1..Len(logs)
    BY <1>1, <1>2
  <2>2. stack[i] = f[i]
    BY <1>7, <2>1 DEF Same
  <2>3. OnTop(f[i], read[i].by)
    BY <1>2, <1>4, <1>8, <2>1 DEF Reading
  <2> QED
    BY <2>2, <2>3 DEF OnTop
<1>9. \A i \in 1..seen : carriesData(read[i]) <=> read[i].kind = "data"
  <2>1. \A i \in 1..seen : read[i] \in Lines
    BY <1>1, <1>2
  <2> QED
    BY <2>1, DataLines
<1>10. eventsFromLogs(read) = Emitted(read)
  BY <1>2, <1>3, <1>8, <1>9 DEF Emitted
<1> QED
  BY <1>10 DEF read

LEMMA EventsStep ==
  ASSUME QuietTexts, EventsOfProgram, [Next]_vars PROVE EventsOfProgram'
<1>1. CASE ReadEvents
  <2>1. ASSUME NEW logs \in Logs \cup ViewLogs, NEW seen \in 0..Len(logs),
               events' = eventsFromLogs(SubSeq(logs, 1, seen)),
               emitted' = Emitted(SubSeq(logs, 1, seen))
        PROVE  events' = emitted'
    BY <2>1, LogsAreRead, EventsAreEmitted
  <2>2. CASE UNCHANGED <<events, emitted>>
    BY <2>2 DEF EventsOfProgram
  <2> QED
    BY <1>1, <2>1, <2>2 DEF ReadEvents, EventsOfProgram
<1>2. CASE ChainStep \/ AskAccounts \/ ReceiveAccounts \/ ReadResult \/ UNCHANGED vars
  <2>1. UNCHANGED <<events, emitted>>
    BY <1>2 DEF ChainStep, AskAccounts, ReceiveAccounts, ReadResult, vars, clientVars
  <2> QED
    BY <2>1 DEF EventsOfProgram
<1> QED
  BY <1>1, <1>2 DEF Next, ClientStep

\* Where programs log no word of the runtime, the events read are those the program
\* emitted, whoever it calls or is called by and wherever the log is cut off.
THEOREM EventsAreAttributed == QuietTexts /\ Spec => []EventsOfProgram
<1>1. Init => EventsOfProgram
  BY DEF Init, EventsOfProgram
<1>2. QuietTexts /\ EventsOfProgram /\ [Next]_vars => EventsOfProgram'
  BY EventsStep
<1>3. QuietTexts => QuietTexts'
  BY DEF QuietTexts
<1> QED
  BY <1>1, <1>2, <1>3, PTL DEF Spec
=============================================================================
