-------------------------- MODULE TransportProofs ---------------------------
(***************************************************************************)
(* Proofs about sending and confirming, for any number of transactions and *)
(* retries, any timeout and either library: what confirm reports is true,  *)
(* although the chain moves on, and may take a transaction back, between   *)
(* the endpoint's answer and its reading.                                  *)
(***************************************************************************)
EXTENDS Transport, TLAPS

-----------------------------------------------------------------------------
(* Levels and answers                                                      *)

LEMMA Levels ==
  /\ Commitments = {"processed", "confirmed", "finalized"}
  /\ order["processed"] = 0
  /\ order["confirmed"] = 1
  /\ order["finalized"] = 2
BY DEF Commitments, order

\* null is not mistaken for a status.
LEMMA NullIsNoStatus == null \notin Statuses
<1> SUFFICES ASSUME null \in Statuses PROVE FALSE
  OBVIOUS
<1>1. DOMAIN null = {"confirmationStatus", "err"}
  BY DEF Statuses
<1>2. DOMAIN null = {"nothing"}
  BY DEF null
<1> QED
  BY <1>1, <1>2

\* Only a status answers with a value, and that value is a status or null.
LEMMA StatusOnWire ==
  /\ Quiet.kind # "status"
  /\ Asked.kind # "status"
  /\ Signature.kind # "status"
  /\ RpcError.kind # "status"
  /\ NetworkError.kind # "status"
  /\ \A value : StatusAnswer(value).kind = "status" /\ StatusAnswer(value).value = value
BY DEF Quiet, Asked, Signature, RpcError, NetworkError, StatusAnswer

LEMMA ValueOnWire ==
  ASSUME TypeOK, wire.kind = "status"
  PROVE  wire.value \in Statuses \cup {null}
BY StatusOnWire DEF TypeOK, Answers

-----------------------------------------------------------------------------
(* Types                                                                   *)

LEMMA TransportTypeInit == Init => TypeOK
<1> SUFFICES ASSUME Init PROVE TypeOK
  OBVIOUS
<1>1. chain \in [Transactions -> Ledger]
  BY DEF Init, Ledger
<1>2. client \in Clients
  BY TransportAssumption, Levels DEF Init, Clients, Outcomes
<1> QED
  BY <1>1, <1>2, TransportAssumption DEF Init, TypeOK, Answers

\* What the chain does to a transaction, as the client sees it.
LEMMA ChainType ==
  ASSUME TypeOK, NEW t \in Transactions, ChainStep(t)
  PROVE  /\ chain' \in [Transactions -> Ledger]
         /\ UNCHANGED <<wire, client, now>>
         /\ \A u \in Transactions :
              chain[u].level \in {"confirmed", "finalized"} =>
                /\ chain'[u].err = chain[u].err
                /\ \/ chain'[u].level = chain[u].level
                   \/ chain[u].level = "confirmed" /\ chain'[u].level = "finalized"
<1>1. chain[t] \in Ledger
  BY DEF TypeOK
<1>2. UNCHANGED <<wire, client, now>>
  BY DEF ChainStep, Execute, Deepen, Fork, Expire
<1>3. \E entry \in Ledger :
        /\ chain' = [chain EXCEPT ![t] = entry]
        /\ chain[t].level \in {"confirmed", "finalized"} =>
             /\ entry.err = chain[t].err
             /\ chain[t].level = "confirmed" /\ entry.level = "finalized"
  <2>1. CASE Execute(t)
    <3>1. PICK err \in BOOLEAN :
            chain' = [chain EXCEPT ![t].level = "processed", ![t].err = err]
      BY <2>1 DEF Execute
    <3> DEFINE entry == [chain[t] EXCEPT !.level = "processed", !.err = err]
    <3>2. entry \in Ledger
      BY <1>1, Levels DEF Ledger
    <3>3. chain' = [chain EXCEPT ![t] = entry] /\ chain[t].level = "unseen"
      BY <2>1, <3>1 DEF TypeOK, Execute
    <3> QED
      BY <3>2, <3>3
  <2>2. CASE Deepen(t)
    <3>1. PICK level \in {"confirmed", "finalized"} :
            /\ chain' = [chain EXCEPT ![t].level = level]
            /\ \/ chain[t].level = "processed"
               \/ chain[t].level = "confirmed" /\ level = "finalized"
      BY <2>2 DEF Deepen
    <3> DEFINE entry == [chain[t] EXCEPT !.level = level]
    <3>2. entry \in Ledger /\ entry.level = level /\ entry.err = chain[t].err
      BY <1>1, Levels DEF Ledger
    <3>3. chain' = [chain EXCEPT ![t] = entry]
      BY <3>1 DEF TypeOK
    <3> QED
      BY <3>1, <3>2, <3>3
  <2>3. CASE Fork(t)
    <3> DEFINE entry == [chain[t] EXCEPT !.level = "unseen", !.err = FALSE]
    <3>1. entry \in Ledger
      BY <1>1 DEF Ledger
    <3>2. chain' = [chain EXCEPT ![t] = entry] /\ chain[t].level = "processed"
      BY <2>3 DEF TypeOK, Fork
    <3> QED
      BY <3>1, <3>2
  <2>4. CASE Expire(t)
    <3> DEFINE entry == [chain[t] EXCEPT !.accepted = FALSE]
    <3>1. entry \in Ledger
      BY <1>1 DEF Ledger
    <3>2. chain' = [chain EXCEPT ![t] = entry] /\ chain[t].level = "unseen"
      BY <2>4 DEF TypeOK, Expire
    <3> QED
      BY <3>1, <3>2
  <2> QED
    BY <2>1, <2>2, <2>3, <2>4 DEF ChainStep
<1>4. PICK entry \in Ledger :
        /\ chain' = [chain EXCEPT ![t] = entry]
        /\ chain[t].level \in {"confirmed", "finalized"} =>
             /\ entry.err = chain[t].err
             /\ chain[t].level = "confirmed" /\ entry.level = "finalized"
  BY <1>3
<1>5. \A u \in Transactions : chain'[u] = IF u = t THEN entry ELSE chain[u]
  BY <1>4 DEF TypeOK
<1>6. chain' \in [Transactions -> Ledger]
  BY <1>4 DEF TypeOK
<1> QED
  BY <1>2, <1>4, <1>5, <1>6

\* A call leaves the chain as it is, or has the endpoint take the transaction.
LEMMA AnswerType ==
  ASSUME TypeOK, Answer
  PROVE  /\ chain' \in [Transactions -> Ledger]
         /\ wire' \in Answers
         /\ UNCHANGED <<client, now>>
         /\ \A u \in Transactions :
              chain'[u].level = chain[u].level /\ chain'[u].err = chain[u].err
<1>1. chain \in [Transactions -> Ledger] /\ client.tx \in Transactions
  BY DEF TypeOK, Clients
<1>2. CASE AnswerSend
  <2>1. wire' \in {Signature, RpcError, NetworkError} /\ UNCHANGED <<client, now>>
    BY <1>2 DEF AnswerSend
  <2>2. CASE UNCHANGED chain
    BY <1>1, <2>1, <2>2 DEF Answers
  <2>3. CASE chain' = [chain EXCEPT ![client.tx].accepted = TRUE]
    <3>1. chain[client.tx] \in Ledger
      BY <1>1
    <3> DEFINE entry == [chain[client.tx] EXCEPT !.accepted = TRUE]
    <3>2. /\ entry \in Ledger
          /\ entry.level = chain[client.tx].level
          /\ entry.err = chain[client.tx].err
      BY <3>1 DEF Ledger
    <3>3. chain' = [chain EXCEPT ![client.tx] = entry]
      BY <2>3
    <3> HIDE DEF entry
    <3> QED
      BY <1>1, <2>1, <3>2, <3>3 DEF Answers
  <2> QED
    BY <1>2, <2>2, <2>3 DEF AnswerSend
<1>3. CASE AnswerStatus
  <2>1. UNCHANGED <<chain, client, now>>
    BY <1>3 DEF AnswerStatus
  <2>2. chain[client.tx] \in Ledger
    BY <1>1
  <2>3. wire' \in Answers
    <3>1. CASE wire' \in {RpcError, NetworkError}
      BY <3>1 DEF Answers
    <3>2. CASE wire' = StatusAnswer(null)
      BY <3>2 DEF Answers
    <3>3. ASSUME chain[client.tx].level # "unseen",
                 NEW level \in {chain[client.tx].level, unset},
                 wire' = StatusAnswer([confirmationStatus |-> level,
                                       err |-> chain[client.tx].err])
          PROVE  wire' \in Answers
      <4>1. [confirmationStatus |-> level, err |-> chain[client.tx].err] \in Statuses
        BY <2>2, <3>3 DEF Ledger, Statuses
      <4> QED
        BY <3>3, <4>1 DEF Answers
    <3> QED
      BY <1>3, <3>1, <3>2, <3>3 DEF AnswerStatus
  <2> QED
    BY <1>1, <2>1, <2>3
<1> QED
  BY <1>2, <1>3 DEF Answer

\* What a client does next keeps its shape; the chain is not in its hands.
LEMMA ClientType ==
  ASSUME TypeOK,
         \/ \E t \in Transactions : Send(t)
         \/ \E target \in Commitments : Confirm(target)
         \/ Continue
  PROVE  TypeOK' /\ UNCHANGED <<chain, now>>
<1>1. client \in Clients /\ now \in 0..MaxTime /\ UNCHANGED <<chain, now>>
  BY DEF TypeOK, Send, Confirm, Continue, Post, ReceiveSend, ReceiveStatus,
         ReceiveStatusError, Wake
<1>2. wire' \in Answers
  BY DEF TypeOK, Send, Confirm, Continue, Post, ReceiveSend, ReceiveStatus,
         ReceiveStatusError, Wake, Answers
<1>3. client' \in Clients
  <2>1. ASSUME NEW t \in Transactions, Send(t) PROVE client' \in Clients
    <3> DEFINE asked == [client EXCEPT !.pc = "sending", !.tx = t, !.attempt = 0]
    <3>1. asked \in Clients
      <4>1. 0 \in 0..MaxRetries
        BY TransportAssumption
      <4> QED
        BY <1>1, <4>1 DEF Clients
    <3>2. client' = [asked EXCEPT !.seen = null, !.outcome = "none"]
      BY <2>1 DEF Send
    <3> HIDE DEF asked
    <3> QED
      BY <3>1, <3>2 DEF Clients, Outcomes
  <2>2. ASSUME NEW target \in Commitments, Confirm(target) PROVE client' \in Clients
    <3> DEFINE asked == [client EXCEPT !.pc = "polling", !.target = target,
                                       !.deadline = now + Timeout]
    <3>1. now + Timeout <= MaxTime
      BY <2>2 DEF Confirm
    <3>2. now + Timeout \in 0..MaxTime
      BY <1>1, <3>1, TransportAssumption
    <3>3. asked \in Clients
      BY <1>1, <3>2 DEF Clients
    <3>4. client' = [asked EXCEPT !.seen = null, !.outcome = "none"]
      BY <2>2 DEF Confirm
    <3> HIDE DEF asked
    <3> QED
      BY <3>3, <3>4 DEF Clients, Outcomes
  <2>3. CASE ReceiveSend
    <3>1. client.attempt < MaxRetries => client.attempt + 1 \in 0..MaxRetries
      BY <1>1, TransportAssumption DEF Clients
    <3> QED
      BY <1>1, <2>3, <3>1 DEF ReceiveSend, Clients, Outcomes
  <2>4. ASSUME NEW value \in Statuses \cup {null}, NEW outcome \in Outcomes,
               Return(value, outcome) \/ Sleep(value)
        PROVE  client' \in Clients
    BY <1>1, <2>4 DEF Return, Sleep, Clients
  <2>5. CASE ReceiveStatus
    <3>1. wire.value \in Statuses \cup {null}
      BY <2>5, ValueOnWire DEF ReceiveStatus
    <3> QED
      BY <2>4, <2>5, <3>1 DEF ReceiveStatus, Outcomes
  <2>6. CASE ReceiveStatusError
    BY <1>1, <2>4, <2>6 DEF ReceiveStatusError, Clients, Outcomes
  <2>7. CASE Wake
    BY <1>1, <2>7 DEF Wake, Clients
  <2>8. CASE Post
    BY <1>1, <2>8 DEF Post
  <2> QED
    BY <2>1, <2>2, <2>3, <2>5, <2>6, <2>7, <2>8 DEF Continue
<1> QED
  BY <1>1, <1>2, <1>3 DEF TypeOK

LEMMA TransportTypeStep == ASSUME TypeOK, [Next]_vars PROVE TypeOK'
<1>1. CASE Tick
  BY <1>1, TransportAssumption DEF TypeOK, Tick
<1>2. ASSUME NEW t \in Transactions, ChainStep(t) PROVE TypeOK'
  BY <1>2, ChainType DEF TypeOK
<1>3. CASE Answer
  BY <1>3, AnswerType DEF TypeOK
<1>4. CASE \/ \E t \in Transactions : Send(t)
           \/ \E target \in Commitments : Confirm(target)
           \/ Continue
  BY <1>4, ClientType
<1>5. CASE UNCHANGED vars
  BY <1>5 DEF TypeOK, vars
<1> QED
  BY <1>1, <1>2, <1>3, <1>4, <1>5 DEF Next

-----------------------------------------------------------------------------
(* The inductive invariant                                                 *)

\* A status that was true stays true whatever the chain does next.
LEMMA TruthLasts ==
  ASSUME TypeOK,
         NEW value \in Statuses \cup {null},
         StillTrue(value),
         client'.tx = client.tx,
         chain'[client.tx].level \in Commitments \cup {"unseen"},
         chain[client.tx].level \in {"confirmed", "finalized"} =>
           /\ chain'[client.tx].err = chain[client.tx].err
           /\ \/ chain'[client.tx].level = chain[client.tx].level
              \/ /\ chain[client.tx].level = "confirmed"
                 /\ chain'[client.tx].level = "finalized"
  PROVE  StillTrue(value)'
<1> SUFFICES ASSUME value # null, value.confirmationStatus \in {"confirmed", "finalized"}
             PROVE  /\ chain'[client.tx].level # "unseen"
                    /\ order[chain'[client.tx].level] >= order[value.confirmationStatus]
                    /\ chain'[client.tx].err = value.err
  BY DEF StillTrue
<1>1. chain[client.tx] \in Ledger
  BY DEF TypeOK, Clients
<1>2. /\ chain[client.tx].level # "unseen"
      /\ order[chain[client.tx].level] >= order[value.confirmationStatus]
      /\ chain[client.tx].err = value.err
  BY DEF StillTrue
<1>3. chain[client.tx].level \in {"confirmed", "finalized"}
  BY <1>1, <1>2, Levels DEF Ledger
<1> QED
  BY <1>2, <1>3, Levels

\* The verdict of a confirm and the status it rests on, in one step to the next.
LEMMA VerdictKept ==
  ASSUME TransportInv, TypeOK', now' >= now, UNCHANGED client
  PROVE  /\ client'.outcome = "returned" => client'.seen # null
         /\ TimeoutIsUndecided'
         /\ PythonWaitsForUnseen'
BY TransportAssumption
DEF TransportInv, TypeOK, Clients, TimeoutIsUndecided, PythonWaitsForUnseen, UnseenIsWaitedFor

\* The chain, the clock and the endpoint: the client does not move.
LEMMA WorldStep ==
  ASSUME TransportInv,
         \/ Tick \/ Answer \/ UNCHANGED vars
         \/ \E t \in Transactions : ChainStep(t)
  PROVE  TransportInv'
<1>1. TypeOK /\ TypeOK' /\ UNCHANGED client /\ now' >= now /\ client.tx \in Transactions
  <2>1. TypeOK /\ TypeOK'
    BY TransportTypeStep DEF TransportInv, Next
  <2>2. UNCHANGED client
    BY <2>1, ChainType, AnswerType DEF Tick, vars
  <2>3. now' >= now
    BY <2>1, ChainType, AnswerType, TransportAssumption DEF Tick, vars, TypeOK
  <2> QED
    BY <2>1, <2>2, <2>3 DEF TypeOK, Clients
<1>2. /\ client.outcome = "returned" => client.seen # null
      /\ TimeoutIsUndecided'
      /\ PythonWaitsForUnseen'
  BY <1>1, VerdictKept
<1>3. /\ chain'[client.tx].level \in Commitments \cup {"unseen"}
      /\ chain[client.tx].level \in {"confirmed", "finalized"} =>
           /\ chain'[client.tx].err = chain[client.tx].err
           /\ \/ chain'[client.tx].level = chain[client.tx].level
              \/ /\ chain[client.tx].level = "confirmed"
                 /\ chain'[client.tx].level = "finalized"
  <2>1. chain'[client.tx].level \in Commitments \cup {"unseen"}
    BY <1>1 DEF TypeOK, Ledger
  <2> QED
    BY <1>1, <2>1, ChainType, AnswerType DEF Tick, vars
<1>4. ASSUME NEW value \in Statuses \cup {null}, StillTrue(value) PROVE StillTrue(value)'
  BY <1>1, <1>3, <1>4, TruthLasts
<1>5. StillTrue(client.seen)'
  BY <1>1, <1>4 DEF TransportInv, StatusesAreTrue, TypeOK, Clients
<1>6. CallDiscipline' /\ (wire'.kind = "status" => StillTrue(wire.value)')
  <2>1. CASE UNCHANGED wire
    BY <1>1, <1>4, <2>1, ValueOnWire DEF TransportInv, CallDiscipline, StatusesAreTrue
  <2>2. CASE AnswerSend
    BY <1>1, <2>2, StatusOnWire
    DEF AnswerSend, TransportInv, CallDiscipline
  <2>3. CASE AnswerStatus
    <3>1. CallDiscipline'
      BY <1>1, <2>3 DEF AnswerStatus, TransportInv, CallDiscipline
    <3>2. wire'.kind = "status" => StillTrue(wire.value)'
      <4>1. CASE wire' \in {RpcError, NetworkError}
        BY <4>1, StatusOnWire
      <4>2. CASE wire' = StatusAnswer(null)
        BY <4>2, StatusOnWire DEF StillTrue
      <4>3. ASSUME NEW level \in {chain[client.tx].level, unset},
                   wire' = StatusAnswer([confirmationStatus |-> level,
                                         err |-> chain[client.tx].err])
            PROVE  StillTrue(wire.value)'
        <5>1. wire'.value = [confirmationStatus |-> level, err |-> chain[client.tx].err]
          BY <4>3, StatusOnWire
        <5>2. chain' = chain /\ chain[client.tx] \in Ledger
          BY <1>1, <2>3 DEF AnswerStatus, TypeOK
        <5>3. level \in {"confirmed", "finalized"} => level = chain[client.tx].level
          BY DEF unset
        <5> QED
          BY <1>1, <5>1, <5>2, <5>3, Levels DEF StillTrue, Ledger
      <4> QED
        BY <2>3, <4>1, <4>2, <4>3 DEF AnswerStatus
    <3> QED
      BY <3>1, <3>2
  <2> QED
    BY <1>1, <2>1, <2>2, <2>3, ChainType DEF Tick, vars, Answer
<1> QED
  BY <1>1, <1>2, <1>5, <1>6 DEF TransportInv, StatusesAreTrue

\* The caller starts a send or a confirm: nothing is known of it yet.
LEMMA StartStep ==
  ASSUME TransportInv,
         \/ \E t \in Transactions : Send(t)
         \/ \E target \in Commitments : Confirm(target)
  PROVE  TransportInv'
<1>1. TypeOK /\ TypeOK'
  BY TransportTypeStep DEF TransportInv, Next
<1>2. client.pc = "idle" /\ wire' = wire
  BY DEF Send, Confirm
<1>3. wire' = Quiet /\ wire'.kind # "status"
  BY <1>2, StatusOnWire DEF TransportInv, CallDiscipline
<1>4. /\ client'.pc \in {"sending", "polling"}
      /\ client'.seen = null
      /\ client'.outcome = "none"
  BY <1>1 DEF Send, Confirm, TypeOK, Clients
<1> QED
  BY <1>1, <1>3, <1>4
  DEF TransportInv, CallDiscipline, StatusesAreTrue, StillTrue, TimeoutIsUndecided,
      PythonWaitsForUnseen, UnseenIsWaitedFor

\* A status read at the poll becomes the one the client has seen.
LEMMA ReadStep == ASSUME TransportInv, ReceiveStatus PROVE TransportInv'
<1>1. TypeOK /\ TypeOK' /\ UNCHANGED <<chain, now>>
  BY TransportTypeStep, ClientType DEF TransportInv, Next, Continue
<1> DEFINE value == wire.value
<1>2. value \in Statuses \cup {null} /\ StillTrue(value)
  BY <1>1, ValueOnWire DEF ReceiveStatus, TransportInv, StatusesAreTrue
<1>3. wire' = Quiet /\ wire'.kind # "status" /\ client.outcome = "none"
  BY StatusOnWire DEF ReceiveStatus, TransportInv, CallDiscipline
<1>4. /\ client'.seen = value
      /\ client'.tx = client.tx
      /\ client'.sdk = client.sdk
      /\ client'.target = client.target
      /\ client'.deadline = client.deadline
      /\ \/ /\ client'.pc = "idle"
            /\ client'.outcome = "threw"
            /\ Throws(value)
         \/ /\ client'.pc = "idle"
            /\ client'.outcome = "returned"
            /\ Decisive(value, client.target)
         \/ /\ client'.pc = "idle"
            /\ client'.outcome = "timedOut"
            /\ ~ Decisive(value, client.target)
            /\ now >= client.deadline
         \/ /\ client'.pc = "sleeping"
            /\ client'.outcome = "none"
  <2> HIDE DEF value
  <2>1. \/ Throws(value) /\ Return(value, "threw")
        \/ Decisive(value, client.target) /\ Return(value, "returned")
        \/ /\ ~ Decisive(value, client.target)
           /\ now >= client.deadline
           /\ Return(value, "timedOut")
        \/ Sleep(value)
    BY DEF ReceiveStatus, value
  <2>2. client \in Clients
    BY <1>1 DEF TypeOK
  <2>3. ASSUME NEW outcome, Return(value, outcome)
        PROVE  /\ client'.seen = value /\ client'.tx = client.tx /\ client'.sdk = client.sdk
               /\ client'.target = client.target /\ client'.deadline = client.deadline
               /\ client'.pc = "idle" /\ client'.outcome = outcome
    BY <2>2, <2>3 DEF Return, Clients
  <2>4. ASSUME Sleep(value)
        PROVE  /\ client'.seen = value /\ client'.tx = client.tx /\ client'.sdk = client.sdk
               /\ client'.target = client.target /\ client'.deadline = client.deadline
               /\ client'.pc = "sleeping" /\ client'.outcome = client.outcome
    BY <2>2, <2>4 DEF Sleep, Clients
  <2> QED
    BY <1>3, <2>1, <2>3, <2>4
<1> HIDE DEF value
<1>5. CallDiscipline'
  BY <1>3, <1>4 DEF CallDiscipline
<1>6. StatusesAreTrue'
  BY <1>1, <1>2, <1>3, <1>4 DEF StatusesAreTrue, StillTrue
<1>7. client'.outcome = "returned" => client'.seen # null
  BY <1>4 DEF Decisive
<1>8. TimeoutIsUndecided'
  BY <1>1, <1>4 DEF TimeoutIsUndecided
<1>9. PythonWaitsForUnseen'
  BY <1>1, <1>4 DEF PythonWaitsForUnseen, UnseenIsWaitedFor, Throws
<1> QED
  BY <1>1, <1>5, <1>6, <1>7, <1>8, <1>9 DEF TransportInv

\* The other things a client does: it asks, reads the end of a send or an error,
\* or wakes; what it has seen stays, and no verdict of a wait is given.
LEMMA GoOnStep ==
  ASSUME TransportInv, Post \/ ReceiveSend \/ ReceiveStatusError \/ Wake
  PROVE  TransportInv'
<1>1. TypeOK /\ TypeOK' /\ UNCHANGED <<chain, now>> /\ client \in Clients
  BY TransportTypeStep, ClientType DEF TransportInv, Next, Continue, TypeOK
<1>2. client.outcome = "none"
  BY DEF Post, ReceiveSend, ReceiveStatusError, Wake, TransportInv, CallDiscipline
<1>3. /\ client'.seen = client.seen
      /\ client'.tx = client.tx
      /\ client'.outcome \notin {"returned", "timedOut", "threw"}
  BY <1>1, <1>2 DEF Post, ReceiveSend, ReceiveStatusError, Wake, Return, Clients
<1>4. wire' \in {Quiet, Asked} /\ wire'.kind # "status"
  <2>1. CASE Wake
    BY <2>1 DEF Wake, TransportInv, CallDiscipline, Quiet
  <2>2. CASE ~ Wake
    BY <2>2, StatusOnWire DEF Post, ReceiveSend, ReceiveStatusError
  <2> QED
    BY <2>1, <2>2
<1>5. CallDiscipline'
  <2>1. CASE Post
    BY <1>2, <1>4, <2>1 DEF Post, CallDiscipline
  <2>2. CASE ReceiveSend
    BY <1>1, <1>2, <1>4, <2>2 DEF ReceiveSend, CallDiscipline, Clients
  <2>3. CASE ReceiveStatusError
    BY <1>1, <1>4, <2>3 DEF ReceiveStatusError, Return, CallDiscipline, Clients
  <2>4. CASE Wake
    BY <1>1, <1>2, <1>4, <2>4 DEF Wake, CallDiscipline, Clients
  <2> QED
    BY <2>1, <2>2, <2>3, <2>4
<1>6. StatusesAreTrue'
  BY <1>1, <1>3, <1>4 DEF TransportInv, StatusesAreTrue, StillTrue
<1> QED
  BY <1>1, <1>3, <1>5, <1>6
  DEF TransportInv, TimeoutIsUndecided, PythonWaitsForUnseen, UnseenIsWaitedFor

LEMMA TransportInit == Init => TransportInv
<1> SUFFICES ASSUME Init PROVE TransportInv
  OBVIOUS
<1>1. /\ TypeOK
      /\ wire = Quiet
      /\ client.pc = "idle"
      /\ client.seen = null
      /\ client.outcome = "none"
  BY TransportTypeInit DEF Init
<1> QED
  BY <1>1, StatusOnWire
  DEF TransportInv, CallDiscipline, StatusesAreTrue, StillTrue, TimeoutIsUndecided,
      PythonWaitsForUnseen, UnseenIsWaitedFor

LEMMA TransportStep == ASSUME TransportInv, [Next]_vars PROVE TransportInv'
BY WorldStep, StartStep, ReadStep, GoOnStep DEF Next, Continue

-----------------------------------------------------------------------------
(* The theorems                                                            *)

\* The inductive invariant holds in every reachable state.
THEOREM TransportInductive == Spec => []TransportInv
<1>1. TransportInv /\ [Next]_vars => TransportInv'
  BY TransportStep
<1> QED
  BY <1>1, TransportInit, PTL DEF Spec

\* A client keeps its shape, and never attempts a send more often than asked.
THEOREM TransportTypeCorrect == Spec => []TypeOK
<1>1. TransportInv => TypeOK
  BY DEF TransportInv
<1> QED
  BY <1>1, TransportInductive, PTL

\* What confirm returned at a depth no fork takes back is what the chain holds,
\* and goes on holding.
THEOREM ConfirmTellsTheTruth == Spec => []ConfirmationIsTrue
<1>1. ASSUME TransportInv PROVE ConfirmationIsTrue
  <2> SUFFICES ASSUME client.outcome = "returned",
                      client.target # "processed",
                      Reached(client.seen, client.target)
               PROVE  /\ chain[client.tx].level # "unseen"
                      /\ order[chain[client.tx].level] >= order[client.target]
                      /\ chain[client.tx].err = client.seen.err
    BY DEF ConfirmationIsTrue
  <2>1. client \in Clients /\ chain \in [Transactions -> Ledger]
    BY <1>1 DEF TransportInv, TypeOK
  <2>2. client.seen \in Statuses /\ client.seen # null
    BY <1>1, <2>1 DEF TransportInv, Clients
  <2>3. client.target \in {"confirmed", "finalized"}
    BY <2>1, Levels DEF Clients
  <2>4. client.seen.confirmationStatus \in Commitments \cup {unset}
    BY <2>2 DEF Statuses
  <2>5. /\ client.seen.confirmationStatus \in {"confirmed", "finalized"}
        /\ order[client.seen.confirmationStatus] >= order[client.target]
    BY <2>3, <2>4, Levels DEF Reached, current, unset
  <2>6. /\ chain[client.tx].level # "unseen"
        /\ order[chain[client.tx].level] >= order[client.seen.confirmationStatus]
        /\ chain[client.tx].err = client.seen.err
    BY <1>1, <2>2, <2>5 DEF TransportInv, StatusesAreTrue, StillTrue
  <2>7. chain[client.tx].level \in Commitments
    BY <2>1, <2>6 DEF Clients, Ledger
  <2> QED
    BY <2>3, <2>5, <2>6, <2>7, Levels
<1> QED
  BY <1>1, TransportInductive, PTL

\* confirm times out only at its deadline, on a status that decides nothing, and the
\* Python client waits for a transaction nobody has seen until then.
THEOREM ConfirmWaits == Spec => []GivesUpForAReason
<1>1. TransportInv => GivesUpForAReason
  BY DEF TransportInv, GivesUpForAReason
<1> QED
  BY <1>1, TransportInductive, PTL
=============================================================================
