----------------------------- MODULE Transport ------------------------------
(***************************************************************************)
(* Sending a signed transaction and waiting for its confirmation through   *)
(* the JSON-RPC client, over an endpoint that may fail a call before or    *)
(* after it acted on it, in front of a chain that may take back what is    *)
(* not yet confirmed.                                                      *)
(*                                                                         *)
(* A client makes one call at a time: a call is asked, answered (or its    *)
(* failure noticed) and then received, and the chain and the clock go on   *)
(* between any two of these steps.  The caller may send the same bytes     *)
(* again, and confirm at any time what it has sent.                        *)
(*                                                                         *)
(* The two libraries differ in which errors a send retries and in what     *)
(* confirm does with the status of a transaction not seen yet.             *)
(***************************************************************************)
EXTENDS Naturals

CONSTANTS
  SDKs,          \* the libraries that may run: "typescript", "python"
  Transactions,  \* signed transactions
  MaxRetries,    \* the maxRetries option of a send
  Timeout,       \* the timeout option of confirm, in ticks
  MaxTime        \* bound: the clock stops here

ASSUME TransportAssumption ==
  /\ SDKs \subseteq {"typescript", "python"}
  /\ MaxRetries \in Nat
  /\ Timeout \in Nat
  /\ MaxTime \in Nat

VARIABLES
  chain,   \* what the endpoint knows of each transaction
  wire,    \* the call under way
  client,  \* the client's position in sendRawTransaction or confirm
  now      \* the clock confirm reads

vars == <<chain, wire, client, now>>

-----------------------------------------------------------------------------

order == [processed |-> 0, confirmed |-> 1, finalized |-> 2]
Commitments == DOMAIN order

unset == "unset"
Statuses == [confirmationStatus : Commitments \cup {unset}, err : BOOLEAN]

null == [nothing |-> TRUE]

\* How a call can end, besides with a status.
Signature    == [kind |-> "signature"]
RpcError     == [kind |-> "rpcError"]
NetworkError == [kind |-> "networkError"]
StatusAnswer(value) == [kind |-> "status", value |-> value]

Quiet == [kind |-> "quiet"]
Asked == [kind |-> "asked"]

Ledger == [accepted : BOOLEAN, level : Commitments \cup {"unseen"}, err : BOOLEAN]

Outcomes == {"none", "receipt", "sendFailed", "returned", "timedOut", "threw", "callFailed"}

Clients ==
  [sdk : SDKs,
   pc : {"idle", "sending", "polling", "sleeping"},
   tx : Transactions,
   attempt : 0..MaxRetries,
   target : Commitments,
   deadline : 0..MaxTime,
   seen : Statuses \cup {null},
   outcome : Outcomes]

Init ==
  /\ chain = [t \in Transactions |-> [accepted |-> FALSE, level |-> "unseen", err |-> FALSE]]
  /\ wire = Quiet
  /\ client \in [sdk : SDKs, pc : {"idle"}, tx : Transactions, attempt : {0},
                 target : {"confirmed"}, deadline : {0}, seen : {null}, outcome : {"none"}]
  /\ now = 0

-----------------------------------------------------------------------------
(* The chain and the clock                                                 *)

Tick ==
  /\ now < MaxTime
  /\ now' = now + 1
  /\ UNCHANGED <<chain, wire, client>>

\* An accepted transaction executes once, and may fail.
Execute(t) ==
  /\ chain[t].accepted
  /\ chain[t].level = "unseen"
  /\ \E err \in BOOLEAN : chain' = [chain EXCEPT ![t].level = "processed", ![t].err = err]
  /\ UNCHANGED <<wire, client, now>>

Deepen(t) ==
  /\ \/ chain[t].level = "processed" /\ chain' = [chain EXCEPT ![t].level = "confirmed"]
     \/ chain[t].level = "confirmed" /\ chain' = [chain EXCEPT ![t].level = "finalized"]
  /\ UNCHANGED <<wire, client, now>>

\* A fork takes back what is only processed; it may be executed again.
Fork(t) ==
  /\ chain[t].level = "processed"
  /\ chain' = [chain EXCEPT ![t].level = "unseen", ![t].err = FALSE]
  /\ UNCHANGED <<wire, client, now>>

\* The blockhash of an accepted transaction expires before it is executed.
Expire(t) ==
  /\ chain[t].accepted
  /\ chain[t].level = "unseen"
  /\ chain' = [chain EXCEPT ![t].accepted = FALSE]
  /\ UNCHANGED <<wire, client, now>>

-----------------------------------------------------------------------------
(* A call                                                                  *)

Post ==
  /\ client.pc \in {"sending", "polling"}
  /\ wire = Quiet
  /\ wire' = Asked
  /\ UNCHANGED <<chain, client, now>>

\* A transaction is taken, and the answer comes back, is an error all the same or
\* is lost; or it is not taken: refused by preflight, or known already, or never
\* reached the endpoint.
AnswerSend ==
  /\ client.pc = "sending"
  /\ wire = Asked
  /\ \/ /\ chain' = [chain EXCEPT ![client.tx].accepted = TRUE]
        /\ wire' \in {Signature, RpcError, NetworkError}
     \/ /\ wire' \in {RpcError, NetworkError}
        /\ UNCHANGED chain
  /\ UNCHANGED <<client, now>>

\* The endpoint reports null for a transaction it has not seen, and may leave
\* the confirmation status out.
AnswerStatus ==
  LET known == chain[client.tx]
  IN  /\ client.pc = "polling"
      /\ wire = Asked
      /\ \/ wire' \in {RpcError, NetworkError}
         \/ known.level = "unseen" /\ wire' = StatusAnswer(null)
         \/ /\ known.level # "unseen"
            /\ \E level \in {known.level, unset} :
                 wire' = StatusAnswer([confirmationStatus |-> level, err |-> known.err])
      /\ UNCHANGED <<chain, client, now>>

-----------------------------------------------------------------------------
(* sendRawTransaction                                                      *)

Send(t) ==
  /\ client.pc = "idle"
  /\ client' = [client EXCEPT !.pc = "sending", !.tx = t, !.attempt = 0,
                              !.seen = null, !.outcome = "none"]
  /\ UNCHANGED <<chain, wire, now>>

\* TypeScript retries after any error, Python only after a JSON-RPC error.
Retried(error) == client.sdk = "typescript" \/ error = RpcError

\* Mutant: one attempt too many.
ReceiveSend_OneMore ==
  /\ client.pc = "sending"
  /\ wire \notin {Quiet, Asked}
  /\ wire' = Quiet
  /\ client' =
       IF wire = Signature THEN [client EXCEPT !.pc = "idle", !.outcome = "receipt"]
       ELSE IF client.attempt <= MaxRetries /\ Retried(wire)
         THEN [client EXCEPT !.attempt = @ + 1]
         ELSE [client EXCEPT !.pc = "idle", !.outcome = "sendFailed"]
  /\ UNCHANGED <<chain, now>>

ReceiveSend ==
  /\ client.pc = "sending"
  /\ wire \notin {Quiet, Asked}
  /\ wire' = Quiet
  /\ client' =
       IF wire = Signature THEN [client EXCEPT !.pc = "idle", !.outcome = "receipt"]
       ELSE IF client.attempt < MaxRetries /\ Retried(wire)
         THEN [client EXCEPT !.attempt = @ + 1]
         ELSE [client EXCEPT !.pc = "idle", !.outcome = "sendFailed"]
  /\ UNCHANGED <<chain, now>>

-----------------------------------------------------------------------------
(* confirm                                                                 *)

\* Bound: the deadline falls before the clock stops.
Confirm(target) ==
  /\ client.pc = "idle"
  /\ now + Timeout <= MaxTime
  /\ client' = [client EXCEPT !.pc = "polling", !.target = target, !.deadline = now + Timeout,
                              !.seen = null, !.outcome = "none"]
  /\ UNCHANGED <<chain, wire, now>>

\* Mutant: a status without a level counts as confirmed.
current_Confirmed(value) ==
  IF value.confirmationStatus = unset THEN "confirmed" ELSE value.confirmationStatus

current(value) ==
  IF value.confirmationStatus = unset THEN "processed" ELSE value.confirmationStatus

Reached(value, target) == order[current(value)] >= order[target]

\* A status ends the wait: it is deep enough, or the transaction failed.
Decisive(value, target) == value # null /\ (Reached(value, target) \/ value.err)

\* Mutant: a status of null is read like any other.
Throws_OnNull(value) == value = null

\* TypeScript tests a status for undefined only and reads a field of null.
Throws(value) == client.sdk = "typescript" /\ value = null

Return(value, outcome) ==
  client' = [client EXCEPT !.pc = "idle", !.seen = value, !.outcome = outcome]

Sleep(value) == client' = [client EXCEPT !.pc = "sleeping", !.seen = value]

\* Mutant: the deadline is looked at before the status.
ReceiveStatus_DeadlineFirst ==
  /\ client.pc = "polling"
  /\ wire.kind = "status"
  /\ wire' = Quiet
  /\ LET value == wire.value
     IN  \/ Throws(value) /\ Return(value, "threw")
         \/ now >= client.deadline /\ ~ Throws(value) /\ Return(value, "timedOut")
         \/ /\ now < client.deadline
            /\ Decisive(value, client.target)
            /\ Return(value, "returned")
         \/ /\ ~ Throws(value)
            /\ ~ Decisive(value, client.target)
            /\ now < client.deadline
            /\ Sleep(value)
  /\ UNCHANGED <<chain, now>>

\* Mutant: an undecided status goes back to sleep before the clock is read.
ReceiveStatus_SleepFirst ==
  /\ client.pc = "polling"
  /\ wire.kind = "status"
  /\ wire' = Quiet
  /\ LET value == wire.value
     IN  \/ Throws(value) /\ Return(value, "threw")
         \/ Decisive(value, client.target) /\ Return(value, "returned")
         \/ ~ Throws(value) /\ ~ Decisive(value, client.target) /\ Sleep(value)
  /\ UNCHANGED <<chain, now>>

ReceiveStatus ==
  /\ client.pc = "polling"
  /\ wire.kind = "status"
  /\ wire' = Quiet
  /\ LET value == wire.value
     IN  \/ Throws(value) /\ Return(value, "threw")
         \/ Decisive(value, client.target) /\ Return(value, "returned")
         \/ /\ ~ Throws(value)
            /\ ~ Decisive(value, client.target)
            /\ IF now >= client.deadline THEN Return(value, "timedOut") ELSE Sleep(value)
  /\ UNCHANGED <<chain, now>>

\* confirm does not catch what a call throws.
ReceiveStatusError ==
  /\ client.pc = "polling"
  /\ wire \in {RpcError, NetworkError}
  /\ wire' = Quiet
  /\ Return(client.seen, "callFailed")
  /\ UNCHANGED <<chain, now>>

Wake ==
  /\ client.pc = "sleeping"
  /\ client' = [client EXCEPT !.pc = "polling"]
  /\ UNCHANGED <<chain, wire, now>>

-----------------------------------------------------------------------------

ChainStep(t) == Execute(t) \/ Deepen(t) \/ Fork(t) \/ Expire(t)

Answer == AnswerSend \/ AnswerStatus

Continue == Post \/ ReceiveSend \/ ReceiveStatus \/ ReceiveStatusError \/ Wake

Next ==
  \/ Tick
  \/ \E t \in Transactions : ChainStep(t) \/ Send(t)
  \/ \E target \in Commitments : Confirm(target)
  \/ Answer
  \/ Continue

Spec == Init /\ [][Next]_vars

\* The client's loop runs on, time passes, and a call ends: with an answer, or
\* when the timeout of the HTTP client cuts it off.  Nothing is assumed of the
\* chain: a transaction may stay unseen for ever.
FairSpec == Spec /\ WF_vars(Continue) /\ WF_vars(Answer) /\ WF_vars(Tick)

-----------------------------------------------------------------------------
(* Properties                                                              *)

Answers == {Quiet, Asked, Signature, RpcError, NetworkError}
             \cup {StatusAnswer(value) : value \in Statuses \cup {null}}

\* Types: a client never attempts more often than it was asked to.
TypeOK ==
  /\ chain \in [Transactions -> Ledger]
  /\ wire \in Answers
  /\ client \in Clients
  /\ now \in 0..MaxTime

\* A confirmation is true and stays true: when confirm returned a status at the
\* commitment asked for, beyond what a fork can take back, the chain holds the
\* transaction at that commitment with the very outcome reported, whatever
\* happened on the chain between the answer and its reading.
ConfirmationIsTrue ==
  /\ client.outcome = "returned"
  /\ client.target # "processed"
  /\ Reached(client.seen, client.target)
  => /\ chain[client.tx].level # "unseen"
     /\ order[chain[client.tx].level] >= order[client.target]
     /\ chain[client.tx].err = client.seen.err

\* A late answer is not thrown away: confirm times out only when the last status
\* it read decides nothing.
TimeoutIsUndecided ==
  client.outcome = "timedOut" =>
    /\ now >= client.deadline
    /\ ~ Decisive(client.seen, client.target)

\* A transaction the endpoint has not seen yet is waited for: as long as calls
\* succeed, confirm gives up at the deadline and not before.
UnseenIsWaitedFor == client.outcome \in {"timedOut", "threw"} => now >= client.deadline

\* The Python client does that; the TypeScript one throws.
PythonWaitsForUnseen == client.sdk = "python" => UnseenIsWaitedFor

\* confirm gives up for a reason: it times out at its deadline on a status that
\* decides nothing, and in Python there is no other way for it to end early, a
\* transaction nobody has seen included.
GivesUpForAReason == TimeoutIsUndecided /\ PythonWaitsForUnseen

\* Every send and every confirm ends, whatever the chain does.
EveryCallEnds == client.pc # "idle" ~> client.pc = "idle"

-----------------------------------------------------------------------------
(* The inductive invariant behind the safety properties                    *)

\* One call at a time, and no verdict while a call of the library runs.
CallDiscipline ==
  /\ client.pc # "idle" => client.outcome = "none"
  /\ client.pc \in {"idle", "sleeping"} => wire = Quiet
  /\ wire.kind = "status" => client.pc = "polling"

\* A status that names a level no fork takes back is still true of the chain,
\* under way or read.
StillTrue(value) ==
  value # null /\ value.confirmationStatus \in {"confirmed", "finalized"} =>
    /\ chain[client.tx].level # "unseen"
    /\ order[chain[client.tx].level] >= order[value.confirmationStatus]
    /\ chain[client.tx].err = value.err

StatusesAreTrue ==
  /\ wire.kind = "status" => StillTrue(wire.value)
  /\ StillTrue(client.seen)

TransportInv ==
  /\ TypeOK
  /\ CallDiscipline
  /\ StatusesAreTrue
  /\ client.outcome = "returned" => client.seen # null
  /\ TimeoutIsUndecided
  /\ PythonWaitsForUnseen
=============================================================================
