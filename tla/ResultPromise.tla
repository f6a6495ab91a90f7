--------------------------- MODULE ResultPromise ----------------------------
(***************************************************************************)
(* What the protocol promises to a program that reads results, and nothing *)
(* of how: no clock, no deadlines, no challenge records, no escrow.        *)
(*                                                                         *)
(* A result is pending until it is either accepted or refuted.  A run can  *)
(* lose a dispute only while its result is not accepted; an accepted       *)
(* result is complete and never changes; a closed result is kept until it  *)
(* is retired, and a retired result never comes back.                      *)
(***************************************************************************)
EXTENDS Naturals

CONSTANT Outputs  \* the outputs a complete result proves

VARIABLES
  stage,    \* where the result record is in its life
  closed,   \* whether the document it reports on was closed
  proven,   \* the outputs proven so far
  disputed  \* whether the executor has lost a dispute about the run

promiseVars == <<stage, closed, proven, disputed>>

Stages == {"absent", "pending", "accepted", "refuted", "retired"}

PromiseInit ==
  /\ stage = "absent"
  /\ closed = FALSE
  /\ proven = {}
  /\ disputed = FALSE

Create ==
  /\ stage = "absent"
  /\ stage' = "pending"
  /\ UNCHANGED <<closed, proven, disputed>>

Prove(output) ==
  /\ stage \in {"pending", "refuted"}
  /\ ~ closed
  /\ proven' = proven \cup {output}
  /\ UNCHANGED <<stage, closed, disputed>>

LoseDispute ==
  /\ stage \in {"pending", "refuted"}
  /\ ~ closed
  /\ disputed' = TRUE
  /\ UNCHANGED <<stage, closed, proven>>

\* Accepting and refuting may happen in the step that closes the document.
Accept ==
  /\ stage = "pending"
  /\ ~ closed
  /\ ~ disputed
  /\ proven = Outputs
  /\ stage' = "accepted"
  /\ closed' \in BOOLEAN
  /\ UNCHANGED <<proven, disputed>>

Refute ==
  /\ stage = "pending"
  /\ ~ closed
  /\ disputed
  /\ stage' = "refuted"
  /\ closed' \in BOOLEAN
  /\ UNCHANGED <<proven, disputed>>

\* A result closed while pending was abandoned before any dispute.
Close ==
  /\ stage # "absent"
  /\ ~ closed
  /\ stage = "pending" => ~ disputed
  /\ closed' = TRUE
  /\ UNCHANGED <<stage, proven, disputed>>

Retire ==
  /\ stage \in {"pending", "accepted", "refuted"}
  /\ closed
  /\ stage' = "retired"
  /\ proven' = {}
  /\ UNCHANGED <<closed, disputed>>

PromiseNext ==
  \/ Create
  \/ \E output \in Outputs : Prove(output)
  \/ LoseDispute
  \/ Accept
  \/ Refute
  \/ Close
  \/ Retire

Promise == PromiseInit /\ [][PromiseNext]_promiseVars
=============================================================================
