------------------------------ MODULE Landing -------------------------------
(***************************************************************************)
(* Landing position roots, as the SDK replays it on its own copy of a      *)
(* document: the header object Dcm2V6 with its Merkle mountain range, and  *)
(* the table DPR2 of landed roots.                                         *)
(*                                                                         *)
(* The library exists twice, and the two replays of LandPositionRoots      *)
(* differ: the Python one looks at every root of the batch before it       *)
(* changes anything, the TypeScript one looks at each root as it lands it. *)
(* A call that throws leaves the objects as they are at that moment.       *)
(*                                                                         *)
(* SHA-256 is taken as injective: a peak's digest is the sequence of the   *)
(* roots below it, the prefix root the count and the peaks it is made of.  *)
(***************************************************************************)
EXTENDS Integers, SequencesExt

CONSTANTS
  SDKs,           \* the libraries that may replay: "typescript", "python"
  PositionCount,  \* P
  PositionRoots,  \* nonzero 32-byte roots
  ZERO,           \* the root of 32 zero bytes
  MaxBatch,       \* most roots in a call, 255 in the code
  PEAK_SLOTS,     \* peaks the header has room for, 32 in the code
  COUNT_MAX       \* the count that may not be passed, 2^32 - 1 in the code

\* A peak of a level stands for 1 << level positions.
pow2[level \in Nat] == IF level = 0 THEN 1 ELSE 2 * pow2[level - 1]

null == "null"

ASSUME LandingAssumption ==
  /\ SDKs \subseteq {"typescript", "python"}
  /\ PositionCount \in 1..COUNT_MAX
  /\ COUNT_MAX \in Nat
  /\ {ZERO, null} \cap PositionRoots = {}
  /\ MaxBatch \in Nat \ {0}
  /\ PEAK_SLOTS \in Nat
  /\ COUNT_MAX < pow2[PEAK_SLOTS]

VARIABLES
  sdk,       \* the library that replays
  document,  \* the fields of Dcm2V6 that landing reads or writes
  dpr2,      \* position -> its landed root, or null
  accepted,  \* the roots of the calls that returned, in order
  outcome    \* how the last call ended

vars == <<sdk, document, dpr2, accepted, outcome>>

Positions == 0..(PositionCount - 1)

-----------------------------------------------------------------------------
(* The Merkle mountain range                                               *)

Peaks == [first : Positions, level : Nat, digest : Seq(PositionRoots)]

NoRoot == [count |-> 0, peaks |-> <<>>]

\* How many peaks the new leaf merges with: the last peaks of levels
\* 0, 1, 2 ... from the right.
MergedPeaks(peaks) ==
  CHOOSE m \in 0..Len(peaks) :
    /\ \A i \in 0..(m - 1) : peaks[Len(peaks) - i].level = i
    /\ m < Len(peaks) => peaks[Len(peaks) - m].level # m

\* Each merged peak must end where the range to its right begins.
MergesMeet(count, peaks) ==
  \A i \in 0..(MergedPeaks(peaks) - 1) :
    LET left  == peaks[Len(peaks) - i]
        right == IF i = 0 THEN count ELSE peaks[Len(peaks) - i + 1].first
    IN  left.first + pow2[left.level] = right

\* The peak the new leaf becomes, by the number of peaks it has merged with.
Carries(count, peaks, positionRoot) ==
  LET carry[m \in 0..Len(peaks)] ==
        IF m = 0
          THEN [first |-> count, level |-> 0, digest |-> <<positionRoot>>]
          ELSE LET left == peaks[Len(peaks) - m + 1]
               IN  [first  |-> left.first,
                    level  |-> carry[m - 1].level + 1,
                    digest |-> left.digest \o carry[m - 1].digest]
  IN  carry

\* Mutant: all the merged peaks but one are kept beside the one that replaces them.
mmrAppend_KeepsMerged(count, peaks, positionRoot) ==
  LET merged == MergedPeaks(peaks)
      kept   == SubSeq(peaks, 1, IF merged = 0 THEN Len(peaks) ELSE Len(peaks) - 1)
      out    == Append(kept, Carries(count, peaks, positionRoot)[merged])
  IN  [count |-> count + 1, peaks |-> out, root |-> [count |-> count + 1, peaks |-> out]]

\* Its refusals of a full count and of peaks that do not meet are left out: the
\* first is excluded by LandingAssumption, the second by FrontierMatchesTable.
mmrAppend(count, peaks, positionRoot) ==
  LET merged == MergedPeaks(peaks)
      out    == Append(SubSeq(peaks, 1, Len(peaks) - merged),
                       Carries(count, peaks, positionRoot)[merged])
  IN  [count |-> count + 1, peaks |-> out, root |-> [count |-> count + 1, peaks |-> out]]

-----------------------------------------------------------------------------
(* The document and its table                                              *)

Init ==
  /\ sdk \in SDKs
  /\ document = [final |-> FALSE, positionsComplete |-> 0,
                 peaks |-> <<>>, prefixRoot |-> NoRoot]
  /\ dpr2 = [p \in Positions |-> null]
  /\ accepted = <<>>
  /\ outcome = "none"

appendPosition(doc, positionRoot) ==
  LET appended == mmrAppend(doc.positionsComplete, doc.peaks, positionRoot)
  IN  [doc EXCEPT !.positionsComplete = appended.count,
                  !.peaks = appended.peaks,
                  !.prefixRoot = appended.root]

\* The roots are appended one by one.
Appended(doc, roots) ==
  LET appended[n \in 0..Len(roots)] ==
        IF n = 0 THEN doc ELSE appendPosition(appended[n - 1], roots[n])
  IN  appended[Len(roots)]

\* The first refusal a call meets, in the order of the checks that both
\* libraries make before they look at a root.
Refusal(call) ==
  CASE call.roots = <<>> \/ Len(call.roots) > MaxBatch    -> "CL_MALFORMED"
    [] call.signer # "authority"                          -> "CL_AUTHORITY"
    [] document.final                                     -> "CL_AFTER_FINAL"
    [] call.first # document.positionsComplete            -> "APPEND_ORDER"
    [] call.first + Len(call.roots) > PositionCount       -> "CL_COORDINATE"
    [] OTHER                                              -> "none"

\* The roots are appended to the header and entered in the table.
LandRoots(first, roots) ==
  /\ document' = Appended(document, roots)
  /\ dpr2' = [p \in Positions |->
                IF p \in first..(first + Len(roots) - 1) THEN roots[p - first + 1] ELSE dpr2[p]]

Refuse(code) ==
  /\ outcome' = code
  /\ UNCHANGED <<document, dpr2, accepted>>

Accept(call) ==
  /\ LandRoots(call.first, call.roots)
  /\ accepted' = accepted \o call.roots
  /\ outcome' = "landed"

HasZero(roots) == \E i \in DOMAIN roots : roots[i] = ZERO

\* The roots before the first zero root.
Clean(roots) == SubSeq(roots, 1, SelectInSeq(roots, LAMBDA root : root = ZERO) - 1)

\* Mutant: the roots of a batch are not looked at before they land.
land_position_roots_OneByOne(call) ==
  IF Refusal(call) # "none" THEN Refuse(Refusal(call))
  ELSE IF HasZero(call.roots)
    THEN LandRoots(call.first, Clean(call.roots)) /\ outcome' = "CL_ROOT" /\ UNCHANGED accepted
    ELSE Accept(call)

\* Python: every root is looked at first.
land_position_roots(call) ==
  \/ Refusal(call) # "none" /\ Refuse(Refusal(call))
  \/ Refusal(call) = "none" /\ HasZero(call.roots) /\ Refuse("CL_ROOT")
  \/ Refusal(call) = "none" /\ ~ HasZero(call.roots) /\ Accept(call)

\* TypeScript: the roots before the first zero root have landed when it throws.
landPositionRoots(call) ==
  \/ Refusal(call) # "none" /\ Refuse(Refusal(call))
  \/ /\ Refusal(call) = "none"
     /\ HasZero(call.roots)
     /\ LandRoots(call.first, Clean(call.roots))
     /\ outcome' = "CL_ROOT"
     /\ UNCHANGED accepted
  \/ Refusal(call) = "none" /\ ~ HasZero(call.roots) /\ Accept(call)

\* The owner of the objects sets the final flag once every root is in.
Finalize ==
  /\ document.positionsComplete = PositionCount
  /\ ~ document.final
  /\ document' = [document EXCEPT !.final = TRUE]
  /\ outcome' = "final"
  /\ UNCHANGED <<dpr2, accepted>>

-----------------------------------------------------------------------------

Batches == UNION {[1..n -> PositionRoots \cup {ZERO}] : n \in 0..MaxBatch}

Calls == [signer : {"authority", "other"}, first : 0..PositionCount, roots : Batches]

Land(call) ==
  IF sdk = "python" THEN land_position_roots(call) ELSE landPositionRoots(call)

Next ==
  /\ Finalize \/ \E call \in Calls : Land(call)
  /\ UNCHANGED sdk

Spec == Init /\ [][Next]_vars

-----------------------------------------------------------------------------
(* Properties                                                              *)

Codes == {"CL_MALFORMED", "CL_AUTHORITY", "CL_AFTER_FINAL", "APPEND_ORDER",
          "CL_COORDINATE", "CL_ROOT"}

\* Types: the header and its table have the shape the encoder writes.
TypeOK ==
  /\ sdk \in SDKs
  /\ document.final \in BOOLEAN
  /\ document.positionsComplete \in 0..PositionCount
  /\ \A i \in DOMAIN document.peaks : document.peaks[i] \in Peaks
  /\ Len(document.peaks) <= PEAK_SLOTS
  /\ dpr2 \in [Positions -> PositionRoots \cup {null}]
  /\ outcome \in Codes \cup {"none", "landed", "final"}

\* The header and the table agree: after any sequence of calls, refused ones
\* included, the peaks are the binary digits of the count, from the left and
\* without a gap, they stand for the very roots in the table, and the prefix
\* root commits to them.  No later append can be refused by the range itself.
FrontierMatchesTable ==
  LET peaks == document.peaks
      count == document.positionsComplete
  IN  /\ \A p \in Positions : dpr2[p] # null <=> p < count
      /\ \A i \in DOMAIN peaks :
           /\ Len(peaks[i].digest) = pow2[peaks[i].level]
           /\ i > 1 => peaks[i].level < peaks[i - 1].level
           /\ \A k \in DOMAIN peaks[i].digest :
                peaks[i].digest[k] = dpr2[peaks[i].first + k - 1]
           /\ peaks[i].first + Len(peaks[i].digest)
                = IF i = Len(peaks) THEN count ELSE peaks[i + 1].first
      /\ IF peaks = <<>> THEN count = 0 ELSE peaks[1].first = 0
      /\ MergesMeet(count, peaks)
      /\ document.prefixRoot = [count |-> count, peaks |-> peaks]

\* The Python table holds the roots of the calls that returned, no others,
\* however they were cut into batches.
LandedIsAccepted ==
  sdk = "python" =>
    /\ document.positionsComplete = Len(accepted)
    /\ \A p \in 0..(Len(accepted) - 1) : dpr2[p] = accepted[p + 1]

\* A refusal does not change state, so the caller can send the corrected batch.
RefusalChangesNothing ==
  [][outcome' \in Codes => UNCHANGED <<document, dpr2>>]_vars

\* The Python replay keeps that promise; the TypeScript one does not.
PythonRefusalChangesNothing ==
  [][sdk = "python" /\ outcome' \in Codes => UNCHANGED <<document, dpr2>>]_vars

-----------------------------------------------------------------------------
(* The inductive invariant behind the safety properties                    *)

\* The peaks are a mountain range over the first positions of a table: each is
\* full, ends where the next begins, and its level leaves room for a peak of every
\* level between it and any later one.
IsFrontier(count, peaks, table) ==
  /\ peaks \in Seq(Peaks)
  /\ \A i \in 1..Len(peaks) :
       /\ Len(peaks[i].digest) = pow2[peaks[i].level]
       /\ \A k \in 1..Len(peaks[i].digest) :
            peaks[i].digest[k] = table[peaks[i].first + k - 1]
       /\ peaks[i].first + Len(peaks[i].digest) <= count
       /\ peaks[i].first + Len(peaks[i].digest)
            = IF i = Len(peaks) THEN count ELSE peaks[i + 1].first
  /\ \A i, j \in 1..Len(peaks) : i < j => peaks[i].level >= peaks[j].level + (j - i)
  /\ IF peaks = <<>> THEN count = 0 ELSE peaks[1].first = 0

LandingInv ==
  /\ sdk \in SDKs
  /\ document = [final |-> document.final, positionsComplete |-> document.positionsComplete,
                 peaks |-> document.peaks, prefixRoot |-> document.prefixRoot]
  /\ document.final \in BOOLEAN
  /\ document.positionsComplete \in 0..PositionCount
  /\ IsFrontier(document.positionsComplete, document.peaks, dpr2)
  /\ document.prefixRoot = [count |-> document.positionsComplete, peaks |-> document.peaks]
  /\ dpr2 \in [Positions -> PositionRoots \cup {null}]
  /\ \A p \in Positions : dpr2[p] # null <=> p < document.positionsComplete
  /\ accepted \in Seq(PositionRoots)
  /\ LandedIsAccepted
  /\ outcome \in Codes \cup {"none", "landed", "final"}
=============================================================================
