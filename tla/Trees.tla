------------------------------- MODULE Trees --------------------------------
(***************************************************************************)
(* The closure trees and the proofs that walk them: from an entry's leaf   *)
(* to its segment root, from there to the position root landed on chain.   *)
(*                                                                         *)
(* A committer builds one position with the library's own functions and    *)
(* publishes its root.  A prover then presents an attestation of one       *)
(* output: the committed one, one meant for other coordinates, one taken   *)
(* from another position, or one with a part exchanged, the row of a wrong *)
(* value made to fit it.  The verifier knows the coordinates and the root; *)
(* the document, the index and the table root it may leave unsaid.         *)
(*                                                                         *)
(* SHA-256 is taken as injective: a digest is the record of what it        *)
(* covers.  The byte layouts of proofs and leaves are records, the rows of *)
(* a leaf whole ones, and a value has the one width of the run binding.    *)
(***************************************************************************)
EXTENDS Integers, FiniteSets, Sequences

CONSTANTS
  Descriptors,  \* documents, the committer's one among them
  DOCUMENT,     \* the committer's document
  Values,       \* output values
  Digests,      \* 32-byte strings that are the digest of nothing in the tree
  MaxPlaces,    \* bound: regions and offsets an entry writes to
  MaxSegments,  \* bound: segments of a position, at most MAX_SEGMENTS in the code
  MaxEntries    \* bound: entries of a segment

ASSUME TreesAssumption ==
  /\ DOCUMENT \in Descriptors
  /\ MaxPlaces \in Nat \ {0}
  /\ MaxSegments \in Nat \ {0}
  /\ MaxEntries \in Nat \ {0}

VARIABLES
  committed,  \* the position: its segments of entries, and its root
  target,     \* the output the verifier asks for, and how the committer proves it
  presented,  \* the attestation the prover answers with
  expected,   \* what the verifier gave of the options it may leave out
  verdict     \* what verifyAttestation made of it

vars == <<committed, target, presented, expected, verdict>>

POSITION == 3  \* the position committed to
INDEX    == 0  \* the output written there
TABLE    == [table |-> "segment roots of the plan"]

\* expectedDescriptor, expectedIndex and expectedTableRoot, which a verifier that
\* gives them gives as committed.
Optional == {"descriptor", "index", "tableRoot"}

\* Regions and offsets, in the order an entry's rows name them.
Places == 1..MaxPlaces

-----------------------------------------------------------------------------
(* Trees in which a node without a sibling is paired with itself           *)

LeafNode(value, index) == [digest |-> value, first |-> index, last |-> index + 1]

\* Mutant: the digest of a node does not cover the range it stands for.
node_NoRange(descriptor, kind, scope, height, left, right) ==
  [digest |-> [over  |-> <<descriptor, kind, scope, height>>,
               left |-> left.digest, right |-> right.digest],
   first |-> left.first, last |-> right.last]

node(descriptor, kind, scope, height, left, right) ==
  [digest |-> [over  |-> <<descriptor, kind, scope, left.first, right.last, height>>,
               left |-> left.digest, right |-> right.digest],
   first |-> left.first, last |-> right.last]

\* The nodes over a level that is the h-th from the leaves.
LevelAbove(descriptor, kind, scope, h, below) ==
  [i \in 1..((Len(below) + 1) \div 2) |->
     node(descriptor, kind, scope, h, below[2 * i - 1],
          below[IF 2 * i <= Len(below) THEN 2 * i ELSE 2 * i - 1])]

\* A list may not be empty.  The loop ends with the first level of one node.
duplicateLevels(descriptor, kind, scope, values) ==
  LET levels[h \in Nat] ==
        IF h = 0 THEN <<[i \in 1..Len(values) |-> LeafNode(values[i], i - 1)]>>
        ELSE LET built == levels[h - 1]
             IN  IF Len(built[Len(built)]) = 1 THEN built
                 ELSE Append(built, LevelAbove(descriptor, kind, scope, h, built[Len(built)]))
  IN  levels[Len(values)]

TopDigest(levels) == levels[Len(levels)][1].digest

\* The neighbour a node is paired with, current ^ 1 in the code.
SiblingOf(index) == IF index % 2 = 0 THEN index + 1 ELSE index - 1

duplicatePath(levels, index) ==
  LET current[h \in 1..Len(levels)] == IF h = 1 THEN index ELSE current[h - 1] \div 2
      Beside(h) == IF SiblingOf(current[h]) < Len(levels[h]) THEN SiblingOf(current[h])
                                                             ELSE current[h]
  IN  [h \in 1..(Len(levels) - 1) |-> levels[h][Beside(h) + 1].digest]

\* The number of binary digits.
bitLength[value \in Nat] == IF value = 0 THEN 0 ELSE 1 + bitLength[value \div 2]

null == [nothing |-> TRUE]

Least(a, b) == IF a < b THEN a ELSE b

\* Where a fold stands: its node, the node's index in its level, the width of the
\* level and the leaves a node of it spans.
FoldState(at, index, width, span) ==
  [node |-> at, index |-> index, width |-> width, span |-> span]

\* One round of the loop, which pairs a node with the next digest of a path over
\* count leaves; null once a pair was refused.
Climb(descriptor, kind, scope, count, h, below, digest) ==
  LET beside  == SiblingOf(below.index)
      alone   == beside >= below.width
      sibling == IF alone THEN below.node
                 ELSE [digest |-> digest, first |-> beside * below.span,
                       last |-> Least((beside + 1) * below.span, count)]
      above   == IF below.index % 2 = 0
                   THEN node(descriptor, kind, scope, h, below.node, sibling)
                   ELSE node(descriptor, kind, scope, h, sibling, below.node)
  IN  IF below = null THEN null
      ELSE IF alone /\ digest # below.node.digest THEN null
      ELSE FoldState(above, below.index \div 2, (below.width + 1) \div 2, 2 * below.span)

\* Mutant: the length of the path is not compared with the height of the tree.
duplicateFold_AnyLength(descriptor, kind, scope, count, index, value, path) ==
  LET current[h \in 0..Len(path)] ==
        IF h = 0 THEN FoldState(LeafNode(value, index), index, count, 1)
        ELSE LET below == current[h - 1]
             IN  IF h > bitLength[count - 1] THEN below
                 ELSE Climb(descriptor, kind, scope, count, h, below, path[h])
      top == current[Len(path)]
  IN  IF index >= count \/ top = null THEN null ELSE top.node.digest

duplicateFold(descriptor, kind, scope, count, index, value, path) ==
  LET current[h \in 0..Len(path)] ==
        IF h = 0 THEN FoldState(LeafNode(value, index), index, count, 1)
        ELSE Climb(descriptor, kind, scope, count, h, current[h - 1], path[h])
      top == current[Len(path)]
  IN  IF index >= count \/ Len(path) # bitLength[count - 1] \/ top = null
        THEN null ELSE top.node.digest

-----------------------------------------------------------------------------
(* Roots                                                                   *)

SEGMENT_TREE  == 1  \* kind of the tree over a segment's entries
POSITION_TREE == 2  \* kind of the tree over a position's segments

PositionDigest(descriptor, position, segmentCount, tableRoot, tree) ==
  [position |-> <<descriptor, position, segmentCount>>, table |-> tableRoot, tree |-> tree]

positionRoot(descriptor, position, tableRoot, segmentRoots) ==
  PositionDigest(descriptor, position, Len(segmentRoots), tableRoot,
                 TopDigest(duplicateLevels(descriptor, POSITION_TREE, position, segmentRoots)))

SegmentDigest(descriptor, position, segment, entries, top) ==
  [segment |-> <<descriptor, position, segment, entries>>, top |-> top]

\* A copy of duplicateFold, with leafParent in the place of node.
segmentRootFromLeaf(descriptor, position, segment, entries, local, leafDigest, path) ==
  LET top == duplicateFold(descriptor, SEGMENT_TREE, position, entries, local, leafDigest, path)
  IN  IF top = null THEN null ELSE SegmentDigest(descriptor, position, segment, entries, top)

-----------------------------------------------------------------------------
(* Leaves and attestations                                                 *)

WriteDigest(descriptor, position, segment, local, place, value) ==
  [write |-> <<descriptor, position, segment, local, place>>, value |-> value]

Row(place, digest) == [place |-> place, digest |-> digest]

\* A leaf after its coordinates: what no verifier looks into, the number of its
\* write rows, the reserved bytes, and the rows.
LeafTail(head, writeCount, reserved, rows) ==
  [head |-> head, writeCount |-> writeCount, reserved |-> reserved, rows |-> rows]

\* Mutant: the digest of a leaf does not cover its rows.
LeafDigest_NoRows(descriptor, position, segment, local, leaf) ==
  [leaf |-> <<descriptor, position, segment, local>>,
   tail |-> [leaf EXCEPT !.writeCount = 0, !.rows = <<>>]]

LeafDigest(descriptor, position, segment, local, leaf) ==
  [leaf |-> <<descriptor, position, segment, local>>, tail |-> leaf]

\* The position root covers the table root of the proof, expected or not.
verifySpp1(descriptor, position, segmentCount, segmentRoot, spp1, landedRoot, given) ==
  LET folded == duplicateFold(descriptor, POSITION_TREE, position, segmentCount,
                              spp1.ordinal, segmentRoot, spp1.path)
  IN  /\ "tableRoot" \in given => spp1.tableRoot = TABLE
      /\ spp1.ordinal < segmentCount
      /\ folded # null
      /\ PositionDigest(descriptor, position, segmentCount, spp1.tableRoot, folded) = landedRoot

\* What encodeAttestation writes and decodeAttestation reads back: of the leaf
\* only the part after its coordinates, which the verifier fills in itself.
Attestation(descriptor, index, value, leaf, path, spp1) ==
  [descriptor |-> descriptor, index |-> index, value |-> value,
   leaf |-> leaf, path |-> path, spp1 |-> spp1]

Spp1(ordinal, tableRoot, path) == [ordinal |-> ordinal, tableRoot |-> tableRoot, path |-> path]

HasRow(rows, row) == \E i \in DOMAIN rows : rows[i] = row

\* options: the coordinates, the dimensions and the landed root the verifier holds,
\* and which of the optional ones it gave.  No digest covers the index.
verifyAttestation(a, options) ==
  LET output == WriteDigest(a.descriptor, POSITION, options.segment, options.local,
                            options.place, a.value)
      leaf   == LeafDigest(a.descriptor, POSITION, options.segment, options.local, a.leaf)
      root   == segmentRootFromLeaf(a.descriptor, POSITION, options.segment, options.entries,
                                    options.local, leaf, a.path)
  IN  /\ "descriptor" \in options.given => a.descriptor = DOCUMENT
      /\ "index" \in options.given => a.index = INDEX
      /\ a.leaf.reserved = 0
      /\ a.leaf.writeCount = Len(a.leaf.rows)
      /\ HasRow(a.leaf.rows, Row(options.place, output))
      /\ root # null
      /\ verifySpp1(a.descriptor, POSITION, options.segmentCount, root, a.spp1,
                    options.landedRoot, options.given)

-----------------------------------------------------------------------------
(* The committer                                                           *)

HEAD == [read |-> "by the entry"]

\* The leaf of an entry in the position whose segments hold these entries.
EntryLeaf(segments, s, l) ==
  LET entry == segments[s + 1][l + 1]
  IN  LeafTail(HEAD, MaxPlaces, 0,
        [p \in Places |-> Row(p, WriteDigest(DOCUMENT, POSITION, s, l, p, entry[p]))])

EntryLevels(segments, s) ==
  duplicateLevels(DOCUMENT, SEGMENT_TREE, POSITION,
    [i \in 1..Len(segments[s + 1]) |->
       LeafDigest(DOCUMENT, POSITION, s, i - 1, EntryLeaf(segments, s, i - 1))])

SegmentRoots(segments) ==
  [i \in 1..Len(segments) |->
     SegmentDigest(DOCUMENT, POSITION, i - 1, Len(segments[i]),
                   TopDigest(EntryLevels(segments, i - 1)))]

\* The attestation the committer's functions make of one output.
Honest(segments, at) ==
  Attestation(DOCUMENT, INDEX, segments[at.segment + 1][at.local + 1][at.place],
    EntryLeaf(segments, at.segment, at.local),
    duplicatePath(EntryLevels(segments, at.segment), at.local),
    Spp1(at.segment, TABLE,
         duplicatePath(duplicateLevels(DOCUMENT, POSITION_TREE, POSITION, SegmentRoots(segments)),
                       at.segment)))

\* Entries that write a different value to each place.
Entries == {e \in [Places -> Values] : \A p, q \in Places : p # q => e[p] # e[q]}

\* Positions of every size, in which all entries but the first or the last write
\* the same values.
Positions ==
  UNION {{[s \in 1..m |-> [l \in 1..n |-> IF <<s, l>> = odd THEN two[1] ELSE two[2]]] :
            odd \in {<<1, 1>>, <<m, n>>},
            two \in {pair \in Entries \X Entries : pair[1] # pair[2]}} :
         m \in 1..MaxSegments, n \in 1..MaxEntries}

Coordinates(segments) ==
  [segment : 0..(Len(segments) - 1), local : 0..(Len(segments[1]) - 1), place : Places]

Init ==
  \E segments \in Positions : \E at \in Coordinates(segments) :
    /\ committed = [segments |-> segments,
                    root |-> positionRoot(DOCUMENT, POSITION, TABLE, SegmentRoots(segments))]
    /\ target = [at |-> at, proof |-> Honest(segments, at)]
    /\ presented = null
    /\ expected = {}
    /\ verdict = "none"

-----------------------------------------------------------------------------
(* The prover and the verifier                                             *)

Replaced(path) == {[path EXCEPT ![i] = d] : i \in DOMAIN path, d \in Digests}
Resized(path)  == {Append(path, d) : d \in Digests}
                    \cup IF path = <<>> THEN {} ELSE {Tail(path)}

\* The leaf with one thing changed that the entry did not write.
Altered(leaf) ==
  {[leaf EXCEPT !.head = d] : d \in Digests}
  \cup {[leaf EXCEPT !.writeCount = @ + 1], [leaf EXCEPT !.reserved = 1]}
  \cup {[leaf EXCEPT !.rows[i].digest = d] : i \in DOMAIN leaf.rows, d \in Digests}
  \cup {[leaf EXCEPT !.rows[i] = leaf.rows[1]] : i \in DOMAIN leaf.rows}

\* The leaf with the row of another value, in the place of the right one or beside it.
Fitted(leaf, place, row) ==
  {[leaf EXCEPT !.rows[place] = row],
   [leaf EXCEPT !.rows = Append(@, row), !.writeCount = @ + 1]}

\* The row that would prove the value v at these coordinates.
RowFor(at, v) == Row(at.place, WriteDigest(DOCUMENT, POSITION, at.segment, at.local, at.place, v))

\* The attestation a of the output there with a value and a leaf that agree on it.
Refitted(a, at) ==
  UNION {{[a EXCEPT !.value = v, !.leaf = leaf] :
            leaf \in Fitted(a.leaf, at.place, RowFor(at, v))} : v \in Values}

\* That attestation with one part exchanged, or with two that agree.
Exchanged(a, at) ==
  {[a EXCEPT !.descriptor = d] : d \in Descriptors}
  \cup {[a EXCEPT !.index = @ + 1]}
  \cup {[a EXCEPT !.value = v] : v \in Values}
  \cup {[a EXCEPT !.leaf = leaf] : leaf \in Altered(a.leaf)}
  \cup Refitted(a, at)
  \cup {[a EXCEPT !.path = p] : p \in Replaced(a.path) \cup Resized(a.path)}
  \cup {[a EXCEPT !.spp1.path = p] : p \in Replaced(a.spp1.path) \cup Resized(a.spp1.path)}
  \cup {[a EXCEPT !.spp1.ordinal = o] : o \in 0..MaxSegments}
  \cup {[a EXCEPT !.spp1.tableRoot = d] : d \in Digests}

Present(a, given) ==
  /\ presented' = a
  /\ expected' = given
  /\ verdict' = IF verifyAttestation(a,
                     [segmentCount |-> Len(committed.segments),
                      entries |-> Len(committed.segments[1]),
                      segment |-> target.at.segment, local |-> target.at.local,
                      place |-> target.at.place, landedRoot |-> committed.root,
                      given |-> given])
                  THEN "accepted" ELSE "refused"
  /\ UNCHANGED <<committed, target>>

SameSize(segments, others) ==
  Len(segments) = Len(others) /\ Len(segments[1]) = Len(others[1])

\* Attestations made for other coordinates, made of another position, or with a part
\* exchanged.
Offered ==
  {Honest(committed.segments, at) : at \in Coordinates(committed.segments)}
  \cup {Honest(others, target.at) :
          others \in {p \in Positions : SameSize(committed.segments, p)}}
  \cup Exchanged(target.proof, target.at)

\* One attestation is looked at.
Next ==
  /\ verdict = "none"
  /\ \E a \in Offered, given \in SUBSET Optional : Present(a, given)

Spec == Init /\ [][Next]_vars

-----------------------------------------------------------------------------
(* Properties                                                              *)

\* An output is accepted exactly when it is proven the committed way: every
\* attestation the committer makes passes at its own coordinates, for trees of
\* every shape and whatever options the verifier leaves out; one made for other
\* coordinates or of another position, with another value and a leaf to fit it, or
\* with any digest exchanged does not; and no output has a second proof.  Only the
\* index is the prover's to choose, unless the verifier expects one.
AcceptedIffCommitted ==
  verdict # "none" =>
    (verdict = "accepted" <=> /\ presented = [target.proof EXCEPT !.index = presented.index]
                              /\ "index" \in expected => presented.index = INDEX)

\* Lists of different leaves or of different length have different roots,
\* although a list of odd length is folded as if its last leaf came twice.
RootBindsLeaves ==
  verdict = "none" =>
    LET lists == UNION {[1..n -> Digests] : n \in 1..Len(committed.segments[1])}
    IN  Cardinality({TopDigest(duplicateLevels(DOCUMENT, SEGMENT_TREE, POSITION, list)) :
                       list \in lists})
          = Cardinality(lists)
=============================================================================
