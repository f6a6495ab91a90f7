------------------------------ MODULE MCTrees -------------------------------
(***************************************************************************)
(* A small instance of the trees for TLC: up to three segments of up to    *)
(* five entries, so that nodes are paired with themselves at the first, at *)
(* a middle and at no level, in both trees.  The two values are alike, and *)
(* so are the two digests that are in no tree.                             *)
(***************************************************************************)
EXTENDS Trees, TLC

CONSTANTS d1, d2, v1, v2, x, y

Alike == Permutations({v1, v2}) \cup Permutations({x, y})
=============================================================================
