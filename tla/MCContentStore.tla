--------------------------- MODULE MCContentStore ---------------------------
(***************************************************************************)
(* Instances of ContentStore for TLC.                                      *)
(***************************************************************************)
EXTENDS ContentStore

CONSTANTS c1, c2, c3, c4

FourNames == {c1, c2, c3, c4}
Symmetry == Permutations(FourNames)

\* No limit, and limits below, at and above what the store holds.
SomeSizes == {0, 1, 2, 3}
=============================================================================
