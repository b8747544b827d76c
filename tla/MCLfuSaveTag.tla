---------------------------- MODULE MCLfuSaveTag ----------------------------
(***************************************************************************)
(* Instances of LfuSaveTag for TLC.                                        *)
(***************************************************************************)
EXTENDS LfuSaveTag

CONSTANTS a1, a2, a3, d1, d2, d3, e1, e2

\* Three names of class 1, three of class 4 and two of class 5: with room for six
\* (quotas 2, 1, 1, 1, 1) every class can be below, at and above its quota when
\* the store is full.
MixedNames == {a1, a2, a3, d1, d2, d3, e1, e2}
MixedTags == [n \in MixedNames |-> IF n \in {a1, a2, a3} THEN 1
                                   ELSE IF n \in {d1, d2, d3} THEN 4 ELSE 5]
MixedSymmetry == Permutations({a1, a2, a3}) \cup Permutations({d1, d2, d3})
                 \cup Permutations({e1, e2})

\* One name of class 1 and one whose Data has no tag, for the runs about the
\* quotas alone.
FewNames == {a1, e1}
FewTags == [n \in FewNames |-> IF n = a1 THEN 1 ELSE NoTag]

SixSlots == {6}
SixFixed == [s \in SixSlots |-> 0]

\* Every small size but the one that hangs, and three usual ones; a store of a
\* hundred slots is also adjusted by up to two slots per class.
UsualSizes == 6 .. 60 \cup {100, 1000, 2500}
TwoInHundred == [s \in UsualSizes |-> IF s = 100 THEN 2 ELSE 0]
=============================================================================
