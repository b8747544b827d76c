---------------------------- MODULE MCFreshStore ----------------------------
(***************************************************************************)
(* Instances of FreshStore for TLC.                                        *)
(***************************************************************************)
EXTENDS FreshStore, TLC

CONSTANTS d1, d2, d3, d4

FourNames == {d1, d2, d3, d4}

\* Every Data expires: periods that end before, with and after each other.
AllFresh == (d1 :> 1) @@ (d2 :> 2) @@ (d3 :> 2) @@ (d4 :> 3)
=============================================================================
