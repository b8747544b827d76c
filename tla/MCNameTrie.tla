----------------------------- MODULE MCNameTrie -----------------------------
(***************************************************************************)
(* Instances of NameTrie for TLC.                                          *)
(***************************************************************************)
EXTENDS NameTrie, Integers, Sequences

\* A branch of three components, one that leaves it half way, and a third.
SomeNames == {<<>>, <<1>>, <<1, 1>>, <<1, 1, 1>>, <<1, 2>>, <<2>>, <<2, 1>>}
NoComponents == <<>>
PrefixesOf == [n \in SomeNames |-> {SubSeq(n, 1, i) : i \in 0 .. Len(n)}]
TwoPayloads == {"p", "q"}
=============================================================================
