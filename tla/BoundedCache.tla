---------------------------- MODULE BoundedCache ----------------------------
(***************************************************************************)
(* What a content store promises, whatever its replacement policy: Data    *)
(* that is stored displaces nothing unless the store is full, and then     *)
(* exactly one other entry; Data that is refused displaces nothing.  The   *)
(* limit may change at any time (0 is no limit) and evicts nothing itself. *)
(***************************************************************************)
EXTENDS Integers, FiniteSets

CONSTANT Names      \* the names of the Data packets

VARIABLES
    cached,         \* the names whose Data is in the store
    max_size        \* the number of entries the store may hold

vars == <<cached, max_size>>

\* The sets of entries that may be dropped for an arrival.
Victims ==
    IF max_size # 0 /\ Cardinality(cached) >= max_size THEN {{v} : v \in cached} ELSE {{}}

Init ==
    /\ cached = {}
    /\ max_size \in Nat

Store(n) ==
    /\ n \notin cached
    /\ \E victims \in Victims : cached' = (cached \ victims) \cup {n}
    /\ UNCHANGED max_size

SetMaxSize ==
    /\ max_size' \in Nat
    /\ UNCHANGED cached

Next == (\E n \in Names : Store(n)) \/ SetMaxSize

Spec == Init /\ [][Next]_vars
=============================================================================
