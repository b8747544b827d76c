------------------------------ MODULE NameTrie ------------------------------
(***************************************************************************)
(* The tree of name components under the content stores, the PIT, the FIB  *)
(* and the tables of ApiFace: trie, a node for each prefix of a stored     *)
(* name, and trie_with_policy, which links each payload in a policy that   *)
(* may refuse an arrival and erase another entry to make room.             *)
(*                                                                         *)
(* A node is known by its name.  The children of a node are kept by hash,  *)
(* so that a search of them may come to any of them first.                 *)
(***************************************************************************)
CONSTANTS
    Names,      \* the keys
    Root,       \* the name of no components
    Prefixes,   \* the names each name extends, itself included
    Payloads,   \* the entries
    Undefined   \* the result of a lookup whose behaviour is undefined

\* Prefixes are the paths of a tree.
ASSUME TreeAssumption ==
    /\ Root \in Names
    /\ Prefixes \in [Names -> SUBSET Names]
    /\ \A n \in Names : n \in Prefixes[n] /\ Root \in Prefixes[n]
    /\ \A n \in Names : \A m \in Prefixes[n] : Prefixes[m] \subseteq Prefixes[n]
    /\ \A n \in Names : \A m \in Prefixes[n] : n \in Prefixes[m] => m = n
    /\ \A n \in Names : \A m, k \in Prefixes[n] :
          m \in Prefixes[k] \/ k \in Prefixes[m]
    \* A path is finite: any nodes of it have a first one and a last one.
    /\ \A n \in Names : \A S \in SUBSET Prefixes[n] :
          S # {} => \E m \in S : \A k \in S : m \in Prefixes[k]
    /\ \A n \in Names : \A S \in SUBSET Prefixes[n] :
          S # {} => \E m \in S : \A k \in S : k \in Prefixes[m]

ASSUME UndefinedAssumption == Undefined \notin Names

VARIABLES
    nodes,      \* the nodes of the trie, by their names
    payload,    \* payload_, for the nodes where it is not empty
    linked,     \* the nodes in the policy's container
    live        \* the owner has not cleared it

vars == <<nodes, payload, linked, live>>

Stored == DOMAIN payload

(***************************************************************************)
(* Changes.                                                                *)
(***************************************************************************)
With(f, k, v) == [n \in DOMAIN f \cup {k} |-> IF n = k THEN v ELSE f[n]]
Without(f, S) == [n \in DOMAIN f \ S |-> f[n]]

\* Mutants of Pruned: prune stops at the node; it does not look at children.
PrunedNode(N, P, k) ==
    N \ {m \in {k} \ {Root} : \A n \in N : m \in Prefixes[n] => n = k}
PrunedPath(N, P, k) == N \ (Prefixes[k] \ ({Root} \cup P))

\* The nodes N with node k pruned, payloads at P: k goes, and every node above
\* it but the root, as long as nothing but an empty path to k is below.
Pruned(N, P, k) ==
    N \ {m \in Prefixes[k] \ {Root} :
            \A n \in N : m \in Prefixes[n] => n \in Prefixes[k] \ P}

\* What the policy's insert may do before it takes or refuses the arrival.
Victims == {{}} \cup {{n} : n \in linked}

\* The nodes N without those that only lead to a name of S, S of one name or
\* none.
PrunedAll(N, P, S) == {n \in N : \A k \in S : n \in Pruned(N, P, k)}

\* insert of a name that has no payload.
Insert(k, v) ==
    /\ live /\ k \notin Stored
    /\ \E S \in Victims :
          /\ payload' = With(Without(payload, S), k, v)
          /\ nodes' = PrunedAll(nodes \cup Prefixes[k], DOMAIN payload', S)
          /\ linked' = (linked \ S) \cup {k}
    /\ UNCHANGED live

\* insert of a name the policy refuses: the node is made, room may be made for
\* it, and it is erased.
Refuse(k) ==
    /\ live /\ k \notin Stored
    /\ \E S \in Victims :
          /\ payload' = Without(payload, S)
          /\ nodes' = Pruned(PrunedAll(nodes \cup Prefixes[k],
                                       DOMAIN payload' \cup {k}, S),
                             DOMAIN payload', k)
          /\ linked' = linked \ S
    /\ UNCHANGED live

\* modify.
Modify(k, v) ==
    /\ live /\ k \in Stored
    /\ payload' = With(payload, k, v)
    /\ UNCHANGED <<nodes, linked, live>>

\* Mutants of Erase: the node goes with its children; the policy is not told.
EraseBranch(k) ==
    /\ live /\ k \in Stored
    /\ payload' = Without(payload, {m \in Stored : k \in Prefixes[m]})
    /\ nodes' = Pruned(nodes, DOMAIN payload', k)
    /\ linked' = linked \cap DOMAIN payload'
    /\ UNCHANGED live

EraseUnlinked(k) ==
    /\ live /\ k \in Stored
    /\ payload' = Without(payload, {k})
    /\ nodes' = Pruned(nodes, DOMAIN payload', k)
    /\ UNCHANGED <<linked, live>>

\* erase, by name or by iterator.
Erase(k) ==
    /\ live /\ k \in Stored
    /\ payload' = Without(payload, {k})
    /\ nodes' = Pruned(nodes, DOMAIN payload', k)
    /\ linked' = linked \ {k}
    /\ UNCHANGED live

\* clear, when the owner is shut down or disposed of.  The root keeps a
\* payload it has.
Clear ==
    /\ live
    /\ live' = FALSE
    /\ nodes' = {Root}
    /\ payload' = Without(payload, Names \ {Root})
    /\ linked' = {}

Init ==
    /\ nodes = {Root}
    /\ payload = [n \in {} |-> {}]
    /\ linked = {}
    /\ live = TRUE

Next ==
    \/ \E k \in Names, v \in Payloads : Insert(k, v) \/ Modify(k, v)
    \/ \E k \in Names : Refuse(k) \/ Erase(k)
    \/ Clear

Spec == Init /\ [][Next]_vars

(***************************************************************************)
(* Lookups.  The result is the set of nodes that may be returned, empty    *)
(* for end ().  A predicate on entries or components is the set of the     *)
(* names it accepts.                                                       *)
(***************************************************************************)
\* The nodes the loop of find and find_if comes to, and the last of S.
Path(k) == {m \in Prefixes[k] : Prefixes[m] \subseteq nodes}
LastOf(S) == {m \in S : S \subseteq Prefixes[m]}

ReachLast(k) == k \in Path(k)

\* find_exact.
FindExact(k) == IF ReachLast(k) THEN {k} \cap Stored ELSE {}

\* longest_prefix_match.
LongestPrefixMatch(k) == LastOf(Path(k) \cap Stored)

\* longest_prefix_match_if: the root is not asked.
LongestPrefixMatchIf(k, Q) ==
    LET good == (Path(k) \ {Root}) \cap Stored \cap Q
    IN IF good = {} THEN {Root} \cap Stored ELSE LastOf(good)

\* find, below node n: the first payload on any path down.
FindBelow(n) ==
    {m \in Stored : /\ n \in Prefixes[m]
                    /\ \A x \in Prefixes[m] \cap Stored :
                          n \in Prefixes[x] => x = m}

\* deepest_prefix_match.  It takes it that something is stored above or below
\* a node, and hands the node it finds to the policy: when there is none,
\* below the root of an empty trie, that is a null node.
DeepestPrefixMatch(k) ==
    IF ~ReachLast(k) THEN {}
    ELSE IF LongestPrefixMatch(k) # {} THEN LongestPrefixMatch(k)
    ELSE IF FindBelow(k) # {} THEN FindBelow(k)
    ELSE {Undefined}

\* deepest_prefix_match_if_next_level: the first accepted child decides.
Children(n) == {m \in nodes \ {n} : Prefixes[m] \ {m} = Prefixes[n]}
NextLevelMatch(k, Q) ==
    IF ~ReachLast(k) THEN {}
    ELSE UNION {FindBelow(c) : c \in Children(k) \cap Q}

(***************************************************************************)
(* Properties.                                                             *)
(***************************************************************************)
\* The variables have their types, and the policy holds the stored entries.
TypeOK ==
    /\ nodes \subseteq Names
    /\ Stored \subseteq Names /\ payload \in [Stored -> Payloads]
    /\ live \in BOOLEAN
    /\ live => linked = Stored

\* The nodes are a tree with the stored entries in it, and no branch is dead:
\* whatever was inserted, refused, displaced and erased, every node but the
\* root has a payload, or leads to one.
TreeOfEntries ==
    /\ Root \in nodes /\ Stored \subseteq nodes
    /\ \A n \in nodes : Prefixes[n] \subseteq nodes
    /\ \A n \in nodes \ {Root} : \E m \in Stored : n \in Prefixes[m]

\* What FindBelow and NextLevelMatch should come to.
Extending(k) == {m \in Stored : k \in Prefixes[m]}
NextLevel(k) == {c \in Names \ {k} : Prefixes[c] \ {c} = Prefixes[k]}

\* The lookups find what a search of all stored names would find: the very
\* name; the longest stored prefix; the longest accepted one, but for the root,
\* which is taken whether it is accepted or not; and an entry of an accepted
\* branch, if there is one, though the first such branch decides.
\* deepest_prefix_match finds nothing just where no stored name extends the
\* name; else it finds the longest stored prefix, though that need not extend
\* it, and only with no stored prefix an entry that does.  The one lookup whose
\* behaviour is undefined is that of the root in an empty trie.
LookupsAgree ==
    \A k \in Names :
        /\ FindExact(k) = {k} \cap Stored
        /\ LongestPrefixMatch(k) = LastOf(Prefixes[k] \cap Stored)
        /\ \A Q \in SUBSET Names :
              LongestPrefixMatchIf(k, Q) =
                 LastOf(Prefixes[k] \cap Stored \cap (Q \cup {Root}))
        /\ \A c \in NextLevel(k) :
              NextLevelMatch(k, {c}) = {} <=> Extending(c) = {}
        /\ DeepestPrefixMatch(k) = {Undefined} <=> k = Root /\ Stored = {}
        /\ DeepestPrefixMatch(k) = {} <=> k # Root /\ Extending(k) = {}
        /\ Extending(k) # {} =>
              DeepestPrefixMatch(k) \subseteq
                 IF Prefixes[k] \cap Stored = {} THEN Extending(k)
                 ELSE LastOf(Prefixes[k] \cap Stored)

\* The trie, cleared or not, is a map from names to entries.
Abstract == INSTANCE NameMap WITH
    map <- IF live THEN payload ELSE Without(payload, Names)
ImplementsNameMap == Abstract!Spec
=============================================================================
