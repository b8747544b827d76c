--------------------------- MODULE NameTrieProofs ---------------------------
(***************************************************************************)
(* Theorems about NameTrie, for every tree of names and all payloads.      *)
(***************************************************************************)
EXTENDS NameTrie, TLAPS

(***************************************************************************)
(* Trees of nodes N with payloads at P, apart from the variables.          *)
(***************************************************************************)
Tree(N, P) ==
    /\ N \subseteq Names
    /\ Root \in N /\ P \subseteq N
    /\ \A n \in N : Prefixes[n] \subseteq N
    /\ \A n \in N \ {Root} : \E m \in P : n \in Prefixes[m]

\* Prefixes of names are names.
LEMMA PrefixName ==
  ASSUME NEW n \in Names, NEW m \in Prefixes[n]
  PROVE  m \in Names /\ Prefixes[m] \subseteq Prefixes[n]
BY TreeAssumption

\* Any prefixes of a name have a shortest and a longest.
LEMMA EndsOfPath ==
  ASSUME NEW n \in Names, NEW S \in SUBSET Prefixes[n], S # {}
  PROVE  /\ \E m \in S : \A k \in S : m \in Prefixes[k]
         /\ \E m \in S : \A k \in S : k \in Prefixes[m]
<1>1. \A T \in SUBSET Prefixes[n] :
         T # {} => \E m \in T : \A k \in T : m \in Prefixes[k]
  BY Zenon, TreeAssumption
<1>2. \A T \in SUBSET Prefixes[n] :
         T # {} => \E m \in T : \A k \in T : k \in Prefixes[m]
  BY Zenon, TreeAssumption
<1>3. \E m \in S : \A k \in S : m \in Prefixes[k]
  BY <1>1
<1>4. \E m \in S : \A k \in S : k \in Prefixes[m]
  BY <1>2
<1> QED
  BY <1>3, <1>4, Zenon

\* The loop of trie::insert adds the path to a name, and its payload.
LEMMA GrownTree ==
  ASSUME NEW N, NEW P, NEW k \in Names, Tree(N, P)
  PROVE  Tree(N \cup Prefixes[k], P \cup {k})
<1> DEFINE M == N \cup Prefixes[k]
<1>1. M \subseteq Names /\ Root \in M /\ P \cup {k} \subseteq M
  BY TreeAssumption DEF Tree
<1>2. ASSUME NEW n \in M PROVE Prefixes[n] \subseteq M
  <2>1. CASE n \in N
    BY <2>1 DEF Tree
  <2>2. CASE n \in Prefixes[k]
    BY <2>2, PrefixName
  <2> QED
    BY <2>1, <2>2
<1>3. ASSUME NEW n \in M \ {Root}
      PROVE  \E m \in P \cup {k} : n \in Prefixes[m]
  <2>1. CASE n \in N
    BY <2>1 DEF Tree
  <2>2. CASE n \in Prefixes[k]
    BY <2>2
  <2> QED
    BY <2>1, <2>2
<1> QED
  BY <1>1, <1>2, <1>3 DEF Tree

\* prune after the payload of k is gone leaves a tree without dead branches,
\* and takes no node that leads to another payload.
LEMMA PrunedTree ==
  ASSUME NEW N, NEW P, NEW k, k \notin P, Tree(N, P \cup {k})
  PROVE  Tree(Pruned(N, P, k), P)
<1> DEFINE M == Pruned(N, P, k)
<1>0. k \in Names /\ M \subseteq N
  BY DEF Tree, Pruned
<1>1. Root \in M
  BY DEF Tree, Pruned
<1>2. P \subseteq M
  <2> SUFFICES ASSUME NEW p \in P PROVE p \in M
    OBVIOUS
  <2>1. p \in N /\ p \in Names /\ p \in Prefixes[p]
    BY TreeAssumption DEF Tree
  <2> QED
    BY <2>1 DEF Pruned
<1>3. ASSUME NEW n \in M PROVE Prefixes[n] \subseteq M
  <2> SUFFICES ASSUME NEW m \in Prefixes[n], m \notin M PROVE FALSE
    OBVIOUS
  <2>1. n \in N /\ n \in Names /\ m \in N
    BY <1>0 DEF Tree
  <2>2. m \in Prefixes[k] \ {Root}
        /\ \A x \in N : m \in Prefixes[x] => x \in Prefixes[k] \ P
    BY <2>1 DEF Pruned
  <2>3. n \in Prefixes[k]
    BY <2>1, <2>2
  <2>4. n # Root
    BY <2>2, TreeAssumption
  <2>5. ASSUME NEW x \in N, n \in Prefixes[x] PROVE x \in Prefixes[k] \ P
    <3>1. x \in Names /\ m \in Prefixes[x]
      BY <2>5, PrefixName DEF Tree
    <3> QED
      BY <3>1, <2>2
  <2> QED
    BY <2>1, <2>3, <2>4, <2>5 DEF Pruned
<1>4. ASSUME NEW n \in M \ {Root} PROVE \E m \in P : n \in Prefixes[m]
  <2>1. n \in N \ {Root} /\ n \in Names
    BY <1>0 DEF Tree
  <2>2. PICK q \in P \cup {k} : n \in Prefixes[q]
    BY <2>1 DEF Tree
  <2>3. CASE q = k
    <3>1. PICK x \in N : n \in Prefixes[x] /\ x \notin Prefixes[k] \ P
      BY <2>1, <2>2, <2>3 DEF Pruned
    <3>2. CASE x \in P
      BY <3>1, <3>2
    <3>3. CASE x \notin P
      <4>1. x \notin Prefixes[k] /\ x # Root /\ x \in Names
        BY <3>1, <3>3, <1>0, TreeAssumption DEF Tree
      <4>2. PICK y \in P \cup {k} : x \in Prefixes[y]
        BY <4>1, <3>1 DEF Tree
      <4>3. y \in P /\ y \in Names
        BY <4>1, <4>2 DEF Tree
      <4> QED
        BY <4>2, <4>3, <3>1, PrefixName
    <3> QED
      BY <3>2, <3>3
  <2> QED
    BY <2>2, <2>3
<1> QED
  BY <1>0, <1>1, <1>2, <1>3, <1>4 DEF Tree

\* The same for what the policy displaces, one entry or none.
LEMMA PrunedAllTree ==
  ASSUME NEW N, NEW P, NEW S,
         S = {} \/ \E n : S = {n} /\ n \notin P,
         Tree(N, P \cup S)
  PROVE  Tree(PrunedAll(N, P, S), P)
<1>1. CASE S = {}
  <2>1. PrunedAll(N, P, S) = N /\ P \cup S = P
    BY <1>1 DEF PrunedAll
  <2> QED
    BY <2>1
<1>2. CASE \E n : S = {n} /\ n \notin P
  <2>1. PICK n : S = {n} /\ n \notin P
    BY <1>2
  <2>2. Tree(Pruned(N, P, n), P)
    BY <2>1, PrunedTree
  <2>3. PrunedAll(N, P, S) = Pruned(N, P, n)
    BY <2>1 DEF PrunedAll, Pruned
  <2> QED
    BY <2>2, <2>3
<1> QED
  BY <1>1, <1>2

(***************************************************************************)
(* The entries after With and Without.                                     *)
(***************************************************************************)
LEMMA WithType ==
  ASSUME NEW D, NEW V, NEW f \in [D -> V], NEW k, NEW v \in V
  PROVE  DOMAIN With(f, k, v) = D \cup {k} /\ With(f, k, v) \in [D \cup {k} -> V]
BY DEF With

LEMMA WithoutType ==
  ASSUME NEW D, NEW V, NEW f \in [D -> V], NEW S
  PROVE  DOMAIN Without(f, S) = D \ S /\ Without(f, S) \in [D \ S -> V]
BY DEF Without

\* What the invariants are proved from.
Inv == TypeOK /\ Tree(nodes, Stored)

LEMMA InitInv == Init => Inv
BY TreeAssumption DEF Init, Inv, TypeOK, Tree, Stored

\* What the policy displaces is one entry or none, and is not the arrival.
LEMMA VictimsStored ==
  ASSUME Inv, live, NEW k, k \notin Stored, NEW S \in Victims
  PROVE  /\ S \subseteq Stored
         /\ S = {} \/ \E n : S = {n} /\ n \notin (Stored \ S) \cup {k}
BY DEF Inv, TypeOK, Victims

LEMMA InsertInv ==
  ASSUME Inv, NEW k \in Names, NEW v \in Payloads, Insert(k, v)
  PROVE  Inv'
<1>1. PICK S \in Victims :
        /\ payload' = With(Without(payload, S), k, v)
        /\ nodes' = PrunedAll(nodes \cup Prefixes[k], DOMAIN payload', S)
        /\ linked' = (linked \ S) \cup {k}
  BY DEF Insert
<1>2. /\ S \subseteq Stored
      /\ S = {} \/ \E n : S = {n} /\ n \notin (Stored \ S) \cup {k}
  BY VictimsStored DEF Insert
<1>3. Stored' = (Stored \ S) \cup {k} /\ payload' \in [Stored' -> Payloads]
  <2>1. payload \in [Stored -> Payloads]
    BY DEF Inv, TypeOK
  <2>2. Without(payload, S) \in [Stored \ S -> Payloads]
    BY <2>1, WithoutType
  <2>3. /\ DOMAIN payload' = (Stored \ S) \cup {k}
        /\ payload' \in [(Stored \ S) \cup {k} -> Payloads]
    <3> DEFINE f == Without(payload, S)
    <3>1. f \in [Stored \ S -> Payloads]
      BY <2>2
    <3> HIDE DEF f
    <3>2. /\ DOMAIN With(f, k, v) = (Stored \ S) \cup {k}
          /\ With(f, k, v) \in [(Stored \ S) \cup {k} -> Payloads]
      BY <3>1, WithType
    <3> QED
      BY <1>1, <3>2 DEF f
  <2> QED
    BY <2>3 DEF Stored
<1>4. Tree(nodes', Stored')
  <2>1. Tree(nodes \cup Prefixes[k], Stored \cup {k})
    BY GrownTree DEF Inv
  <2>2. Stored' \cup S = Stored \cup {k}
    BY <1>2, <1>3
  <2>3. Tree(nodes \cup Prefixes[k], Stored' \cup S)
    BY <2>1, <2>2
  <2>4. nodes' = PrunedAll(nodes \cup Prefixes[k], Stored', S)
    BY <1>1 DEF Stored
  <2>5. S = {} \/ \E n : S = {n} /\ n \notin Stored'
    BY <1>2, <1>3
  <2>6. Tree(PrunedAll(nodes \cup Prefixes[k], Stored', S), Stored')
    BY <2>3, <2>5, PrunedAllTree
  <2> QED
    BY <2>4, <2>6
<1>5. TypeOK'
  <2>1. linked' = Stored' /\ live' \in BOOLEAN
    BY <1>1, <1>3 DEF Insert, Inv, TypeOK
  <2>2. nodes' \subseteq Names /\ Stored' \subseteq Names
    BY <1>4 DEF Tree
  <2> QED
    BY <1>3, <2>1, <2>2 DEF TypeOK
<1>6. Tree(nodes, Stored)'
  BY <1>4
<1> QED
  BY <1>5, <1>6 DEF Inv

LEMMA RefuseInv ==
  ASSUME Inv, NEW k \in Names, Refuse(k)
  PROVE  Inv'
<1>1. PICK S \in Victims :
        /\ payload' = Without(payload, S)
        /\ nodes' = Pruned(PrunedAll(nodes \cup Prefixes[k],
                                     DOMAIN payload' \cup {k}, S),
                           DOMAIN payload', k)
        /\ linked' = linked \ S
  BY DEF Refuse
<1>2. /\ S \subseteq Stored /\ k \notin Stored
      /\ S = {} \/ \E n : S = {n} /\ n \notin (Stored \ S) \cup {k}
  BY VictimsStored DEF Refuse
<1>3. Stored' = Stored \ S /\ payload' \in [Stored' -> Payloads]
  <2>1. payload \in [Stored -> Payloads]
    BY DEF Inv, TypeOK
  <2>2. DOMAIN payload' = Stored \ S /\ payload' \in [Stored \ S -> Payloads]
    BY <1>1, <2>1 DEF Without
  <2> QED
    BY <2>2 DEF Stored
<1>4. Tree(nodes', Stored')
  <2> DEFINE N == nodes \cup Prefixes[k]
             P == Stored' \cup {k}
  <2>1. Tree(N, Stored \cup {k})
    BY GrownTree DEF Inv
  <2>2. P \cup S = Stored \cup {k}
    BY <1>2, <1>3
  <2>3. Tree(N, P \cup S)
    BY <2>1, <2>2
  <2>4. S = {} \/ \E n : S = {n} /\ n \notin P
    BY <1>2, <1>3
  <2>5. Tree(PrunedAll(N, P, S), P)
    <3> HIDE DEF N, P
    <3> QED
      BY <2>3, <2>4, PrunedAllTree
  <2>6. Tree(Pruned(PrunedAll(N, P, S), Stored', k), Stored')
    <3>1. k \notin Stored'
      BY <1>2, <1>3
    <3> DEFINE M == PrunedAll(N, P, S)
    <3>2. Tree(M, Stored' \cup {k})
      BY <2>5
    <3> HIDE DEF M
    <3>3. Tree(Pruned(M, Stored', k), Stored')
      BY <3>1, <3>2, PrunedTree
    <3> QED
      BY <3>3 DEF M
  <2> QED
    BY <1>1, <2>6 DEF Stored
<1>5. TypeOK'
  <2>1. linked' = Stored' /\ live' \in BOOLEAN
    BY <1>1, <1>3 DEF Refuse, Inv, TypeOK
  <2>2. nodes' \subseteq Names /\ Stored' \subseteq Names
    BY <1>4 DEF Tree
  <2> QED
    BY <1>3, <2>1, <2>2 DEF TypeOK
<1>6. Tree(nodes, Stored)'
  BY <1>4
<1> QED
  BY <1>5, <1>6 DEF Inv

LEMMA ModifyInv ==
  ASSUME Inv, NEW k \in Names, NEW v \in Payloads, Modify(k, v)
  PROVE  Inv'
<1>1. payload \in [Stored -> Payloads] /\ Stored \cup {k} = Stored
  BY DEF Inv, TypeOK, Modify
<1>2. Stored' = Stored /\ payload' \in [Stored -> Payloads]
  <2>1. /\ DOMAIN payload' = Stored \cup {k}
        /\ payload' \in [Stored \cup {k} -> Payloads]
    BY <1>1 DEF Modify, With
  <2> QED
    BY <1>1, <2>1 DEF Stored
<1>3. nodes' = nodes /\ linked' = linked /\ live' = live
  BY DEF Modify
<1>4. TypeOK'
  BY <1>2, <1>3 DEF Inv, TypeOK
<1>5. Tree(nodes, Stored)'
  BY <1>2, <1>3 DEF Inv
<1> QED
  BY <1>4, <1>5 DEF Inv

LEMMA EraseInv ==
  ASSUME Inv, NEW k \in Names, Erase(k)
  PROVE  Inv'
<1>1. payload \in [Stored -> Payloads] /\ k \in Stored
  BY DEF Inv, TypeOK, Erase
<1>2. Stored' = Stored \ {k} /\ payload' \in [Stored' -> Payloads]
  BY <1>1, WithoutType DEF Erase, Stored
<1>3. Tree(nodes', Stored')
  <2>1. Stored' \cup {k} = Stored /\ k \notin Stored'
    BY <1>1, <1>2
  <2>2. Tree(nodes, Stored' \cup {k})
    BY <2>1 DEF Inv
  <2>3. Tree(Pruned(nodes, Stored', k), Stored')
    BY <2>1, <2>2, PrunedTree
  <2> QED
    BY <2>3 DEF Erase, Stored
<1>4. TypeOK'
  <2>1. linked' = Stored' /\ live' \in BOOLEAN
    BY <1>2 DEF Erase, Inv, TypeOK
  <2>2. nodes' \subseteq Names /\ Stored' \subseteq Names
    BY <1>3 DEF Tree
  <2> QED
    BY <1>2, <2>1, <2>2 DEF TypeOK
<1>5. Tree(nodes, Stored)'
  BY <1>3
<1> QED
  BY <1>4, <1>5 DEF Inv

LEMMA ClearInv ==
  ASSUME Inv, Clear
  PROVE  Inv'
<1>1. payload \in [Stored -> Payloads] /\ Stored \subseteq Names
  BY DEF Inv, TypeOK
<1>2. Stored' = Stored \ (Names \ {Root}) /\ payload' \in [Stored' -> Payloads]
  <2> DEFINE D == Stored \ (Names \ {Root})
  <2>1. DOMAIN payload' = D /\ payload' \in [D -> Payloads]
    BY <1>1 DEF Clear, Without
  <2> QED
    BY <2>1 DEF Stored
<1>3. nodes' = {Root} /\ live' = FALSE /\ Stored' \subseteq {Root}
  BY <1>1, <1>2 DEF Clear
<1>4. TypeOK'
  BY <1>2, <1>3, TreeAssumption DEF TypeOK
<1>5. Prefixes[Root] = {Root}
  BY TreeAssumption
<1>6. Tree(nodes', Stored')
  BY <1>3, <1>5, TreeAssumption DEF Tree
<1>7. Tree(nodes, Stored)'
  BY <1>6
<1> QED
  BY <1>4, <1>7 DEF Inv

LEMMA NextInv == Inv /\ [Next]_vars => Inv'
<1> SUFFICES ASSUME Inv, [Next]_vars PROVE Inv'
  OBVIOUS
<1>1. ASSUME NEW k \in Names, NEW v \in Payloads, Insert(k, v) PROVE Inv'
  BY <1>1, InsertInv
<1>2. ASSUME NEW k \in Names, NEW v \in Payloads, Modify(k, v) PROVE Inv'
  BY <1>2, ModifyInv
<1>3. ASSUME NEW k \in Names, Refuse(k) PROVE Inv'
  BY <1>3, RefuseInv
<1>4. ASSUME NEW k \in Names, Erase(k) PROVE Inv'
  BY <1>4, EraseInv
<1>5. CASE Clear
  BY <1>5, ClearInv
<1>6. CASE UNCHANGED vars
  BY <1>6 DEF vars, Inv, TypeOK, Tree, Stored
<1> QED
  BY <1>1, <1>2, <1>3, <1>4, <1>5, <1>6 DEF Next

LEMMA InvHolds == Spec => []Inv
BY InitInv, NextInv, PTL DEF Spec

\* The policy's container (trie-with-policy.h) and the trie hold the same
\* entries after any sequence of inserts, refusals, changes and removals.
THEOREM TypeCorrect == Spec => []TypeOK
<1>1. Inv => TypeOK
  BY DEF Inv
<1> QED
  BY <1>1, InvHolds, PTL

\* insert_ and prune (trie.h) keep a tree of paths to the entries, with no
\* dead branch, whichever entries the policy displaces or refuses.
THEOREM TreeKept == Spec => []TreeOfEntries
<1>1. Inv => TreeOfEntries
  BY DEF Inv, Tree, TreeOfEntries
<1> QED
  BY <1>1, InvHolds, PTL

(***************************************************************************)
(* Lookups.                                                                *)
(***************************************************************************)
\* On a tree the loop of find comes to every node of the path that exists.
LEMMA PathOfTree ==
  ASSUME Inv, NEW k \in Names
  PROVE  /\ ReachLast(k) <=> k \in nodes
         /\ Path(k) \cap Stored = Prefixes[k] \cap Stored
BY TreeAssumption DEF Inv, Tree, ReachLast, Path

\* A search down from k, whose first payload on each path ends it, comes to an
\* entry when there is one: a path has a first entry.
LEMMA BelowFound ==
  ASSUME Inv, NEW k \in Names
  PROVE  FindBelow(k) = {} <=> Extending(k) = {}
<1>1. FindBelow(k) \subseteq Extending(k)
  BY DEF FindBelow, Extending
<1>2. ASSUME NEW m \in Extending(k) PROVE FindBelow(k) # {}
  <2> DEFINE S == {x \in Prefixes[m] \cap Stored : k \in Prefixes[x]}
  <2>1. m \in Names /\ m \in S
    BY TreeAssumption DEF Extending, Inv, TypeOK
  <2>2. S \in SUBSET Prefixes[m] /\ S # {}
    BY <2>1
  <2>3. PICK f \in S : \A x \in S : f \in Prefixes[x]
    <3> HIDE DEF S
    <3> QED
      BY <2>1, <2>2, EndsOfPath
  <2>4. ASSUME NEW x \in Prefixes[f] \cap Stored, k \in Prefixes[x]
        PROVE  x = f
    <3>1. f \in Prefixes[m] /\ f \in Names /\ x \in Prefixes[m]
      BY <2>1, <2>3, <2>4, PrefixName
    <3>2. x \in S
      BY <3>1, <2>4
    <3>3. f \in Prefixes[x]
      BY <3>2, <2>3
    <3> QED
      BY <3>1, <3>3, <2>4, TreeAssumption
  <2>5. f \in FindBelow(k)
    BY <2>3, <2>4 DEF FindBelow
  <2> QED
    BY <2>5
<1> QED
  BY <1>1, <1>2

\* An entry below a name has the name's node above it.
LEMMA ExtendingReached ==
  ASSUME Inv, NEW k \in Names, Extending(k) # {}
  PROVE  k \in nodes
<1>1. PICK m \in Stored : k \in Prefixes[m]
  BY DEF Extending
<1> QED
  BY <1>1 DEF Inv, Tree

\* The root is the last of a set of prefixes only when nothing else is there.
LEMMA LastWithRoot ==
  ASSUME NEW k \in Names, NEW S \in SUBSET (Prefixes[k] \ {Root}), S # {}
  PROVE  LastOf(S \cup {Root}) = LastOf(S)
<1>1. ASSUME NEW m \in LastOf(S) PROVE m \in LastOf(S \cup {Root})
  <2>1. m \in S /\ S \subseteq Prefixes[m] /\ m \in Names
    BY <1>1, PrefixName DEF LastOf
  <2>2. Root \in Prefixes[m]
    BY <2>1, TreeAssumption
  <2> QED
    BY <2>1, <2>2 DEF LastOf
<1>2. ASSUME NEW m \in LastOf(S \cup {Root}) PROVE m \in LastOf(S)
  <2>1. m \in S \cup {Root} /\ S \cup {Root} \subseteq Prefixes[m]
    BY <1>2 DEF LastOf
  <2>2. m # Root
    <3> SUFFICES ASSUME m = Root PROVE FALSE
      OBVIOUS
    <3>1. PICK g : g \in S
      OBVIOUS
    <3>2. g \in Prefixes[Root] /\ g \in Names /\ g # Root
      BY <2>1, <3>1, PrefixName
    <3> QED
      BY <3>2, TreeAssumption
  <2> QED
    BY <2>1, <2>2 DEF LastOf
<1> QED
  BY <1>1, <1>2

\* longest_prefix_match_if finds the longest accepted prefix; the root is taken
\* whether it is accepted or not.
LEMMA PrefixMatchIf ==
  ASSUME Inv, NEW k \in Names, NEW Q \in SUBSET Names
  PROVE  LongestPrefixMatchIf(k, Q) =
            LastOf(Prefixes[k] \cap Stored \cap (Q \cup {Root}))
<1> DEFINE good == (Prefixes[k] \ {Root}) \cap Stored \cap Q
           all == Prefixes[k] \cap Stored \cap (Q \cup {Root})
<1>1. (Path(k) \ {Root}) \cap Stored \cap Q = good
  BY PathOfTree
<1>2. Root \in Prefixes[k]
  BY TreeAssumption
<1>3. CASE good = {}
  <2>1. all = {Root} \cap Stored
    BY <1>2, <1>3
  <2>2. LastOf({Root} \cap Stored) = {Root} \cap Stored
    BY TreeAssumption DEF LastOf
  <2>3. LongestPrefixMatchIf(k, Q) = {Root} \cap Stored
    BY <1>1, <1>3 DEF LongestPrefixMatchIf
  <2> QED
    BY <2>1, <2>2, <2>3
<1>4. CASE good # {}
  <2>1. LongestPrefixMatchIf(k, Q) = LastOf(good)
    BY <1>1, <1>4 DEF LongestPrefixMatchIf
  <2>2. all = good \/ all = good \cup {Root}
    BY <1>2
  <2>3. good \in SUBSET (Prefixes[k] \ {Root})
    OBVIOUS
  <2>4. LastOf(good \cup {Root}) = LastOf(good)
    <3> HIDE DEF good
    <3> QED
      BY <1>4, <2>3, LastWithRoot
  <2> QED
    BY <2>1, <2>2, <2>4
<1> QED
  BY <1>3, <1>4

\* Where a prefix of a name is stored, there is a longest one.
LEMMA LastExists ==
  ASSUME NEW k \in Names, NEW S \in SUBSET Prefixes[k], S # {}
  PROVE  LastOf(S) # {}
<1>1. PICK m \in S : \A x \in S : x \in Prefixes[m]
  BY EndsOfPath
<1> QED
  BY <1>1 DEF LastOf

\* deepest_prefix_match: a node of the tree has an entry above or below it,
\* unless it is the root of an empty one.
LEMMA DeepestMatch ==
  ASSUME Inv, NEW k \in Names
  PROVE  /\ DeepestPrefixMatch(k) = {Undefined} <=> k = Root /\ Stored = {}
         /\ DeepestPrefixMatch(k) = {} <=> k # Root /\ Extending(k) = {}
         /\ Extending(k) # {} =>
               DeepestPrefixMatch(k) \subseteq
                  IF Prefixes[k] \cap Stored = {} THEN Extending(k)
                  ELSE LastOf(Prefixes[k] \cap Stored)
<1> DEFINE above == Prefixes[k] \cap Stored
<1>1. /\ LongestPrefixMatch(k) = LastOf(above) /\ LastOf(above) \subseteq above
      /\ above # {} => LastOf(above) # {}
      /\ Undefined \notin Stored
  <2>1. above \in SUBSET Prefixes[k]
    OBVIOUS
  <2>2. above # {} => LastOf(above) # {}
    <3> HIDE DEF above
    <3> QED
      BY <2>1, LastExists
  <2>3. Undefined \notin Stored
    BY UndefinedAssumption DEF Inv, TypeOK
  <2> QED
    BY <2>2, <2>3, PathOfTree DEF LongestPrefixMatch, LastOf
<1>2. /\ FindBelow(k) = {} <=> Extending(k) = {}
      /\ FindBelow(k) \subseteq Extending(k) /\ Extending(k) \subseteq Stored
  BY BelowFound DEF FindBelow, Extending
<1>3. k \in nodes /\ k # Root => Extending(k) # {}
  BY DEF Inv, Tree, Extending
<1>4. Extending(Root) = Stored
  BY TreeAssumption DEF Extending, Inv, TypeOK
<1>5. CASE k \notin nodes
  <2>1. DeepestPrefixMatch(k) = {} /\ Extending(k) = {}
    BY <1>5, PathOfTree, ExtendingReached DEF DeepestPrefixMatch
  <2>2. k # Root
    BY <1>5 DEF Inv, Tree
  <2> QED
    BY <2>1, <2>2
<1>6. CASE k \in nodes /\ above # {}
  <2>1. DeepestPrefixMatch(k) = LastOf(above)
    BY <1>1, <1>6, PathOfTree DEF DeepestPrefixMatch
  <2> HIDE DEF above
  <2>2. above \subseteq Stored
    BY DEF above
  <2>3. DeepestPrefixMatch(k) # {} /\ DeepestPrefixMatch(k) # {Undefined}
    BY <1>1, <1>6, <2>1, <2>2
  <2> QED
    BY <1>3, <1>6, <2>1, <2>2, <2>3 DEF above
<1>7. CASE k \in nodes /\ above = {} /\ Extending(k) # {}
  <2>1. DeepestPrefixMatch(k) = FindBelow(k)
    BY <1>1, <1>2, <1>7, PathOfTree DEF DeepestPrefixMatch
  <2>2. DeepestPrefixMatch(k) # {} /\ DeepestPrefixMatch(k) # {Undefined}
    BY <1>1, <1>2, <1>7, <2>1
  <2> QED
    BY <1>2, <1>7, <2>1, <2>2
<1>8. CASE k \in nodes /\ above = {} /\ Extending(k) = {}
  <2>1. DeepestPrefixMatch(k) = {Undefined}
    BY <1>1, <1>2, <1>8, PathOfTree DEF DeepestPrefixMatch
  <2> QED
    BY <1>3, <1>4, <1>8, <2>1
<1> QED
  BY <1>5, <1>6, <1>7, <1>8

\* The searches below the children of a name.
LEMMA NextLevelFound ==
  ASSUME Inv, NEW k \in Names, NEW c \in NextLevel(k)
  PROVE  NextLevelMatch(k, {c}) = {} <=> Extending(c) = {}
<1>1. c \in Names /\ c # k /\ Prefixes[c] \ {c} = Prefixes[k] /\ k \in Prefixes[c]
  BY TreeAssumption DEF NextLevel
<1>2. CASE c \in nodes
  <2>1. k \in nodes
    BY <1>1, <1>2 DEF Inv, Tree
  <2>2. Children(k) \cap {c} = {c}
    BY <1>1, <1>2 DEF Children
  <2>3. NextLevelMatch(k, {c}) = FindBelow(c)
    BY <2>1, <2>2, PathOfTree DEF NextLevelMatch
  <2> QED
    BY <1>1, <2>3, BelowFound
<1>3. CASE c \notin nodes
  <2>1. Children(k) \cap {c} = {}
    BY <1>3 DEF Children
  <2>2. NextLevelMatch(k, {c}) = {}
    BY <2>1 DEF NextLevelMatch
  <2>3. Extending(c) = {}
    BY <1>1, <1>3, ExtendingReached
  <2> QED
    BY <2>2, <2>3
<1> QED
  BY <1>2, <1>3

\* The lookups of trie-with-policy.h find what a search of all the stored names
\* would find, whatever entries were displaced, refused and erased before; the
\* deepest match of the root in an empty trie alone is undefined.
THEOREM LookupsRight == Spec => []LookupsAgree
<1>1. Inv => LookupsAgree
  <2> SUFFICES ASSUME Inv, NEW k \in Names
               PROVE  /\ FindExact(k) = {k} \cap Stored
                      /\ LongestPrefixMatch(k) = LastOf(Prefixes[k] \cap Stored)
                      /\ \A Q \in SUBSET Names :
                            LongestPrefixMatchIf(k, Q) =
                               LastOf(Prefixes[k] \cap Stored \cap (Q \cup {Root}))
                      /\ \A c \in NextLevel(k) :
                            NextLevelMatch(k, {c}) = {} <=> Extending(c) = {}
                      /\ DeepestPrefixMatch(k) = {Undefined} <=> k = Root /\ Stored = {}
                      /\ DeepestPrefixMatch(k) = {} <=> k # Root /\ Extending(k) = {}
                      /\ Extending(k) # {} =>
                            DeepestPrefixMatch(k) \subseteq
                               IF Prefixes[k] \cap Stored = {} THEN Extending(k)
                               ELSE LastOf(Prefixes[k] \cap Stored)
    BY DEF LookupsAgree
  <2>1. FindExact(k) = {k} \cap Stored
    BY PathOfTree DEF FindExact, Inv, Tree
  <2>2. LongestPrefixMatch(k) = LastOf(Prefixes[k] \cap Stored)
    BY PathOfTree DEF LongestPrefixMatch
  <2> QED
    BY <2>1, <2>2, PrefixMatchIf, DeepestMatch, NextLevelFound
<1> QED
  BY <1>1, InvHolds, PTL

(***************************************************************************)
(* The map of names to entries.                                            *)
(***************************************************************************)
Map == IF live THEN payload ELSE Without(payload, Names)

\* trie_with_policy does what a map of names to entries does, and an arrival,
\* taken or refused, costs at most one other entry.
THEOREM MapImplemented == Spec => ImplementsNameMap
<1>1. Init => Abstract!Init
  BY DEF Init, Abstract!Init
<1>2. Inv /\ [Next]_vars => [Abstract!Next]_Map
  <2> SUFFICES ASSUME Inv, [Next]_vars PROVE Abstract!Next \/ Map' = Map
    BY DEF Map
  <2>0. payload \in [Stored -> Payloads] /\ Without(payload, {}) = payload
    BY DEF Inv, TypeOK, Without, Stored
  <2>1. ASSUME NEW k \in Names, NEW v \in Payloads, Insert(k, v)
        PROVE  Abstract!Next
    <3>1. PICK S \in Victims : payload' = With(Without(payload, S), k, v)
      BY <2>1 DEF Insert
    <3>2. live /\ live' /\ k \notin DOMAIN payload /\ S \in SUBSET DOMAIN payload
          /\ (S = {} \/ \E n \in DOMAIN payload : S = {n})
      BY <2>1, VictimsStored DEF Insert, Stored
    <3>3. Abstract!Add(k, v)
      BY <3>1, <3>2 DEF Abstract!Add, Abstract!Displaced, Abstract!With,
                        Abstract!Restricted, With, Without
    <3> QED
      BY <3>3 DEF Abstract!Next
  <2>2. ASSUME NEW k \in Names, Refuse(k) PROVE Abstract!Next \/ Map' = Map
    <3>1. PICK S \in Victims : payload' = Without(payload, S)
      BY <2>2 DEF Refuse
    <3>2. live /\ live' /\ k \notin DOMAIN payload /\ S \in SUBSET DOMAIN payload
          /\ (S = {} \/ \E n \in DOMAIN payload : S = {n})
      BY <2>2, VictimsStored DEF Refuse, Stored
    <3>3. CASE S = {}
      BY <2>0, <3>1, <3>2, <3>3 DEF Map
    <3>4. CASE \E n \in DOMAIN payload : S = {n}
      <4>1. PICK v : v \in Payloads
        BY <2>0, <3>4 DEF Stored
      <4>2. Abstract!Add(k, v)
        BY <3>1, <3>2 DEF Abstract!Add, Abstract!Displaced,
                          Abstract!Restricted, Without
      <4> QED
        BY <4>1, <4>2 DEF Abstract!Next
    <3> QED
      BY <3>2, <3>3, <3>4
  <2>3. ASSUME NEW k \in Names, NEW v \in Payloads, Modify(k, v)
        PROVE  Abstract!Next
    <3>1. Abstract!Change(k, v)
      BY <2>3 DEF Modify, Abstract!Change, Abstract!With, With, Stored
    <3> QED
      BY <3>1 DEF Abstract!Next
  <2>4. ASSUME NEW k \in Names, Erase(k) PROVE Abstract!Next
    <3>1. Abstract!Remove(k)
      BY <2>4 DEF Erase, Abstract!Remove, Abstract!Restricted, Without, Stored
    <3> QED
      BY <3>1 DEF Abstract!Next
  <2>5. CASE Clear
    <3>1. Inv' /\ live /\ ~live'
      BY <2>5, ClearInv DEF Clear
    <3>2. Map' = [n \in {} |-> {}]
      <4>1. DOMAIN payload' \ Names = {}
        BY <3>1 DEF Inv, TypeOK, Stored
      <4> QED
        BY <3>1, <4>1 DEF Map, Without
    <3>3. Map = payload
      BY <3>1 DEF Map
    <3>4. Abstract!Clear
      BY <3>2, <3>3 DEF Abstract!Clear, Abstract!Restricted, Map
    <3> QED
      BY <3>4 DEF Abstract!Next
  <2>6. CASE UNCHANGED vars
    BY <2>6 DEF vars, Map, Without
  <2> QED
    BY <2>1, <2>2, <2>3, <2>4, <2>5, <2>6 DEF Next
<1> QED
  BY <1>1, <1>2, InvHolds, PTL DEF Spec, ImplementsNameMap, Abstract!Spec, Map
=============================================================================
