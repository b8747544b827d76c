------------------------------ MODULE NameMap -------------------------------
(***************************************************************************)
(* What a container of entries by name promises: a partial function that   *)
(* forgets an entry only when it is asked to, when an arrival displaces    *)
(* one, or when everything goes.                                           *)
(***************************************************************************)
CONSTANTS
    Names,      \* the keys
    Payloads    \* the entries

VARIABLE map

Displaced(S) == S = {} \/ \E n \in DOMAIN map : S = {n}

Restricted(S) == [n \in DOMAIN map \ S |-> map[n]]

With(f, k, v) == [n \in DOMAIN f \cup {k} |-> IF n = k THEN v ELSE f[n]]

Init == map = [n \in {} |-> {}]

\* An arrival, taken or not, may displace an entry.
Add(k, v) ==
    /\ k \notin DOMAIN map
    /\ \E S \in SUBSET DOMAIN map :
          Displaced(S) /\ map' \in {With(Restricted(S), k, v), Restricted(S)}

Change(k, v) == k \in DOMAIN map /\ map' = With(map, k, v)

Remove(k) == k \in DOMAIN map /\ map' = Restricted({k})

Clear == map' = Restricted(DOMAIN map)

Next ==
    \/ \E k \in Names, v \in Payloads : Add(k, v) \/ Change(k, v)
    \/ \E k \in Names : Remove(k)
    \/ Clear

Spec == Init /\ [][Next]_map
=============================================================================
