---------------------------- MODULE MCForwarder ----------------------------
(***************************************************************************)
(* Instances of Forwarder for TLC.                                         *)
(***************************************************************************)
EXTENDS Forwarder, TLC

CONSTANTS c1, c2, r1, r2, a, ab, abc, x1, x2, x3

\* Two consumers' faces and two routes, the first the cheaper.
FourFaces == {c1, c2, r1, r2}
TwoApps == {c1, c2}
TwoCosts == (r1 :> 1) @@ (r2 :> 2)

\* /a, and /a/b that extends it, and /a/b/c that extends both.
OneName == {a}
OnePrefix == [n \in OneName |-> {n}]
TwoNames == {a, ab}
TwoPrefixes == (a :> {a}) @@ (ab :> {a, ab})
ThreeNames == {a, ab, abc}
ThreePrefixes == (a :> {a}) @@ (ab :> {a, ab}) @@ (abc :> {a, ab, abc})

TwoNonces == {x1, x2}
OneNonce == {x1}

NodeSymmetry == Permutations({c1, c2}) \cup Permutations({x1, x2, x3})

NoCodes == {}
AllCodes == {"LOOP", "CONGESTION", "GIVEUP_PIT"}
=============================================================================
