------------------------------ MODULE TagQuota ------------------------------
(***************************************************************************)
(* The arithmetic by which the content store is divided among the five     *)
(* traffic classes of DataSaveTag (0x1 .. 0x5).                            *)
(*                                                                         *)
(* Two classes hold the same repair loop, ToAllPositive: the replacement   *)
(* policy lfu_policy_save_tag runs it over std::vector<uint32_t>, the hit  *)
(* controller HitTraceTable over std::vector<int>.  One turn of the loop   *)
(* is the operator Pass; the loop itself is made of steps of the state     *)
(* machines that use it, because it does not always end.                   *)
(***************************************************************************)
EXTENDS Integers, FiniteSetsExt

CONSTANT WordSize   \* the number of values of a uint32_t (2^32 in the code)

ASSUME WordAssumption == WordSize \in Nat /\ WordSize > 10

Tags == 1 .. 5

\* The local constant of ToAllPositive below which a class should not give.
Limits == 10

\* The ratios 0.4647, 0.2201, 0.2201, 0.0661, 0.0289, in ten-thousandths.
Weight == <<4647, 2201, 2201, 661, 289>>

Total(q) == q[1] + q[2] + q[3] + q[4] + q[5]

TotalOfFirstFour(q) == q[1] + q[2] + q[3] + q[4]

AllPositive(q) == \A t \in Tags : q[t] > 0

\* A vector element holds the value v: uint32_t wraps, int does not.
Store(v, unsigned) == IF unsigned THEN v % WordSize ELSE v

\* A mutant of Donors: a class may give to itself.
SelfDonors(q, i) == {j \in Tags : q[j] # Limits}

(***************************************************************************)
(* "(temp_vect[j] - limits) > 0" subtracts a uint32_t, so it is evaluated  *)
(* modulo 2^32 in both classes: false only when the element equals limits. *)
(***************************************************************************)
Donors(q, i) == {j \in Tags \ {i} : q[j] # Limits}

\* The turn of the outer loop for class i: the donor of the highest index
\* gives one slot to a class that has none.
Refill(q, i, unsigned) ==
    IF q[i] <= 0 /\ Donors(q, i) # {}
    THEN [q EXCEPT ![Max(Donors(q, i))] = Store(@ - 1, unsigned),
                   ![i] = Store(@ + 1, unsigned)]
    ELSE q

\* One iteration of "while (1)".
Pass(q, unsigned) ==
    LET r1 == Refill(q,  1, unsigned)
        r2 == Refill(r1, 2, unsigned)
        r3 == Refill(r2, 3, unsigned)
        r4 == Refill(r3, 4, unsigned)
    IN  Refill(r4, 5, unsigned)

\* int(max_size * ratio[i]) with the ratios a policy is constructed with.
DefaultShare(size) == [t \in Tags |-> (size * Weight[t]) \div 10000]

\* A mutant of RawQuota: the fifth class gets its own share, not the remainder.
RawQuotaByShare(size, share) == share

(***************************************************************************)
(* max_vect_by_tag before the repair loop: the first four classes take     *)
(* their share, the fifth whatever is left, modulo the word size.  The     *)
(* fifth share (a read beyond a ratio vector of four elements, until the   *)
(* controller sets five) cancels out of the code's sum.                    *)
(***************************************************************************)
RawQuota(size, share) ==
    [t \in Tags |-> IF t = 5 THEN (size - TotalOfFirstFour(share)) % WordSize
                             ELSE share[t]]
=============================================================================
