------------------------- MODULE MinFirstAllocation -------------------------
(***************************************************************************)
(* The allocation of new validators among node operators, the library      *)
(* MinFirstAllocationStrategy: rounds that each raise the first of the     *)
(* least filled buckets, until the wanted number is allocated or no bucket *)
(* has room.  Buckets and capacities are functions over a set of bucket    *)
(* numbers, in the order of the numbers.                                   *)
(***************************************************************************)
EXTENDS Integers, FiniteSetsExt

Math256_min(a, b) == IF a <= b THEN a ELSE b
Math256_max(a, b) == IF a >= b THEN a ELSE b
Math256_ceilDiv(a, b) == (a + b - 1) \div b

WithRoom(buckets, capacities) == {i \in DOMAIN buckets : buckets[i] < capacities[i]}

\* The numbers of the least filled buckets that have room.
BestCandidates(buckets, capacities) ==
    LET open == WithRoom(buckets, capacities)
    IN  {i \in open : \A j \in open : buckets[i] <= buckets[j]}

\* A bug: the share of the least filled buckets is rounded down.
RoundShareFloored(buckets, capacities, size, best, count) ==
    LET fuller == {buckets[j] : j \in {k \in WithRoom(buckets, capacities) : buckets[k] > buckets[best]}}
        limit  == Min({capacities[best]} \cup fuller)
    IN  Math256_min(size \div count, limit - buckets[best])

(***************************************************************************)
(* What one round gives to bucket `best`: the even share of the `count`    *)
(* least filled buckets, rounded up, never past its capacity nor past the  *)
(* next fuller bucket that has room.                                       *)
(***************************************************************************)
RoundShare(buckets, capacities, size, best, count) ==
    LET fuller == {buckets[j] : j \in {k \in WithRoom(buckets, capacities) : buckets[k] > buckets[best]}}
        limit  == Min({capacities[best]} \cup fuller)
    IN  Math256_min(Math256_ceilDiv(size, count), limit - buckets[best])

\* A round: the bucket that receives, and how much.
allocateToBestCandidate(buckets, capacities, size) ==
    LET candidates == BestCandidates(buckets, capacities)
        best       == Min(candidates)
        allocated  == IF size = 0 \/ candidates = {} THEN 0
                      ELSE RoundShare(buckets, capacities, size, best, Cardinality(candidates))
    IN  [allocated |-> allocated,
         buckets   |-> IF allocated = 0 THEN buckets ELSE [buckets EXCEPT ![best] = @ + allocated]]

(***************************************************************************)
(* The loop.  A round that allocates nothing ends it; every other round    *)
(* allocates at least one, so `size` rounds are enough.                    *)
(***************************************************************************)
allocate(buckets, capacities, size) ==
    LET state[k \in 0..size] ==
            IF k = 0 THEN [allocated |-> 0, buckets |-> buckets]
            ELSE LET round == allocateToBestCandidate(state[k - 1].buckets, capacities,
                                                      size - state[k - 1].allocated)
                 IN  [allocated |-> state[k - 1].allocated + round.allocated, buckets |-> round.buckets]
    IN  state[size]
=============================================================================
