--------------------- MODULE FinalizationBatches_proof ---------------------
(***************************************************************************)
(* Theorems about the choice of batches: however the calculation is cut    *)
(* into calls, the batches are those of the longest prefix of the queue    *)
(* that budget, time and number of batches admit, and they are accepted.   *)
(*                                                                         *)
(* BatchesInv says of every state between two calls what a single loop     *)
(* over the whole queue would have: it is shown round by round.            *)
(***************************************************************************)
EXTENDS FinalizationBatches, Sums_proof, SequenceTheorems, TLAPS

Request == [cumulativeBACE : Nat, cumulativeShares : Nat, timestamp : Nat, reportTimestamp : Nat]

(* Every request asks for some bACE and has some shares.                   *)
Growing(q) ==
  /\ q \in Seq(Request)
  /\ \A id \in 1 .. Len(q) :
       RequestOf(q, id).bACE \in Nat \ {0} /\ RequestOf(q, id).shares \in Nat \ {0}

Worths(q, m) == [id \in 1 .. Len(q) |-> Worth(RequestOf(q, id), m)]

Spent(q, m, last, h) == SumOf(Worths(q, m), last + 1 .. h)

BatchStarts(q, m, last, h) ==
  {id \in last + 1 .. h : id = last + 1 \/ ~ ExtendsBatch(q, id, m)}

(* Where a batch ends; the one before the first ends at `last`.            *)
EndOf(last, b, i) == IF i = 0 THEN last ELSE b[i]

(* The requests after `last` up to h, cut where a request does not extend  *)
(* the batch of the one before it.                                         *)
Cut(q, m, last, b, h) ==
  /\ b \in Seq(last + 1 .. Len(q)) /\ h \in last .. Len(q)
  /\ EndOf(last, b, Len(b)) = h
  /\ \A i \in 1 .. Len(b) :
       /\ EndOf(last, b, i - 1) < b[i]
       /\ \A id \in EndOf(last, b, i - 1) + 2 .. b[i] : ExtendsBatch(q, id, m)
  /\ {b[i] + 1 : i \in 1 .. Len(b) - 1} = BatchStarts(q, m, last, h) \ {last + 1}
  /\ Cardinality(BatchStarts(q, m, last, h)) = Len(b)

(* They are in time, within the budget and few enough.                     *)
Within(q, m, time, last, money, b, h) ==
  /\ Cut(q, m, last, b, h)
  /\ Len(b) <= MAX_BATCHES_LENGTH
  /\ Spent(q, m, last, h) <= money
  /\ h > last => q[h].timestamp <= time

(* And those up to h are not.                                              *)
Beyond(q, m, time, last, money, h) ==
  \/ q[h].timestamp > time
  \/ Spent(q, m, last, h) > money
  \/ Cardinality(BatchStarts(q, m, last, h)) > MAX_BATCHES_LENGTH

StateOK(q, m, time, last, money, st) ==
  \E h \in last .. Len(q) :
    /\ Within(q, m, time, last, money, st.batches, h)
    /\ IF st.finished THEN h = Len(q) \/ Beyond(q, m, time, last, money, h + 1)
                      ELSE st.remainingAceBudget = money - Spent(q, m, last, h)

BatchesInv ==
  /\ Growing(queue) /\ maxShareRate \in Nat \ {0}
  /\ lastFinalized \in 0 .. Len(queue) /\ maxTimestamp \in Nat /\ budget \in Nat
  /\ StateOK(queue, maxShareRate, maxTimestamp, lastFinalized, budget, state)

-----------------------------------------------------------------------------
(* Arithmetic *)

LEMMA QuotientBound ==
  ASSUME NEW a \in Nat, NEW b \in Nat \ {0}
  PROVE  /\ a \div b \in Nat
         /\ (a \div b) * b <= a
         /\ a < (a \div b + 1) * b
OBVIOUS

LEMMA ProductMonotone ==
  ASSUME NEW a \in Nat, NEW b \in Nat, NEW c \in Nat, a <= b
  PROVE  a * c \in Nat /\ b * c \in Nat /\ a * c <= b * c
OBVIOUS

LEMMA ProductPositive ==
  ASSUME NEW a \in Nat \ {0}, NEW b \in Nat, NEW c \in Nat, b * a <= c * a
  PROVE  b <= c
<1> SUFFICES ASSUME c + 1 <= b PROVE FALSE
  OBVIOUS
<1>1. (c + 1) * a <= b * a
  BY ProductMonotone
<1>2. (c + 1) * a = c * a + a /\ c * a \in Nat /\ b * a \in Nat
  OBVIOUS
<1> QED BY <1>1, <1>2

LEMMA Distributes ==
  ASSUME NEW x \in Nat, NEW y \in Nat, NEW z \in Nat
  PROVE  /\ (x + y) * z = x * z + y * z /\ z * (x + y) = z * x + z * y
         /\ x * z \in Nat /\ y * z \in Nat /\ z * x \in Nat /\ z * y \in Nat
OBVIOUS

(* A share rate is at most m if the bACE is less than the shares are worth *)
(* at the next one.                                                        *)
LEMMA RateSides ==
  ASSUME NEW a \in Nat, NEW s \in Nat \ {0}, NEW m \in Nat
  PROVE  /\ (a * E27_PRECISION_BASE) \div s \in Nat
         /\ (a * E27_PRECISION_BASE) \div s <= m <=> a * E27_PRECISION_BASE < (m + 1) * s
<1> DEFINE e == a * E27_PRECISION_BASE
           r == e \div s
<1>1. e \in Nat
  BY PrecisionAssumption, ProductMonotone
<1> HIDE DEF e
<1>2. r \in Nat /\ r * s <= e /\ e < (r + 1) * s
  BY <1>1, QuotientBound
<1> HIDE DEF r
<1>3. r + 1 \in Nat /\ m + 1 \in Nat /\ s \in Nat
  BY <1>2
<1>4. (r + 1) * s \in Nat /\ (m + 1) * s \in Nat /\ r * s \in Nat
  BY <1>2, <1>3, ProductMonotone
<1>5. CASE r <= m
  <2>1. (r + 1) * s <= (m + 1) * s
    BY <1>2, <1>3, <1>5, ProductMonotone
  <2> QED BY <1>1, <1>2, <1>4, <1>5, <2>1 DEF e, r
<1>6. CASE ~ (r <= m)
  <2>1. m + 1 <= r
    BY <1>2, <1>6
  <2>2. (m + 1) * s <= r * s
    BY <1>2, <1>3, <2>1, ProductMonotone
  <2> QED BY <1>1, <1>2, <1>4, <1>6, <2>2 DEF e, r
<1> QED BY <1>5, <1>6

-----------------------------------------------------------------------------
(* Requests *)

LEMMA QueueFacts ==
  ASSUME NEW q, Growing(q)
  PROVE  /\ Len(q) \in Nat /\ DOMAIN q = 1 .. Len(q)
         /\ \A id \in 1 .. Len(q) : q[id] \in Request
         /\ \A id \in 0 .. Len(q) : At(q, id) \in [cumulativeBACE : Nat, cumulativeShares : Nat]
<1>1. Len(q) \in Nat /\ DOMAIN q = 1 .. Len(q) /\ \A id \in 1 .. Len(q) : q[id] \in Request
  BY LenProperties, ElementOfSeq DEF Growing
<1>2. \A id \in 0 .. Len(q) : At(q, id) \in [cumulativeBACE : Nat, cumulativeShares : Nat]
  BY <1>1 DEF At, Request
<1> QED BY <1>1, <1>2

(* What a request is worth, in units of the precision, on either side.     *)
LEMMA RequestWorth ==
  ASSUME NEW q, Growing(q), NEW id \in 1 .. Len(q), NEW m \in Nat
  PROVE  LET a == RequestOf(q, id).bACE
             s == RequestOf(q, id).shares
             w == Worth(RequestOf(q, id), m)
         IN  /\ w \in Nat /\ a \in Nat \ {0} /\ s \in Nat \ {0}
             /\ RequestOf(q, id).shareRate \in Nat
             /\ RequestOf(q, id).shareRate > m =>
                  (m + 1) * s <= a * E27_PRECISION_BASE /\ m * s + 1 <= (w + 1) * E27_PRECISION_BASE
             /\ RequestOf(q, id).shareRate <= m =>
                  w = a /\ a * E27_PRECISION_BASE + 1 <= (m + 1) * s
<1> DEFINE a == RequestOf(q, id).bACE
           s == RequestOf(q, id).shares
           r == RequestOf(q, id).shareRate
           w == Worth(RequestOf(q, id), m)
           E == E27_PRECISION_BASE
<1>1. a \in Nat \ {0} /\ s \in Nat \ {0} /\ E \in Nat \ {0}
  BY PrecisionAssumption DEF Growing
<1>2. r = (a * E) \div s
  BY DEF RequestOf, CalcBatch
<1>3. w = IF r > m THEN (s * m) \div E ELSE a
  BY DEF Worth
<1> HIDE DEF a, s, r, w
<1>4. r \in Nat /\ (r <= m <=> a * E < (m + 1) * s)
  BY <1>1, <1>2, RateSides
<1>5. s * m \in Nat /\ s * m = m * s /\ a * E \in Nat /\ (m + 1) * s \in Nat
  BY <1>1, ProductMonotone
<1>6. (s * m) \div E \in Nat /\ s * m < ((s * m) \div E + 1) * E
  BY <1>1, <1>5, QuotientBound
<1> HIDE DEF E
<1>7. CASE r > m
  <2>1. w = (s * m) \div E
    BY <1>3, <1>7
  <2>2. (m + 1) * s <= a * E
    BY <1>4, <1>5, <1>7
  <2>3. m * s + 1 <= (w + 1) * E
    <3>1. (w + 1) * E \in Nat
      BY <1>1, <1>6, <2>1, ProductMonotone
    <3> QED BY <1>5, <1>6, <2>1, <3>1
  <2>4. w \in Nat /\ ~ (r <= m)
    BY <1>4, <1>6, <1>7, <2>1
  <2>5. /\ w \in Nat /\ a \in Nat \ {0} /\ s \in Nat \ {0} /\ r \in Nat
        /\ r > m => (m + 1) * s <= a * E /\ m * s + 1 <= (w + 1) * E
        /\ r <= m => w = a /\ a * E + 1 <= (m + 1) * s
    BY ONLY <1>1, <1>4, <2>2, <2>3, <2>4, Zenon
  <2> QED BY ONLY <2>5 DEF a, s, r, w, E
<1>8. CASE ~ (r > m)
  <2>1. w = a /\ r <= m
    BY <1>3, <1>4, <1>8
  <2>2. a * E + 1 <= (m + 1) * s
    BY <1>4, <1>5, <2>1
  <2>3. w \in Nat
    BY <1>1, <2>1
  <2>4. /\ w \in Nat /\ a \in Nat \ {0} /\ s \in Nat \ {0} /\ r \in Nat
        /\ r > m => (m + 1) * s <= a * E /\ m * s + 1 <= (w + 1) * E
        /\ r <= m => w = a /\ a * E + 1 <= (m + 1) * s
    BY ONLY <1>1, <1>4, <1>8, <2>1, <2>2, <2>3, Zenon
  <2> QED BY ONLY <2>4 DEF a, s, r, w, E
<1> QED BY <1>7, <1>8

LEMMA WorthsType ==
  ASSUME NEW q, Growing(q), NEW m \in Nat
  PROVE  \A id \in 1 .. Len(q) :
           Worths(q, m)[id] = Worth(RequestOf(q, id), m) /\ Worths(q, m)[id] \in Nat
BY RequestWorth DEF Worths

(* One request more.                                                       *)
LEMMA SpentStep ==
  ASSUME NEW q, Growing(q), NEW m \in Nat, NEW p \in 0 .. Len(q), NEW r \in p .. Len(q)
  PROVE  /\ Spent(q, m, p, r) \in Nat
         /\ Spent(q, m, p, p) = 0
         /\ r < Len(q) => Spent(q, m, p, r + 1) = Spent(q, m, p, r) + Worth(RequestOf(q, r + 1), m)
<1> DEFINE f == Worths(q, m)
<1>1. Len(q) \in Nat /\ p \in Nat /\ r \in Nat /\ p <= r /\ r <= Len(q)
  BY QueueFacts
<1>2. \A id \in 1 .. Len(q) : f[id] = Worth(RequestOf(q, id), m) /\ f[id] \in Nat /\ f[id] \in Int
  BY WorthsType
<1> HIDE DEF f
<1>3. \A k \in p .. Len(q) : IsFiniteSet(p + 1 .. k) /\ p + 1 .. k \subseteq 1 .. Len(q)
  <2>1. TAKE k \in p .. Len(q)
  <2> DEFINE l == Len(q)
             x == p + 1
  <2>2. x \in Int /\ k \in Int /\ l \in Int /\ 1 <= x /\ k <= l
    BY <1>1
  <2> HIDE DEF l, x
  <2>3. IsFiniteSet(x .. k)
    BY ONLY <2>2, FS_Interval
  <2>4. x .. k \subseteq 1 .. l
    BY ONLY <2>2
  <2> QED BY ONLY <2>3, <2>4 DEF l, x
<1>4. Spent(q, m, p, r) \in Nat
  <2>1. \A x \in p + 1 .. r : f[x] \in Nat
    BY <1>2, <1>3
  <2>2. IsFiniteSet(p + 1 .. r)
    BY <1>3
  <2>3. SumOf(f, p + 1 .. r) \in Nat
    BY <2>1, <2>2, SumOfNaturals
  <2> QED BY <2>3 DEF Spent, f
<1>5. Spent(q, m, p, p) = 0
  <2>1. p + 1 .. p = {}
    BY <1>1
  <2> QED BY <2>1, SumEmpty DEF Spent
<1>6. ASSUME r < Len(q)
      PROVE  Spent(q, m, p, r + 1) = Spent(q, m, p, r) + Worth(RequestOf(q, r + 1), m)
  <2> DEFINE S == p + 1 .. r + 1
  <2>1. r + 1 \in p .. Len(q) /\ r + 1 \in 1 .. Len(q) /\ r + 1 \in S /\ S \ {r + 1} = p + 1 .. r
    BY <1>1, <1>6
  <2>2. IsFiniteSet(S) /\ \A x \in S : f[x] \in Int
    BY <1>2, <1>3, <2>1
  <2> HIDE DEF S
  <2>3. SumOf(f, S) = f[r + 1] + SumOf(f, S \ {r + 1})
    BY <2>1, <2>2, SumStep
  <2>4. Spent(q, m, p, r + 1) = SumOf(f, S) /\ Spent(q, m, p, r) = SumOf(f, S \ {r + 1})
    BY <2>1 DEF Spent, f, S
  <2>5. f[r + 1] = Worth(RequestOf(q, r + 1), m) /\ f[r + 1] \in Nat
    BY <1>2, <2>1
  <2> QED BY <1>4, <2>3, <2>4, <2>5
<1> QED BY <1>4, <1>5, <1>6

-----------------------------------------------------------------------------
(* One round of the loop *)

LEMMA StartsFacts ==
  ASSUME NEW q, Growing(q), NEW m, NEW last \in 0 .. Len(q), NEW h \in last .. Len(q)
  PROVE  /\ IsFiniteSet(BatchStarts(q, m, last, h))
         /\ Cardinality(BatchStarts(q, m, last, h)) \in Nat
         /\ \A id \in BatchStarts(q, m, last, h) : id \in Nat /\ last < id /\ id <= h
         /\ h = last => BatchStarts(q, m, last, h) = {} /\ Cardinality(BatchStarts(q, m, last, h)) = 0
<1> DEFINE S == BatchStarts(q, m, last, h)
<1>1. Len(q) \in Nat /\ last \in Nat /\ h \in Nat /\ last <= h
  BY QueueFacts
<1>2. \A id \in S : id \in Nat /\ last < id /\ id <= h
  BY <1>1 DEF BatchStarts
<1>3. IsFiniteSet(S)
  <2>1. IsFiniteSet(last + 1 .. h) /\ S \subseteq last + 1 .. h
    BY <1>1, FS_Interval DEF BatchStarts
  <2> QED BY <2>1, FS_Subset
<1>4. h = last => S = {}
  <2> HIDE DEF S
  <2> QED BY <1>1, <1>2
<1>5. Cardinality(S) \in Nat /\ (S = {} => Cardinality(S) = 0)
  <2> HIDE DEF S
  <2> QED BY <1>3, FS_CardinalityType, FS_EmptySet
<1> QED BY <1>2, <1>3, <1>4, <1>5

LEMMA StartsSame ==
  ASSUME NEW q, Growing(q), NEW m, NEW last \in 0 .. Len(q), NEW h \in last .. Len(q),
         h # last, ExtendsBatch(q, h + 1, m)
  PROVE  BatchStarts(q, m, last, h + 1) = BatchStarts(q, m, last, h)
<1>1. Len(q) \in Nat /\ last \in Nat /\ h \in Nat /\ last <= h
  BY QueueFacts
<1> QED BY <1>1 DEF BatchStarts

LEMMA StartsMore ==
  ASSUME NEW q, Growing(q), NEW m, NEW last \in 0 .. Len(q), NEW h \in last .. Len(q),
         h = last \/ ~ ExtendsBatch(q, h + 1, m)
  PROVE  /\ BatchStarts(q, m, last, h + 1) = BatchStarts(q, m, last, h) \cup {h + 1}
         /\ Cardinality(BatchStarts(q, m, last, h + 1)) = Cardinality(BatchStarts(q, m, last, h)) + 1
<1> DEFINE S(k) == BatchStarts(q, m, last, k)
<1>1. Len(q) \in Nat /\ last \in Nat /\ h \in Nat /\ last <= h
  BY QueueFacts
<1>3. S(h + 1) = S(h) \cup {h + 1}
  BY <1>1 DEF BatchStarts
<1>4. IsFiniteSet(S(h)) /\ Cardinality(S(h)) \in Nat /\ \A x \in S(h) : x \in Nat /\ x <= h
  BY StartsFacts
<1>5. h + 1 \notin S(h)
  <2> HIDE DEF S
  <2> QED BY <1>1, <1>4
<1>6. Cardinality(S(h) \cup {h + 1}) = Cardinality(S(h)) + 1
  <2> HIDE DEF S
  <2> QED BY <1>4, <1>5, FS_AddElement
<1> QED BY <1>3, <1>6

LEMMA CutFacts ==
  ASSUME NEW q, Growing(q), NEW m, NEW last \in 0 .. Len(q), NEW b, NEW h, Cut(q, m, last, b, h)
  PROVE  /\ Len(q) \in Nat /\ last \in Nat /\ h \in Nat /\ last <= h /\ h <= Len(q)
         /\ Len(b) \in Nat /\ DOMAIN b = 1 .. Len(b)
         /\ \A i \in 1 .. Len(b) : b[i] \in last + 1 .. Len(q) /\ b[i] \in Nat
         /\ b = <<>> <=> Len(b) = 0
         /\ b = <<>> <=> h = last
         /\ b # <<>> => Len(b) >= 1 /\ b[Len(b)] = h /\ Last(b) = h
<1>1. Len(q) \in Nat /\ last \in Nat /\ h \in Nat /\ last <= h /\ h <= Len(q)
  BY QueueFacts DEF Cut
<1>2. b \in Seq(last + 1 .. Len(q)) /\ EndOf(last, b, Len(b)) = h
  BY DEF Cut
<1>3. /\ Len(b) \in Nat /\ DOMAIN b = 1 .. Len(b)
      /\ \A i \in 1 .. Len(b) : b[i] \in last + 1 .. Len(q)
      /\ b = <<>> <=> Len(b) = 0
  BY <1>2, LenProperties, ElementOfSeq, EmptySeq
<1>4. \A i \in 1 .. Len(b) : b[i] \in Nat /\ b[i] > last
  BY <1>1, <1>3
<1>5. b # <<>> => Len(b) >= 1 /\ b[Len(b)] = h /\ Last(b) = h
  BY <1>2, <1>3 DEF EndOf, Last
<1>6. b = <<>> => h = last
  BY <1>2, <1>3 DEF EndOf
<1>7. b # <<>> => h # last
  <2>1. b # <<>> => Len(b) \in 1 .. Len(b)
    BY <1>3, <1>5
  <2> QED BY <1>1, <1>4, <1>5, <2>1
<1> QED BY <1>1, <1>3, <1>4, <1>5, <1>6, <1>7

LEMMA CutNothing ==
  ASSUME NEW q, Growing(q), NEW m, NEW last \in 0 .. Len(q)
  PROVE  Cut(q, m, last, <<>>, last)
<1>1. Len(q) \in Nat /\ last \in last .. Len(q) /\ <<>> \in Seq(last + 1 .. Len(q)) /\ Len(<<>>) = 0
  BY QueueFacts, EmptySeq
<1>2. BatchStarts(q, m, last, last) = {} /\ Cardinality(BatchStarts(q, m, last, last)) = 0
  BY <1>1, StartsFacts
<1>3. 1 .. 0 = {} /\ 1 .. 0 - 1 = {}
  OBVIOUS
<1> QED BY <1>1, <1>2, <1>3 DEF Cut, EndOf

(* The next request joins the last batch.                                  *)
LEMMA CutExtended ==
  ASSUME NEW q, Growing(q), NEW m, NEW last \in 0 .. Len(q), NEW b, NEW h, Cut(q, m, last, b, h),
         h < Len(q), b # <<>>, ExtendsBatch(q, h + 1, m)
  PROVE  Cut(q, m, last, [b EXCEPT ![Len(b)] = h + 1], h + 1)
<1> DEFINE c == [b EXCEPT ![Len(b)] = h + 1]
           n == Len(b)
<1>1. /\ Len(q) \in Nat /\ last \in Nat /\ h \in Nat /\ last <= h /\ h <= Len(q)
      /\ n \in Nat /\ DOMAIN b = 1 .. n /\ n >= 1 /\ b[n] = h /\ h # last
      /\ \A i \in 1 .. n : b[i] \in last + 1 .. Len(q) /\ b[i] \in Nat
  BY CutFacts
<1>2. b \in Seq(last + 1 .. Len(q)) /\ h \in last .. Len(q) /\ h + 1 \in last + 1 .. Len(q)
      /\ h + 1 \in last .. Len(q) /\ n \in 1 .. n
  BY <1>1 DEF Cut
<1>3. c \in Seq(last + 1 .. Len(q)) /\ Len(c) = n
  BY <1>2, ExceptSeq
<1>4. \A i \in 1 .. n : c[i] = IF i = n THEN h + 1 ELSE b[i]
  BY <1>1
<1> HIDE DEF c, n
<1>5. \A i \in 0 .. n - 1 : EndOf(last, c, i) = EndOf(last, b, i)
  BY <1>1, <1>4 DEF EndOf
<1>6. EndOf(last, c, n) = h + 1
  BY <1>1, <1>2, <1>4 DEF EndOf
<1>7. ASSUME NEW i \in 1 .. n
      PROVE  /\ EndOf(last, c, i - 1) < c[i]
             /\ \A id \in EndOf(last, c, i - 1) + 2 .. c[i] : ExtendsBatch(q, id, m)
  <2>1. /\ EndOf(last, b, i - 1) < b[i]
        /\ \A id \in EndOf(last, b, i - 1) + 2 .. b[i] : ExtendsBatch(q, id, m)
    BY <1>7 DEF Cut, n
  <2>2. i - 1 \in 0 .. n - 1 /\ EndOf(last, c, i - 1) = EndOf(last, b, i - 1)
    BY <1>1, <1>5
  <2>3. EndOf(last, b, i - 1) \in Nat
    <3>1. i # 1 => i - 1 \in 1 .. n
      BY <1>1
    <3> QED BY <1>1, <3>1 DEF EndOf
  <2>4. CASE i = n
    <3>1. c[i] = h + 1 /\ b[i] = h
      BY <1>1, <1>4, <2>4
    <3>2. \A id \in EndOf(last, b, i - 1) + 2 .. h + 1 :
             id = h + 1 \/ id \in EndOf(last, b, i - 1) + 2 .. h
      BY <1>1, <2>3
    <3>3. \A id \in EndOf(last, b, i - 1) + 2 .. h : ExtendsBatch(q, id, m)
      BY <2>1, <3>1
    <3>4. EndOf(last, b, i - 1) < h + 1
      BY <1>1, <2>1, <2>3, <3>1
    <3>5. \A id \in EndOf(last, b, i - 1) + 2 .. h + 1 : ExtendsBatch(q, id, m)
      BY <3>2, <3>3
    <3> QED BY <2>2, <3>1, <3>4, <3>5
  <2>5. CASE i # n
    BY <1>4, <2>1, <2>2, <2>5
  <2> QED BY <2>4, <2>5
<1>8. BatchStarts(q, m, last, h + 1) = BatchStarts(q, m, last, h)
  <2>1. h \in last .. Len(q) /\ h # last /\ ExtendsBatch(q, h + 1, m)
    BY <1>1, <1>2
  <2> QED BY <2>1, StartsSame
<1>9. {c[i] + 1 : i \in 1 .. n - 1} = {b[i] + 1 : i \in 1 .. n - 1}
  <2>1. \A i \in 1 .. n - 1 : i \in 1 .. n /\ i # n
    BY <1>1
  <2>2. \A i \in 1 .. n - 1 : c[i] = b[i]
    BY <1>4, <2>1
  <2> QED BY <2>2
<1>10. /\ {b[i] + 1 : i \in 1 .. n - 1} = BatchStarts(q, m, last, h) \ {last + 1}
       /\ Cardinality(BatchStarts(q, m, last, h)) = n
  BY DEF Cut, n
<1> QED BY <1>2, <1>3, <1>6, <1>7, <1>8, <1>9, <1>10 DEF Cut, c, n

(* It starts a batch.                                                      *)
LEMMA CutAppended ==
  ASSUME NEW q, Growing(q), NEW m, NEW last \in 0 .. Len(q), NEW b, NEW h, Cut(q, m, last, b, h),
         h < Len(q), b = <<>> \/ ~ ExtendsBatch(q, h + 1, m)
  PROVE  Cut(q, m, last, Append(b, h + 1), h + 1)
<1> DEFINE c == Append(b, h + 1)
           n == Len(b)
<1>1. /\ Len(q) \in Nat /\ last \in Nat /\ h \in Nat /\ last <= h /\ h <= Len(q)
      /\ n \in Nat /\ DOMAIN b = 1 .. n /\ (b = <<>> <=> n = 0) /\ (b = <<>> <=> h = last)
      /\ b # <<>> => n >= 1 /\ b[n] = h
      /\ \A i \in 1 .. n : b[i] \in last + 1 .. Len(q) /\ b[i] \in Nat
  BY CutFacts
<1>2. b \in Seq(last + 1 .. Len(q)) /\ h \in last .. Len(q) /\ h + 1 \in last + 1 .. Len(q)
      /\ h + 1 \in last .. Len(q) /\ EndOf(last, b, n) = h
  BY <1>1 DEF Cut
<1>3. /\ c \in Seq(last + 1 .. Len(q)) /\ Len(c) = n + 1
      /\ c[n + 1] = h + 1 /\ \A i \in 1 .. n : c[i] = b[i]
  BY <1>2, AppendProperties
<1> HIDE DEF c, n
<1>5. \A i \in 0 .. n : EndOf(last, c, i) = EndOf(last, b, i)
  BY <1>1, <1>3 DEF EndOf
<1>6. EndOf(last, c, n + 1) = h + 1
  BY <1>1, <1>3 DEF EndOf
<1>7. ASSUME NEW i \in 1 .. n + 1
      PROVE  /\ EndOf(last, c, i - 1) < c[i]
             /\ \A id \in EndOf(last, c, i - 1) + 2 .. c[i] : ExtendsBatch(q, id, m)
  <2>1. CASE i = n + 1
    <3>1. EndOf(last, c, i - 1) = h /\ c[i] = h + 1
      BY <1>1, <1>2, <1>3, <1>5, <2>1
    <3>2. h + 2 .. h + 1 = {} /\ h < h + 1
      BY <1>1
    <3> QED BY <3>1, <3>2
  <2>2. CASE i # n + 1
    <3>1. i \in 1 .. n /\ i - 1 \in 0 .. n
      BY <1>1, <2>2
    <3>2. /\ EndOf(last, b, i - 1) < b[i]
          /\ \A id \in EndOf(last, b, i - 1) + 2 .. b[i] : ExtendsBatch(q, id, m)
      BY <3>1 DEF Cut, n
    <3> QED BY <1>3, <1>5, <3>1, <3>2
  <2> QED BY <2>1, <2>2
<1>8. /\ BatchStarts(q, m, last, h + 1) = BatchStarts(q, m, last, h) \cup {h + 1}
      /\ Cardinality(BatchStarts(q, m, last, h + 1)) = Cardinality(BatchStarts(q, m, last, h)) + 1
  <2>1. h \in last .. Len(q) /\ (h = last \/ ~ ExtendsBatch(q, h + 1, m))
    BY <1>1, <1>2
  <2>2. CASE h = last
    BY <2>1, <2>2, StartsMore
  <2>3. CASE ~ ExtendsBatch(q, h + 1, m)
    BY <2>1, <2>3, StartsMore
  <2> QED BY <2>1, <2>2, <2>3
<1>10. /\ {b[i] + 1 : i \in 1 .. n - 1} = BatchStarts(q, m, last, h) \ {last + 1}
       /\ Cardinality(BatchStarts(q, m, last, h)) = n
  BY DEF Cut, n
<1>11. {c[i] + 1 : i \in 1 .. n} = BatchStarts(q, m, last, h + 1) \ {last + 1}
  <2>1. {c[i] + 1 : i \in 1 .. n} = {b[i] + 1 : i \in 1 .. n}
    BY <1>3
  <2>2. CASE b = <<>>
    <3>1. n = 0 /\ h = last /\ 1 .. n = {}
      BY <1>1, <2>2
    <3>2. BatchStarts(q, m, last, h) = {}
      BY <1>2, <3>1, StartsFacts
    <3> QED BY <1>8, <2>1, <3>1, <3>2
  <2>3. CASE b # <<>>
    <3>1. n >= 1 /\ b[n] = h /\ h # last
      BY <1>1, <2>3
    <3>2. 1 .. n = (1 .. n - 1) \cup {n}
      BY <1>1, <3>1
    <3>3. {b[i] + 1 : i \in 1 .. n} = {b[i] + 1 : i \in 1 .. n - 1} \cup {h + 1}
      BY <3>1, <3>2
    <3>4. h + 1 # last + 1
      BY <1>1, <3>1
    <3> QED BY <1>8, <1>10, <2>1, <3>3, <3>4
  <2> QED BY <2>2, <2>3
<1>12. Len(c) - 1 = n /\ Cardinality(BatchStarts(q, m, last, h + 1)) = Len(c)
  BY <1>1, <1>3, <1>8, <1>10
<1> QED BY <1>2, <1>3, <1>6, <1>7, <1>11, <1>12 DEF Cut, c, n

LoopStates(q, last) ==
  [remainingAceBudget : Int, batches : Seq(last + 1 .. Len(q)), stopped : BOOLEAN]

(* After the round for a request: it is the last one handled, or the loop  *)
(* has stopped at one that may not be.                                     *)
Round(q, m, time, last, money, id, st) ==
  /\ st \in LoopStates(q, last)
  /\ \E h \in last .. Len(q) :
       /\ Within(q, m, time, last, money, st.batches, h)
       /\ IF st.stopped THEN h < Len(q) /\ Beyond(q, m, time, last, money, h + 1)
                        ELSE h = id /\ st.remainingAceBudget = money - Spent(q, m, last, h)

LEMMA RoundType ==
  ASSUME NEW q, Growing(q), NEW m \in Nat, NEW time, NEW last \in 0 .. Len(q),
         NEW st \in LoopStates(q, last), NEW id \in last + 1 .. Len(q)
  PROVE  HandleRequest(q, m, time, st, id) \in LoopStates(q, last)
<1> DEFINE ace == Worth(RequestOf(q, id), m)
           spent == [st EXCEPT !.remainingAceBudget = @ - ace]
<1>1. ace \in Nat
  <2>1. id \in 1 .. Len(q)
    BY QueueFacts
  <2> QED BY <2>1, RequestWorth
<1> HIDE DEF ace
<1>2. spent \in LoopStates(q, last) /\ spent.batches = st.batches
  <2>1. st \in [remainingAceBudget : Int, batches : Seq(last + 1 .. Len(q)), stopped : BOOLEAN]
    BY DEF LoopStates
  <2> DEFINE left == st.remainingAceBudget - ace
  <2>2. left \in Int
    BY <1>1, <2>1
  <2> HIDE DEF left
  <2>3. /\ [st EXCEPT !.remainingAceBudget = left]
             \in [remainingAceBudget : Int, batches : Seq(last + 1 .. Len(q)), stopped : BOOLEAN]
        /\ [st EXCEPT !.remainingAceBudget = left].batches = st.batches
    BY ONLY <2>1, <2>2
  <2> QED BY <2>3 DEF left, LoopStates
<1>3. [st EXCEPT !.stopped = TRUE] \in LoopStates(q, last)
  BY DEF LoopStates
<1>4. [spent EXCEPT !.stopped = TRUE] \in LoopStates(q, last)
  <2> HIDE DEF spent
  <2> QED BY <1>2 DEF LoopStates
<1>5. [spent EXCEPT !.batches = Append(st.batches, id)] \in LoopStates(q, last)
  <2>1. Append(st.batches, id) \in Seq(last + 1 .. Len(q))
    BY AppendProperties DEF LoopStates
  <2> HIDE DEF spent
  <2> QED BY <1>2, <2>1 DEF LoopStates
<1>6. ASSUME st.batches # <<>>
      PROVE  [spent EXCEPT !.batches[Len(st.batches)] = id] \in LoopStates(q, last)
  <2> DEFINE new == [st.batches EXCEPT ![Len(st.batches)] = id]
  <2>1. st.batches \in Seq(last + 1 .. Len(q))
    BY DEF LoopStates
  <2>2. new \in Seq(last + 1 .. Len(q))
    <3>1. Len(st.batches) \in 1 .. Len(st.batches)
      BY <1>6, <2>1, LenProperties, EmptySeq
    <3> QED BY <2>1, <3>1, ExceptSeq
  <2>3. [spent EXCEPT !.batches[Len(st.batches)] = id] = [spent EXCEPT !.batches = new]
    <3> HIDE DEF spent
    <3> QED BY <1>2
  <2> HIDE DEF spent, new
  <2> QED BY <1>2, <2>2, <2>3 DEF LoopStates
<1> QED BY <1>3, <1>4, <1>5, <1>6 DEF HandleRequest, ace

LEMMA RoundStopped ==
  ASSUME NEW q, NEW m, NEW time, NEW last, NEW money, NEW id, NEW st \in LoopStates(q, last),
         NEW h \in last .. Len(q), Within(q, m, time, last, money, st.batches, h),
         st.stopped, h < Len(q), Beyond(q, m, time, last, money, h + 1)
  PROVE  Round(q, m, time, last, money, id, st)
BY DEF Round

LEMMA RoundGoesOn ==
  ASSUME NEW q, NEW m, NEW time, NEW last, NEW money, NEW id \in last .. Len(q),
         NEW st \in LoopStates(q, last), Within(q, m, time, last, money, st.batches, id),
         ~ st.stopped, st.remainingAceBudget = money - Spent(q, m, last, id)
  PROVE  Round(q, m, time, last, money, id, st)
BY DEF Round

LEMMA TooManyBatches ==
  ASSUME NEW q, Growing(q), NEW m, NEW last \in 0 .. Len(q), NEW b, NEW h, Cut(q, m, last, b, h),
         b = <<>> \/ ~ ExtendsBatch(q, h + 1, m), Len(b) = MAX_BATCHES_LENGTH
  PROVE  Cardinality(BatchStarts(q, m, last, h + 1)) > MAX_BATCHES_LENGTH
<1>1. h \in last .. Len(q) /\ (h = last \/ ~ ExtendsBatch(q, h + 1, m))
  BY CutFacts DEF Cut
<1>2. Cardinality(BatchStarts(q, m, last, h)) = MAX_BATCHES_LENGTH
  BY DEF Cut
<1>3. Cardinality(BatchStarts(q, m, last, h + 1)) = Cardinality(BatchStarts(q, m, last, h)) + 1
  BY <1>1, StartsMore
<1> QED BY <1>2, <1>3, PrecisionAssumption

LEMMA RoundStep ==
  ASSUME NEW q, Growing(q), NEW m \in Nat, NEW time \in Nat, NEW last \in 0 .. Len(q), NEW money \in Nat,
         NEW id \in last + 1 .. Len(q), NEW st, Round(q, m, time, last, money, id - 1, st)
  PROVE  Round(q, m, time, last, money, id, HandleRequest(q, m, time, st, id))
<1> DEFINE ace == Worth(RequestOf(q, id), m)
           spent == [st EXCEPT !.remainingAceBudget = @ - ace]
           b == st.batches
           new == HandleRequest(q, m, time, st, id)
           All(c, k) == Within(q, m, time, last, money, c, k)
           Out(k) == Beyond(q, m, time, last, money, k)
<1>1. st \in LoopStates(q, last) /\ new \in LoopStates(q, last)
  BY RoundType DEF Round
<1>2. PICK h \in last .. Len(q) :
        /\ All(b, h)
        /\ IF st.stopped THEN h < Len(q) /\ Out(h + 1)
                         ELSE h = id - 1 /\ st.remainingAceBudget = money - Spent(q, m, last, h)
  BY DEF Round
<1>3. /\ Len(q) \in Nat /\ last \in Nat /\ h \in Nat /\ id \in Nat /\ id \in 1 .. Len(q) /\ last <= h
      /\ q[id].timestamp \in Nat
  <2>1. Len(q) \in Nat /\ id \in 1 .. Len(q)
    BY QueueFacts
  <2>2. q[id] \in Request
    BY <2>1, QueueFacts
  <2> QED BY <2>1, <2>2 DEF Request
<1>4. ace \in Nat
  BY <1>3, RequestWorth
<1>5. Cut(q, m, last, b, h) /\ Len(b) <= MAX_BATCHES_LENGTH /\ Spent(q, m, last, h) <= money
  BY <1>2 DEF Within
<1>6. CASE st.stopped
  <2>1. new = [st EXCEPT !.stopped = TRUE]
    BY <1>6 DEF HandleRequest
  <2> HIDE DEF new
  <2>2. new.stopped /\ new.batches = b
    BY <1>1, <2>1 DEF LoopStates
  <2>3. h < Len(q) /\ Out(h + 1) /\ All(new.batches, h)
    BY <1>2, <1>6, <2>2
  <2> QED BY <1>1, <2>2, <2>3, RoundStopped DEF new
<1>7. CASE ~ st.stopped
  <2>1. h = id - 1 /\ h + 1 = id /\ h < Len(q) /\ st.remainingAceBudget = money - Spent(q, m, last, h)
    BY <1>2, <1>3, <1>7
  <2>2. /\ Spent(q, m, last, h) \in Nat /\ Spent(q, m, last, id) = Spent(q, m, last, h) + ace
        /\ Spent(q, m, last, id) \in Nat
    <3>1. h \in last .. Len(q) /\ h < Len(q)
      BY <1>2, <2>1
    <3>2. /\ Spent(q, m, last, h) \in Nat
          /\ Spent(q, m, last, h + 1) = Spent(q, m, last, h) + Worth(RequestOf(q, h + 1), m)
      BY <3>1, SpentStep
    <3> HIDE DEF new, All, Out
    <3>3. Spent(q, m, last, id) = Spent(q, m, last, h) + ace
      BY <2>1, <3>2
    <3> HIDE DEF ace
    <3> QED BY <1>4, <3>2, <3>3
  <2>3. Len(b) \in Nat /\ MAX_BATCHES_LENGTH \in Nat
    BY <1>1, LenProperties, PrecisionAssumption DEF LoopStates
  <2>4. ASSUME new.stopped, new.batches = b, Out(id) PROVE Round(q, m, time, last, money, id, new)
    <3> HIDE DEF new
    <3> QED BY <1>1, <1>2, <2>1, <2>4, RoundStopped
  <2>5. ASSUME ~ new.stopped, Cut(q, m, last, new.batches, id), Len(new.batches) <= MAX_BATCHES_LENGTH,
               new.remainingAceBudget = st.remainingAceBudget - ace,
               q[id].timestamp <= time, ace <= st.remainingAceBudget
        PROVE  Round(q, m, time, last, money, id, new)
    <3> HIDE DEF new, ace
    <3>1. Spent(q, m, last, id) <= money /\ new.remainingAceBudget = money - Spent(q, m, last, id)
      BY <1>4, <2>1, <2>2, <2>5
    <3>2. All(new.batches, id) /\ id \in last .. Len(q)
      BY <1>3, <2>5, <3>1 DEF Within
    <3> QED BY <1>1, <2>5, <3>1, <3>2, RoundGoesOn
  <2>6. CASE q[id].timestamp > time \/ ace > st.remainingAceBudget
    <3>1. new = [st EXCEPT !.stopped = TRUE]
      BY <2>6 DEF HandleRequest
    <3>2. new.stopped /\ new.batches = b
      <4> HIDE DEF new
      <4> QED BY <1>1, <3>1 DEF LoopStates
    <3>3. Out(id)
      <4> HIDE DEF ace
      <4> QED BY <1>4, <2>1, <2>2, <2>6 DEF Beyond
    <3> QED BY <2>4, <3>2, <3>3
  <2>7. CASE ~ (q[id].timestamp > time \/ ace > st.remainingAceBudget)
    <3>1. q[id].timestamp <= time /\ ace <= st.remainingAceBudget
      <4>1. st.remainingAceBudget \in Int
        BY <1>1 DEF LoopStates
      <4> DEFINE moment == q[id].timestamp
                 left   == st.remainingAceBudget
      <4> HIDE DEF ace
      <4>2. moment \in Nat /\ time \in Nat /\ ace \in Nat /\ left \in Int /\ ~ (moment > time) /\ ~ (ace > left)
        BY <1>3, <1>4, <2>7, <4>1
      <4> HIDE DEF moment, left
      <4>3. moment <= time /\ ace <= left
        BY ONLY <4>2
      <4> QED BY ONLY <4>3 DEF moment, left
    <3>2. spent \in LoopStates(q, last) /\ spent.batches = b /\ ~ spent.stopped
          /\ spent.remainingAceBudget = st.remainingAceBudget - ace
      <4> HIDE DEF ace
      <4>1. st \in [remainingAceBudget : Int, batches : Seq(last + 1 .. Len(q)), stopped : BOOLEAN]
        BY <1>1 DEF LoopStates
      <4>2. ace \in Int
        BY <1>4
      <4> HIDE DEF new, All, Out
      <4>3. spent = [st EXCEPT !.remainingAceBudget = st.remainingAceBudget - ace]
        BY <4>1
      <4>4. st.remainingAceBudget - ace \in Int
        BY <4>1, <4>2
      <4> QED BY <1>7, <4>1, <4>3, <4>4 DEF LoopStates
    <3>3. CASE b # <<>> /\ ExtendsBatch(q, id, m)
      <4> DEFINE c == [b EXCEPT ![Len(b)] = id]
      <4>1. new = [spent EXCEPT !.batches[Len(b)] = id]
        BY <1>7, <2>7, <3>3 DEF HandleRequest
      <4> HIDE DEF spent, new
      <4>2. new = [spent EXCEPT !.batches = c]
        BY <3>2, <4>1
      <4>3. Cut(q, m, last, c, id)
        BY <1>5, <2>1, <3>3, CutExtended
      <4>4. Len(c) = Len(b)
        OBVIOUS
      <4>5. new.batches = c /\ ~ new.stopped /\ new.remainingAceBudget = st.remainingAceBudget - ace
        <5> HIDE DEF c
        <5> QED BY <3>2, <4>2 DEF LoopStates
      <4> HIDE DEF c
      <4> QED BY <1>5, <2>5, <3>1, <4>3, <4>4, <4>5 DEF new
    <3>4. CASE ~ (b # <<>> /\ ExtendsBatch(q, id, m)) /\ Len(b) = MAX_BATCHES_LENGTH
      <4>1. new = [spent EXCEPT !.stopped = TRUE]
        BY <1>7, <2>7, <3>4 DEF HandleRequest
      <4>2. new.stopped /\ new.batches = b
        <5> HIDE DEF spent, new
        <5> QED BY <3>2, <4>1 DEF LoopStates
      <4>3. Out(id)
        <5> HIDE DEF new, ace, spent
        <5>1. Cardinality(BatchStarts(q, m, last, id)) > MAX_BATCHES_LENGTH
          <6> HIDE DEF b
          <6> QED BY <1>5, <2>1, <3>4, TooManyBatches
        <5> QED BY <5>1 DEF Beyond
      <4> QED BY <2>4, <4>2, <4>3
    <3>5. CASE ~ (b # <<>> /\ ExtendsBatch(q, id, m)) /\ Len(b) # MAX_BATCHES_LENGTH
      <4> DEFINE c == Append(b, id)
      <4>1. new = [spent EXCEPT !.batches = c]
        BY <1>7, <2>7, <3>5 DEF HandleRequest
      <4>2. Cut(q, m, last, c, id)
        BY <1>5, <2>1, <3>5, CutAppended
      <4>3. Len(c) = Len(b) + 1
        <5>1. b \in Seq(last + 1 .. Len(q))
          BY <1>5 DEF Cut
        <5> QED BY <5>1, AppendProperties
      <4>4. new.batches = c /\ ~ new.stopped /\ new.remainingAceBudget = st.remainingAceBudget - ace
        <5> HIDE DEF c, spent, new
        <5> QED BY <3>2, <4>1 DEF LoopStates
      <4>5. Len(c) <= MAX_BATCHES_LENGTH
        BY <1>5, <2>3, <3>5, <4>3
      <4> HIDE DEF c, new
      <4> QED BY <2>5, <3>1, <4>2, <4>4, <4>5 DEF new
    <3> QED BY <3>3, <3>4, <3>5
  <2> QED BY <2>6, <2>7
<1> QED BY <1>6, <1>7

-----------------------------------------------------------------------------
(* One call *)

LEMMA NextIsNext ==
  ASSUME NEW q, Growing(q), NEW m, NEW last \in 0 .. Len(q), NEW b, NEW h, Cut(q, m, last, b, h)
  PROVE  NextId(last, b) = h + 1
<1>1. (b = <<>> <=> h = last) /\ (b # <<>> => b[Len(b)] = h)
  BY CutFacts
<1>2. Last(b) = b[Len(b)]
  BY DEF Last
<1> QED BY <1>1, <1>2 DEF NextId

LEMMA CallKeeps ==
  ASSUME NEW q, Growing(q), NEW m \in Nat, NEW time \in Nat, NEW last \in 0 .. Len(q), NEW money \in Nat,
         NEW st, StateOK(q, m, time, last, money, st), ~ st.finished, NEW limit \in Nat \ {0}
  PROVE  StateOK(q, m, time, last, money,
                 CalculateFinalizationBatches(q, last, m, time, limit, st))
<1>1. PICK h \in last .. Len(q) :
        /\ Within(q, m, time, last, money, st.batches, h)
        /\ st.remainingAceBudget = money - Spent(q, m, last, h)
  BY DEF StateOK
<1> DEFINE first == NextId(last, st.batches)
           upTo == IF first + limit > Len(q) + 1 THEN Len(q) ELSE first + limit - 1
           ids == [i \in 1 .. upTo + 1 - first |-> first + i - 1]
           base == [remainingAceBudget |-> st.remainingAceBudget,
                    batches |-> st.batches, stopped |-> FALSE]
           S == DOMAIN ids
           T == LoopStates(q, last)
           Step(y, x) == HandleRequest(q, m, time, y, ids[x])
           k == CHOOSE g : g = [s \in SUBSET S |->
                  IF s = {} THEN base ELSE Step(g[s \ {Max(s)}], Max(s))]
           c == [s \in SUBSET S |-> Max(s)]
           g == [p \in S \X T |-> Step(p[2], p[1])]
           n == upTo - h
<1>2. /\ Cut(q, m, last, st.batches, h) /\ Len(q) \in Nat /\ last \in Nat /\ h \in Nat
      /\ last <= h /\ h <= Len(q) /\ st.batches \in Seq(last + 1 .. Len(q))
  <2>1. Cut(q, m, last, st.batches, h)
    BY <1>1 DEF Within
  <2> QED BY <2>1, CutFacts DEF Cut
<1>3. first = h + 1
  BY <1>2, NextIsNext
<1>4. upTo \in Nat /\ h <= upTo /\ upTo <= Len(q) /\ n \in Nat /\ n \in Int /\ upTo + 1 - first = n
      /\ h + n = upTo
  <2> HIDE DEF first
  <2>1. upTo \in Nat /\ h <= upTo /\ upTo <= Len(q)
    BY <1>2, <1>3
  <2> HIDE DEF upTo
  <2> QED BY <1>2, <1>3, <2>1
<1>5. S = 1 .. n /\ IsFiniteSet(S) /\ S \subseteq Nat
      /\ \A i \in S : ids[i] = h + i /\ ids[i] \in last + 1 .. Len(q)
  <2> HIDE DEF upTo, first
  <2>1. S = 1 .. n /\ \A i \in 1 .. n : ids[i] = h + 1 + i - 1
    BY <1>3, <1>4
  <2> HIDE DEF ids, S
  <2>2. IsFiniteSet(S)
    <3> HIDE DEF n
    <3> QED BY <1>4, <2>1, FS_Interval
  <2>3. \A i \in 1 .. n : h + 1 + i - 1 = h + i /\ h + i \in last + 1 .. Len(q)
    BY <1>2, <1>4
  <2>4. 1 .. n \subseteq Nat
    BY <1>4
  <2> HIDE DEF n
  <2> QED BY <2>1, <2>2, <2>3, <2>4
<1>6. base \in T
  <2>1. Spent(q, m, last, h) \in Nat
    BY <1>1, SpentStep
  <2>2. st.remainingAceBudget \in Int
    BY <1>1, <2>1
  <2> QED BY <1>2, <2>2 DEF LoopStates
<1>7. \A x \in S, y \in T : Step(y, x) \in T
  <2> HIDE DEF ids, S
  <2> QED BY <1>5, RoundType
<1>8. \A s \in SUBSET S : s # {} => Max(s) \in s /\ \A y \in s : y <= Max(s)
  <2> HIDE DEF S, n
  <2> QED BY <1>4, <1>5, MaxOfSome
<1>9. Chooses(c, S)
  <2> HIDE DEF S
  <2> QED BY <1>8 DEF Chooses
<1>10. \A x \in S, y \in T : g[<<x, y>>] = Step(y, x)
  <2> HIDE DEF S, T, Step
  <2> QED OBVIOUS
<1>11. PICK f : Solves(f, g, c, base, S)
  <2> HIDE DEF g, c, base, S
  <2> QED BY <1>5, <1>9, FoldExists
<1>12. \A s \in SUBSET S : f[s] \in T
  <2>1. \A x \in S, y \in T : g[<<x, y>>] \in T
    <3> HIDE DEF S, T, g, Step
    <3> QED BY <1>7, <1>10
  <2> HIDE DEF g, c, base, S, T
  <2> QED BY <1>5, <1>6, <1>9, <1>11, <2>1, FoldType
<1>13. f = [s \in SUBSET S |-> IF s = {} THEN base ELSE Step(f[s \ {Max(s)}], Max(s))]
  <2>1. \A s \in SUBSET S : c[s] = Max(s)
    <3> HIDE DEF S
    <3> QED OBVIOUS
  <2>2. \A s \in SUBSET S : s # {} =>
           g[<<c[s], f[s \ {c[s]}]>>] = Step(f[s \ {Max(s)}], Max(s))
    <3> SUFFICES ASSUME NEW s \in SUBSET S, s # {}
                 PROVE  g[<<Max(s), f[s \ {Max(s)}]>>] = Step(f[s \ {Max(s)}], Max(s))
      BY <2>1
    <3>1. Max(s) \in S /\ f[s \ {Max(s)}] \in T
      <4> HIDE DEF S, T
      <4> QED BY <1>8, <1>12
    <3> HIDE DEF S, T, g, Step
    <3> QED BY <1>10, <3>1
  <2>3. f = [s \in SUBSET S |-> IF s = {} THEN base ELSE g[<<c[s], f[s \ {c[s]}]>>]]
    <3> HIDE DEF S, g, c, base
    <3> QED BY <1>11 DEF Solves
  <2> HIDE DEF S, g, c, base, Step
  <2> QED BY <2>2, <2>3
<1>14. k = [s \in SUBSET S |-> IF s = {} THEN base ELSE Step(k[s \ {Max(s)}], Max(s))]
  <2> HIDE DEF S, base, Step
  <2> QED BY <1>13
<1>15. Round(q, m, time, last, money, upTo, k[S])
  <2> DEFINE P == {j \in 0 .. n : Round(q, m, time, last, money, h + j, k[1 .. j])}
  <2>1. 0 \in P
    <3> HIDE DEF S, base, Step, k, c, g, ids, T, n
    <3>1. 1 .. 0 = {} /\ {} \in SUBSET S /\ 0 \in 0 .. n /\ h + 0 = h
      BY <1>2, <1>4
    <3>2. k[{}] = base
      BY <1>14, <3>1
    <3>3. base \in LoopStates(q, last) /\ base.batches = st.batches /\ ~ base.stopped
          /\ base.remainingAceBudget = money - Spent(q, m, last, h)
      BY <1>1, <1>6 DEF base, T
    <3>4. h \in last .. Len(q) /\ Within(q, m, time, last, money, base.batches, h)
      BY <1>1, <3>3
    <3>5. Round(q, m, time, last, money, h, base)
      BY <3>3, <3>4, RoundGoesOn
    <3> QED BY <3>1, <3>2, <3>5
  <2>2. ASSUME NEW j \in 1 .. n, j - 1 \in P PROVE j \in P
    <3> HIDE DEF S, base, k, c, g, ids, T
    <3> DEFINE s == 1 .. j
    <3>1. /\ j \in s /\ s \ {j} = 1 .. j - 1 /\ s \subseteq 1 .. n /\ s # {} /\ j \in 0 .. n
          /\ h + (j - 1) = (h + j) - 1 /\ h + j \in last + 1 .. Len(q)
          /\ \A y \in s : y \in Nat /\ y <= j
      <4>1. j \in Nat /\ j >= 1 /\ j <= n
        BY <1>4
      <4>2. h + (j - 1) = (h + j) - 1 /\ h + j \in last + 1 .. Len(q)
        BY <1>2, <1>4, <4>1
      <4> HIDE DEF n
      <4>5. j \in s
        BY <4>1
      <4>6. s \ {j} = 1 .. j - 1
        BY <4>1
      <4>3. \A y \in s : y \in Nat /\ y <= j
        BY <4>1
      <4>4. s \subseteq 1 .. n /\ j \in 0 .. n
        BY <1>4, <4>1
      <4> QED BY <4>5, <4>6, <4>2, <4>3, <4>4
    <3> HIDE DEF s, n
    <3>2. Max(s) = j
      <4>1. Max(s) \in s /\ \A y \in s : y <= Max(s)
        BY <1>5, <1>8, <3>1
      <4>2. Max(s) \in Nat /\ Max(s) <= j /\ j <= Max(s) /\ j \in Nat
        BY <3>1, <4>1
      <4> QED BY <4>2
    <3>3. k[s] = Step(k[1 .. j - 1], j)
      <4> HIDE DEF Step
      <4> QED BY <1>5, <1>14, <3>1, <3>2
    <3>4. ids[j] = h + j
      BY <1>5
    <3>5. Round(q, m, time, last, money, (h + j) - 1, k[1 .. j - 1])
      BY <2>2, <3>1
    <3>6. Round(q, m, time, last, money, h + j, HandleRequest(q, m, time, k[1 .. j - 1], h + j))
      BY <3>1, <3>5, RoundStep
    <3> QED BY <3>1, <3>3, <3>4, <3>6 DEF s
  <2>3. n \in P
    <3>1. n \in 0 .. n /\ n \in Nat
      BY <1>4
    <3>2. 0 \in P /\ \A j \in 1 .. n : j - 1 \in P => j \in P
      <4> HIDE DEF P, n
      <4> QED BY <2>1, <2>2
    <3> HIDE DEF P, n
    <3>3. \A j \in 0 .. n : j \in P
      BY ONLY <3>1, <3>2, UpTo
    <3> QED BY ONLY <3>1, <3>3
  <2> HIDE DEF k, S, n, upTo
  <2> QED BY <1>4, <1>5, <2>3
<1>16. CalculateFinalizationBatches(q, last, m, time, limit, st) =
         [remainingAceBudget |-> k[S].remainingAceBudget, batches |-> k[S].batches,
          finished |-> k[S].stopped \/ upTo = Len(q)]
  BY DEF CalculateFinalizationBatches, IsFinished, FoldLeft, MapThenFoldSet
<1> DEFINE run == k[S]
           new == [remainingAceBudget |-> run.remainingAceBudget, batches |-> run.batches,
                   finished |-> run.stopped \/ upTo = Len(q)]
<1> HIDE DEF k, S, upTo
<1>17. PICK j \in last .. Len(q) :
         /\ Within(q, m, time, last, money, run.batches, j)
         /\ IF run.stopped THEN j < Len(q) /\ Beyond(q, m, time, last, money, j + 1)
                           ELSE j = upTo /\ run.remainingAceBudget = money - Spent(q, m, last, j)
  BY <1>15 DEF Round
<1> HIDE DEF run
<1>18. StateOK(q, m, time, last, money, new)
  BY <1>17 DEF StateOK
<1> QED BY <1>16, <1>18 DEF run

-----------------------------------------------------------------------------
(* The queue *)

LEMMA QuotientPositive ==
  ASSUME NEW a \in Nat, NEW b \in Nat \ {0}, a >= b
  PROVE  a \div b \in Nat \ {0}
<1>1. a \div b \in Nat /\ a < (a \div b + 1) * b
  BY QuotientBound
<1> DEFINE r == a \div b
<1> HIDE DEF r
<1>2. ASSUME r = 0 PROVE FALSE
  <2>1. (r + 1) * b = b
    BY <1>2
  <2> QED BY <1>1, <2>1 DEF r
<1> QED BY <1>1, <1>2 DEF r

(* Sums up to a number.                                                    *)
LEMMA SumUpTo ==
  ASSUME NEW n \in Nat, NEW f, \A i \in 1 .. n : f[i] \in Nat
  PROVE  /\ SumOf(f, 1 .. 0) = 0
         /\ \A i \in 0 .. n : SumOf(f, 1 .. i) \in Nat
         /\ \A i \in 1 .. n : SumOf(f, 1 .. i) = SumOf(f, 1 .. i - 1) + f[i]
<1>1. SumOf(f, 1 .. 0) = 0
  <2>1. 1 .. 0 = {}
    OBVIOUS
  <2> QED BY <2>1, SumEmpty
<1>2. ASSUME NEW i \in 0 .. n
      PROVE  IsFiniteSet(1 .. i) /\ (\A x \in 1 .. i : f[x] \in Nat /\ f[x] \in Int) /\ SumOf(f, 1 .. i) \in Nat
  <2>1. IsFiniteSet(1 .. i)
    BY FS_Interval
  <2>2. \A x \in 1 .. i : x \in 1 .. n
    OBVIOUS
  <2>3. \A x \in 1 .. i : f[x] \in Nat /\ f[x] \in Int
    BY <2>2
  <2>4. SumOf(f, 1 .. i) \in Nat
    BY <2>1, <2>3, SumOfNaturals
  <2> QED BY <2>1, <2>3, <2>4
<1>3. ASSUME NEW i \in 1 .. n
      PROVE  SumOf(f, 1 .. i) = SumOf(f, 1 .. i - 1) + f[i]
  <2>1. i \in 1 .. i /\ (1 .. i) \ {i} = 1 .. i - 1 /\ i \in 0 .. n /\ i - 1 \in 0 .. n
    OBVIOUS
  <2> DEFINE S == 1 .. i
  <2>2. IsFiniteSet(S) /\ (\A x \in S : f[x] \in Int) /\ i \in S
    BY <1>2, <2>1
  <2>3. f[i] \in Nat /\ SumOf(f, 1 .. i - 1) \in Nat
    BY <1>2, <2>1
  <2> HIDE DEF S
  <2>4. SumOf(f, S) = f[i] + SumOf(f, S \ {i})
    BY <2>2, SumStep
  <2>5. S \ {i} = 1 .. i - 1 /\ S = 1 .. i
    BY <2>1 DEF S
  <2>6. SumOf(f, 1 .. i) = f[i] + SumOf(f, 1 .. i - 1)
    BY <2>4, <2>5
  <2> QED BY <2>3, <2>6
<1> QED BY <1>1, <1>2, <1>3

(* Shares of the request i.                                                *)
SharesAt(amounts, reports, rates, i) == SharesByPooledAce(amounts[i], rates[reports[i]])

SharesOfAll(amounts, reports, rates) ==
  [i \in DOMAIN amounts |-> SharesAt(amounts, reports, rates, i)]

LEMMA SharesAreSum ==
  ASSUME NEW n \in Nat, NEW amounts \in [1 .. n -> Amounts], NEW reports, NEW rates, NEW i \in 1 .. n
  PROVE  QueueOf(amounts, reports, rates)[i] =
           [cumulativeBACE   |-> SumOf(amounts, 1 .. i),
            cumulativeShares |-> SumOf(SharesOfAll(amounts, reports, rates), 1 .. i),
            timestamp |-> i, reportTimestamp |-> reports[i]]
<1> DEFINE S == 1 .. i
           f == SharesOfAll(amounts, reports, rates)
           sh(j) == SharesByPooledAce(amounts[j], rates[reports[j]])
           c(s) == CHOOSE x \in s : TRUE
           k == CHOOSE g : g = [s \in SUBSET S |->
                  IF s = {} THEN 0 ELSE sh(c(s)) + g[s \ {c(s)}]]
<1>0. IsFiniteSet(S) /\ \A j \in S : j \in 1 .. n /\ f[j] = sh(j)
  <2>1. IsFiniteSet(S) /\ \A j \in S : j \in 1 .. n
    BY FS_Interval
  <2>2. DOMAIN amounts = 1 .. n
    OBVIOUS
  <2> QED BY <2>1, <2>2 DEF SharesOfAll, SharesAt
<1>1. QueueOf(amounts, reports, rates)[i] =
           [cumulativeBACE   |-> SumOf(amounts, 1 .. i), cumulativeShares |-> k[S],
            timestamp |-> i, reportTimestamp |-> reports[i]]
  <2>1. i \in DOMAIN amounts
    OBVIOUS
  <2> QED BY <2>1 DEF QueueOf, SumOf, MapThenSumSet, MapThenFoldSet
<1> HIDE DEF f
<1>2. PICK h : Iterates(h, f, S)
  BY <1>0, IterationExists
<1>3. \A s \in SUBSET S : s # {} => f[c(s)] = sh(c(s))
  <2>1. \A s \in SUBSET S : s # {} => c(s) \in S
    OBVIOUS
  <2> HIDE DEF c, S
  <2> QED BY <1>0, <2>1
<1>4. h = [s \in SUBSET S |-> IF s = {} THEN 0 ELSE sh(c(s)) + h[s \ {c(s)}]]
  <2>1. h = [s \in SUBSET S |-> IF s = {} THEN 0 ELSE f[c(s)] + h[s \ {c(s)}]]
    BY <1>2 DEF Iterates
  <2> HIDE DEF c, S, sh
  <2> QED BY <1>3, <2>1
<1>5. k = [s \in SUBSET S |-> IF s = {} THEN 0 ELSE sh(c(s)) + k[s \ {c(s)}]]
  <2> HIDE DEF c, S, sh
  <2> QED BY <1>4
<1>6. k = [s \in SUBSET S |-> IF s = {} THEN 0 ELSE f[c(s)] + k[s \ {c(s)}]]
  <2> HIDE DEF c, S, k, sh
  <2> QED BY <1>3, <1>5
<1>7. Iterates(k, f, S)
  <2> HIDE DEF k, S, sh
  <2> QED BY <1>6 DEF Iterates
<1> HIDE DEF k
<1>8. SumOf(f, S) = k[S]
  <2> HIDE DEF S
  <2> QED BY <1>0, <1>7, SumIsIterated
<1> QED BY <1>1, <1>8 DEF f, S

LEMMA QueueGrows ==
  ASSUME NEW n \in Nat, NEW amounts \in [1 .. n -> Amounts], NEW reports \in [1 .. n -> 0 .. MaxReport],
         NEW rates \in [0 .. MaxReport -> Rates]
  PROVE  Growing(QueueOf(amounts, reports, rates)) /\ Len(QueueOf(amounts, reports, rates)) = n
<1> DEFINE q == QueueOf(amounts, reports, rates)
           f == SharesOfAll(amounts, reports, rates)
<1>1. MaxReport \in Nat /\ Amounts \subseteq Nat \ {0} /\ Rates \subseteq (Nat \ {0}) \X (Nat \ {0})
      /\ \A a \in Amounts, r \in Rates : a * r[2] >= r[1]
  BY FinalizationBatchesAssumption
<1>2. \A i \in 1 .. n : amounts[i] \in Nat \ {0} /\ amounts[i] \in Nat
  BY <1>1
<1>3. ASSUME NEW i \in 1 .. n PROVE f[i] \in Nat \ {0} /\ f[i] \in Nat
  <2> DEFINE a == amounts[i]
             r == rates[reports[i]]
  <2>1. a \in Amounts /\ reports[i] \in 0 .. MaxReport
    OBVIOUS
  <2>2. r \in Rates
    BY <2>1
  <2>3. f[i] = (a * r[2]) \div r[1]
    <3>1. i \in DOMAIN amounts
      OBVIOUS
    <3> QED BY <3>1 DEF SharesOfAll, SharesAt, SharesByPooledAce
  <2> HIDE DEF a, r, f
  <2>4. a \in Nat /\ r[1] \in Nat \ {0} /\ r[2] \in Nat \ {0} /\ a * r[2] >= r[1]
    BY <1>1, <2>1, <2>2
  <2>5. a * r[2] \in Nat
    BY <2>4, ProductMonotone
  <2> QED BY <2>3, <2>4, <2>5, QuotientPositive
<1>4. \A i \in 1 .. n : q[i] =
           [cumulativeBACE |-> SumOf(amounts, 1 .. i), cumulativeShares |-> SumOf(f, 1 .. i),
            timestamp |-> i, reportTimestamp |-> reports[i]]
  BY SharesAreSum
<1>5. /\ SumOf(amounts, 1 .. 0) = 0 /\ SumOf(f, 1 .. 0) = 0
      /\ \A i \in 0 .. n : SumOf(amounts, 1 .. i) \in Nat /\ SumOf(f, 1 .. i) \in Nat
      /\ \A i \in 1 .. n : /\ SumOf(amounts, 1 .. i) = SumOf(amounts, 1 .. i - 1) + amounts[i]
                           /\ SumOf(f, 1 .. i) = SumOf(f, 1 .. i - 1) + f[i]
  <2> HIDE DEF f
  <2> QED BY <1>2, <1>3, SumUpTo
<1>6. DOMAIN q = 1 .. n /\ q = [i \in 1 .. n |-> q[i]]
  BY DEF QueueOf
<1> HIDE DEF q, f
<1>7. \A i \in 1 .. n : q[i] \in Request
  <2> SUFFICES ASSUME NEW i \in 1 .. n PROVE q[i] \in Request
    OBVIOUS
  <2>1. i \in 0 .. n /\ i \in Nat /\ reports[i] \in Nat
    BY <1>1
  <2>2. SumOf(amounts, 1 .. i) \in Nat /\ SumOf(f, 1 .. i) \in Nat
    BY <1>5, <2>1
  <2> DEFINE x == SumOf(amounts, 1 .. i)
             y == SumOf(f, 1 .. i)
  <2>3. q[i] = [cumulativeBACE |-> x, cumulativeShares |-> y, timestamp |-> i, reportTimestamp |-> reports[i]]
    BY <1>4
  <2> HIDE DEF x, y
  <2> QED BY <2>1, <2>2, <2>3 DEF Request, x, y
<1>8. q \in Seq(Request) /\ Len(q) = n
  <2>1. q \in [1 .. n -> Request]
    BY <1>6, <1>7
  <2>2. q \in Seq(Request)
    BY <2>1, SeqDef
  <2>3. Len(q) \in Nat /\ 1 .. Len(q) = 1 .. n
    BY <1>6, <2>2, LenProperties
  <2>4. Len(q) = n
    <3> DEFINE l == Len(q)
    <3>1. l \in Nat /\ 1 .. l = 1 .. n
      BY <2>3
    <3> HIDE DEF l
    <3> QED BY <3>1 DEF l
  <2> QED BY <2>2, <2>4
<1>9. \A i \in 0 .. n : At(q, i) = [cumulativeBACE |-> SumOf(amounts, 1 .. i), cumulativeShares |-> SumOf(f, 1 .. i)]
  <2> SUFFICES ASSUME NEW i \in 0 .. n
               PROVE  At(q, i) = [cumulativeBACE |-> SumOf(amounts, 1 .. i), cumulativeShares |-> SumOf(f, 1 .. i)]
    OBVIOUS
  <2>1. CASE i = 0
    BY <1>5, <2>1 DEF At
  <2>2. CASE i # 0
    <3>1. i \in 1 .. n
      BY <2>2
    <3> DEFINE x == SumOf(amounts, 1 .. i)
               y == SumOf(f, 1 .. i)
    <3>2. q[i] = [cumulativeBACE |-> x, cumulativeShares |-> y, timestamp |-> i, reportTimestamp |-> reports[i]]
      BY <1>4, <3>1
    <3> HIDE DEF x, y
    <3>3. At(q, i) = [cumulativeBACE |-> x, cumulativeShares |-> y]
      BY <2>2, <3>2 DEF At
    <3> QED BY <3>3 DEF x, y
  <2> QED BY <2>1, <2>2
<1>10. ASSUME NEW i \in 1 .. n
       PROVE  RequestOf(q, i).bACE \in Nat \ {0} /\ RequestOf(q, i).shares \in Nat \ {0}
  <2>1. i \in 0 .. n /\ i - 1 \in 0 .. n
    OBVIOUS
  <2>2. /\ RequestOf(q, i).bACE = SumOf(amounts, 1 .. i) - SumOf(amounts, 1 .. i - 1)
        /\ RequestOf(q, i).shares = SumOf(f, 1 .. i) - SumOf(f, 1 .. i - 1)
    BY <1>9, <2>1 DEF RequestOf, CalcBatch
  <2>3. /\ SumOf(amounts, 1 .. i) = SumOf(amounts, 1 .. i - 1) + amounts[i]
        /\ SumOf(f, 1 .. i) = SumOf(f, 1 .. i - 1) + f[i]
        /\ SumOf(amounts, 1 .. i - 1) \in Nat /\ SumOf(f, 1 .. i - 1) \in Nat
    BY <1>5, <2>1
  <2>4. amounts[i] \in Nat \ {0} /\ f[i] \in Nat \ {0}
    BY <1>2, <1>3
  <2> QED BY <2>2, <2>3, <2>4
<1> QED BY <1>8, <1>10 DEF Growing, q

LEMMA BatchesInit ==
  ASSUME Init
  PROVE  BatchesInv
<1>1. PICK n \in 1 .. MaxRequests : \E amounts \in [1 .. n -> Amounts], reports \in [1 .. n -> 0 .. MaxReport],
          rates \in [0 .. MaxReport -> Rates] : queue = QueueOf(amounts, reports, rates)
  BY DEF Init
<1>2. n \in Nat /\ n >= 1
  BY FinalizationBatchesAssumption
<1>3. Growing(queue) /\ Len(queue) = n
  <2>1. PICK amounts \in [1 .. n -> Amounts], reports \in [1 .. n -> 0 .. MaxReport],
             rates \in [0 .. MaxReport -> Rates] : queue = QueueOf(amounts, reports, rates)
    BY <1>1
  <2> QED BY <1>2, <2>1, QueueGrows
<1>4. /\ lastFinalized \in 0 .. Len(queue) /\ lastFinalized \in Nat
      /\ maxTimestamp \in Nat /\ budget \in Nat
  BY <1>2, <1>3, FinalizationBatchesAssumption DEF Init
<1>5. maxShareRate \in Nat \ {0}
  <2>1. PICK r \in Rates : maxShareRate = (r[1] * E27_PRECISION_BASE) \div r[2]
    BY DEF Init, ShareRateOf
  <2>2. r[1] \in Nat \ {0} /\ r[2] \in Nat \ {0} /\ r[1] * E27_PRECISION_BASE >= r[2]
    BY FinalizationBatchesAssumption
  <2>3. r[1] * E27_PRECISION_BASE \in Nat
    BY <2>2, ProductMonotone, PrecisionAssumption
  <2> QED BY <2>1, <2>2, <2>3, QuotientPositive
<1>6. state = [remainingAceBudget |-> budget, batches |-> <<>>, finished |-> FALSE]
  BY DEF Init
<1>7. Cut(queue, maxShareRate, lastFinalized, <<>>, lastFinalized)
  BY <1>3, <1>4, CutNothing
<1>8. Spent(queue, maxShareRate, lastFinalized, lastFinalized) = 0
  <2>1. lastFinalized \in lastFinalized .. Len(queue)
    BY <1>4
  <2> QED BY <1>3, <1>4, <1>5, <2>1, SpentStep
<1>9. Within(queue, maxShareRate, maxTimestamp, lastFinalized, budget, state.batches, lastFinalized)
  <2>1. Len(<<>>) <= MAX_BATCHES_LENGTH
    BY PrecisionAssumption
  <2>2. ~(lastFinalized > lastFinalized)
    BY <1>4
  <2> QED BY <1>4, <1>6, <1>7, <1>8, <2>1, <2>2 DEF Within
<1>10. StateOK(queue, maxShareRate, maxTimestamp, lastFinalized, budget, state)
  <2>1. lastFinalized \in lastFinalized .. Len(queue)
    BY <1>3, <1>4
  <2>2. state.remainingAceBudget = budget - 0 /\ ~ state.finished
    BY <1>4, <1>6
  <2> QED BY <1>8, <1>9, <2>1, <2>2 DEF StateOK
<1> QED BY <1>3, <1>4, <1>5, <1>10 DEF BatchesInv

LEMMA BatchesNext ==
  ASSUME BatchesInv, [Next]_vars
  PROVE  BatchesInv'
<1>1. ASSUME NEW limit \in 1 .. MaxPerCall, Call(limit)
      PROVE  BatchesInv'
  <2>1. limit \in Nat \ {0}
    BY FinalizationBatchesAssumption
  <2>2. StateOK(queue, maxShareRate, maxTimestamp, lastFinalized, budget, state')
    BY <1>1, <2>1, CallKeeps DEF BatchesInv, Call
  <2> QED BY <1>1, <2>2 DEF BatchesInv, Call
<1>2. CASE UNCHANGED vars
  BY <1>2 DEF vars, BatchesInv
<1> QED BY <1>1, <1>2 DEF Next

THEOREM BatchesInvariant == Spec => []BatchesInv
BY BatchesInit, BatchesNext, PTL DEF Spec

-----------------------------------------------------------------------------
(* The batches are maximal *)

LEMMA WorthIsSpent ==
  ASSUME Growing(queue), maxShareRate \in Nat, lastFinalized \in 0 .. Len(queue),
         NEW k \in lastFinalized .. Len(queue)
  PROVE  WorthOf(lastFinalized + 1 .. k) = Spent(queue, maxShareRate, lastFinalized, k)
<1> DEFINE S == lastFinalized + 1 .. k
           f == Worths(queue, maxShareRate)
           W(id) == Worth(RequestOf(queue, id), maxShareRate)
           c(s) == CHOOSE x \in s : TRUE
           kk == CHOOSE g : g = [s \in SUBSET S |->
                  IF s = {} THEN 0 ELSE W(c(s)) + g[s \ {c(s)}]]
<1>0. IsFiniteSet(S) /\ \A j \in S : f[j] = W(j)
  <2>1. Len(queue) \in Nat /\ lastFinalized \in Nat /\ k \in Nat /\ k <= Len(queue)
    BY QueueFacts
  <2>2. IsFiniteSet(S) /\ \A j \in S : j \in 1 .. Len(queue)
    BY <2>1, FS_Interval
  <2> HIDE DEF S
  <2> QED BY <2>2 DEF Worths
<1>1. WorthOf(lastFinalized + 1 .. k) = kk[S]
  BY DEF WorthOf, MapThenSumSet, MapThenFoldSet
<1> HIDE DEF f, S, W
<1>2. PICK h : Iterates(h, f, S)
  BY <1>0, IterationExists
<1>3. \A s \in SUBSET S : s # {} => f[c(s)] = W(c(s))
  <2>1. \A s \in SUBSET S : s # {} => c(s) \in S
    OBVIOUS
  <2> HIDE DEF c
  <2> QED BY <1>0, <2>1
<1>4. h = [s \in SUBSET S |-> IF s = {} THEN 0 ELSE W(c(s)) + h[s \ {c(s)}]]
  <2>1. h = [s \in SUBSET S |-> IF s = {} THEN 0 ELSE f[c(s)] + h[s \ {c(s)}]]
    BY <1>2 DEF Iterates
  <2> HIDE DEF c
  <2> QED BY <1>3, <2>1
<1>5. kk = [s \in SUBSET S |-> IF s = {} THEN 0 ELSE W(c(s)) + kk[s \ {c(s)}]]
  <2> HIDE DEF c
  <2> QED BY <1>4
<1>6. kk = [s \in SUBSET S |-> IF s = {} THEN 0 ELSE f[c(s)] + kk[s \ {c(s)}]]
  <2> HIDE DEF c, kk
  <2> QED BY <1>3, <1>5
<1>7. Iterates(kk, f, S)
  <2> HIDE DEF kk
  <2> QED BY <1>6 DEF Iterates
<1> HIDE DEF kk
<1>8. SumOf(f, S) = kk[S]
  BY <1>0, <1>7, SumIsIterated
<1> QED BY <1>1, <1>8 DEF Spent, f, S

LEMMA HandledIs ==
  ASSUME Growing(queue), lastFinalized \in 0 .. Len(queue),
         NEW h, Cut(queue, maxShareRate, lastFinalized, state.batches, h)
  PROVE  Handled = h /\ h \in Nat
<1>1. NextId(lastFinalized, state.batches) = h + 1 /\ h \in Nat
  BY NextIsNext, CutFacts
<1> QED BY <1>1 DEF Handled

(* The batches end before the others start.                                *)
EndsMatch(b, starts, last, h) ==
  {b[i] : i \in DOMAIN b} = {id - 1 : id \in starts \ {last + 1}} \cup ({h} \ {last})

LEMMA BatchEnds ==
  ASSUME NEW q, Growing(q), NEW m, NEW last \in 0 .. Len(q), NEW b, NEW h, Cut(q, m, last, b, h)
  PROVE  EndsMatch(b, BatchStarts(q, m, last, h), last, h)
<1> DEFINE n == Len(b)
           A == {b[i] : i \in 1 .. n - 1}
           B == {b[i] + 1 : i \in 1 .. n - 1}
<1>1. /\ last \in Nat /\ h \in Nat /\ n \in Nat /\ DOMAIN b = 1 .. n
      /\ \A i \in 1 .. n : b[i] \in Nat
      /\ (b = <<>> <=> n = 0) /\ (b = <<>> <=> h = last)
      /\ (b # <<>> => n >= 1 /\ b[n] = h)
  BY CutFacts
<1>2. B = BatchStarts(q, m, last, h) \ {last + 1}
  BY DEF Cut
<1> HIDE DEF n
<1>3. {id - 1 : id \in B} = A
  <2>1. \A i \in 1 .. n - 1 : b[i] \in Nat /\ (b[i] + 1) - 1 = b[i]
    <3>1. \A i \in 1 .. n - 1 : i \in 1 .. n
      BY <1>1
    <3> QED BY <1>1, <3>1
  <2> QED BY <2>1
<1>4. {b[i] : i \in 1 .. n} = A \cup ({h} \ {last})
  <2>1. CASE n = 0
    <3>1. 1 .. n = {} /\ 1 .. n - 1 = {} /\ h = last
      BY <1>1, <2>1
    <3> QED BY <3>1
  <2>2. CASE n # 0
    <3>1. 1 .. n = (1 .. n - 1) \cup {n} /\ b[n] = h /\ h # last
      BY <1>1, <2>2
    <3> QED BY <3>1
  <2> QED BY <2>1, <2>2
<1> HIDE DEF A, B
<1> QED BY <1>1, <1>2, <1>3, <1>4 DEF n, EndsMatch

LEMMA FinalizableIs ==
  ASSUME BatchesInv, NEW k \in lastFinalized .. Len(queue)
  PROVE  Finalizable(k) <=>
           /\ k > lastFinalized => queue[k].timestamp <= maxTimestamp
           /\ Spent(queue, maxShareRate, lastFinalized, k) <= budget
           /\ Cardinality(BatchStarts(queue, maxShareRate, lastFinalized, k)) <= MAX_BATCHES_LENGTH
<1>1. WorthOf(lastFinalized + 1 .. k) = Spent(queue, maxShareRate, lastFinalized, k)
  BY WorthIsSpent DEF BatchesInv
<1>2. Starts(k) = BatchStarts(queue, maxShareRate, lastFinalized, k)
  BY DEF Starts, BatchStarts
<1> QED BY <1>1, <1>2 DEF Finalizable

LEMMA InvIsMaximal ==
  ASSUME BatchesInv
  PROVE  BatchesAreMaximal
<1> DEFINE b == state.batches
           m == maxShareRate
           last == lastFinalized
<1>1. PICK h \in last .. Len(queue) :
        /\ Within(queue, m, maxTimestamp, last, budget, b, h)
        /\ state.finished => h = Len(queue) \/ Beyond(queue, m, maxTimestamp, last, budget, h + 1)
  BY DEF BatchesInv, StateOK
<1>2. /\ Growing(queue) /\ m \in Nat /\ last \in 0 .. Len(queue) /\ Len(queue) \in Nat
      /\ maxTimestamp \in Nat /\ budget \in Nat /\ Cut(queue, m, last, b, h)
  BY <1>1, QueueFacts DEF BatchesInv, Within
<1>3. Handled = h /\ h \in Nat
  BY <1>2, HandledIs
<1>4. Finalizable(h)
  <2>1. Cardinality(BatchStarts(queue, m, last, h)) = Len(b)
    BY <1>2 DEF Cut
  <2> QED BY <1>1, <2>1, FinalizableIs DEF Within
<1>5. ASSUME state.finished, h # Len(queue) PROVE ~ Finalizable(h + 1)
  <2>1. h + 1 \in last .. Len(queue) /\ h + 1 > last /\ h + 1 \in 1 .. Len(queue) /\ h < Len(queue)
    BY <1>2, <1>3, <1>5
  <2>2. queue[h + 1].timestamp \in Nat
    <3>1. queue[h + 1] \in Request
      BY <1>2, <2>1, QueueFacts
    <3> QED BY <3>1 DEF Request
  <2>3. Spent(queue, m, last, h + 1) \in Nat
    BY <1>2, <2>1, SpentStep
  <2>4. Cardinality(BatchStarts(queue, m, last, h + 1)) \in Nat /\ MAX_BATCHES_LENGTH \in Nat
    BY <1>2, <2>1, StartsFacts, PrecisionAssumption
  <2>5. Beyond(queue, m, maxTimestamp, last, budget, h + 1)
    BY <1>1, <1>5
  <2> QED BY <1>2, <2>1, <2>2, <2>3, <2>4, <2>5, FinalizableIs DEF Beyond
<1>6. EndsMatch(b, Starts(h), last, h)
  <2>1. Starts(h) = BatchStarts(queue, m, last, h)
    BY DEF Starts, BatchStarts
  <2> HIDE DEF b, m, last
  <2> QED BY <1>2, <2>1, BatchEnds
<1> QED BY <1>3, <1>4, <1>5, <1>6 DEF BatchesAreMaximal, EndsMatch

(* However the daemon cuts the calculation into calls, it ends at the last *)
(* request up to which time, budget and number of batches admit all of     *)
(* them, and the batches are those of the whole queue, not of a call.      *)
THEOREM Maximal == Spec => []BatchesAreMaximal
BY BatchesInvariant, InvIsMaximal, PTL

-----------------------------------------------------------------------------
(* A range of requests *)

AceOfRange(q, p, r) == CalcBatch(q, p, r).bACE

SharesOfRange(q, p, r) == CalcBatch(q, p, r).shares

Under(q, m, p, r) == \A id \in p + 1 .. r : RequestOf(q, id).shareRate <= m

Over(q, m, p, r) == \A id \in p + 1 .. r : RequestOf(q, id).shareRate > m

LEMMA RangeSplits ==
  ASSUME NEW q, Growing(q), NEW last \in 0 .. Len(q), NEW p \in 0 .. Len(q), NEW r \in 0 .. Len(q)
  PROVE  /\ AceOfRange(q, p, r) \in Int /\ SharesOfRange(q, p, r) \in Int
         /\ AceOfRange(q, p, p) = 0 /\ SharesOfRange(q, p, p) = 0
         /\ AceOfRange(q, last, r) = AceOfRange(q, last, p) + AceOfRange(q, p, r)
         /\ SharesOfRange(q, last, r) = SharesOfRange(q, last, p) + SharesOfRange(q, p, r)
<1>1. \A i \in 0 .. Len(q) : At(q, i).cumulativeBACE \in Nat /\ At(q, i).cumulativeShares \in Nat
  BY QueueFacts
<1>2. \A i, j \in 0 .. Len(q) :
         /\ AceOfRange(q, i, j) = At(q, j).cumulativeBACE - At(q, i).cumulativeBACE
         /\ SharesOfRange(q, i, j) = At(q, j).cumulativeShares - At(q, i).cumulativeShares
  BY DEF AceOfRange, SharesOfRange, CalcBatch
<1> DEFINE A(i) == At(q, i).cumulativeBACE
           S(i) == At(q, i).cumulativeShares
<1>3. /\ AceOfRange(q, p, r) = A(r) - A(p) /\ SharesOfRange(q, p, r) = S(r) - S(p)
      /\ AceOfRange(q, p, p) = A(p) - A(p) /\ SharesOfRange(q, p, p) = S(p) - S(p)
      /\ AceOfRange(q, last, p) = A(p) - A(last) /\ SharesOfRange(q, last, p) = S(p) - S(last)
      /\ AceOfRange(q, last, r) = A(r) - A(last) /\ SharesOfRange(q, last, r) = S(r) - S(last)
  BY <1>2
<1>4. A(last) \in Nat /\ A(p) \in Nat /\ A(r) \in Nat /\ S(last) \in Nat /\ S(p) \in Nat /\ S(r) \in Nat
  BY <1>1
<1> HIDE DEF A, S
<1> QED BY <1>3, <1>4

LEMMA UnderStep ==
  ASSUME NEW A \in Nat, NEW S \in Nat, NEW a \in Nat, NEW s \in Nat, NEW m \in Nat, NEW d \in Nat,
         A * E27_PRECISION_BASE + d <= (m + 1) * S, a * E27_PRECISION_BASE + 1 <= (m + 1) * s
  PROVE  (A + a) * E27_PRECISION_BASE + (d + 1) <= (m + 1) * (S + s)
<1> DEFINE E == E27_PRECISION_BASE
           M == m + 1
<1>1. E \in Nat /\ M \in Nat
  BY PrecisionAssumption
<1> HIDE DEF E, M
<1>2. (A + a) * E = A * E + a * E /\ M * (S + s) = M * S + M * s
      /\ A * E \in Nat /\ a * E \in Nat /\ M * S \in Nat /\ M * s \in Nat
  BY <1>1, Distributes
<1>3. A * E + d <= M * S /\ a * E + 1 <= M * s
  BY DEF E, M
<1>4. (A + a) * E + (d + 1) <= M * (S + s)
  BY <1>2, <1>3
<1> QED BY <1>4 DEF E, M

LEMMA OverStep ==
  ASSUME NEW A \in Nat, NEW S \in Nat, NEW W \in Nat, NEW a \in Nat, NEW s \in Nat, NEW w \in Nat,
         NEW m \in Nat, NEW d \in Nat,
         (m + 1) * S <= A * E27_PRECISION_BASE, (m + 1) * s <= a * E27_PRECISION_BASE,
         m * S + d <= (W + d) * E27_PRECISION_BASE, m * s + 1 <= (w + 1) * E27_PRECISION_BASE
  PROVE  /\ (m + 1) * (S + s) <= (A + a) * E27_PRECISION_BASE
         /\ m * (S + s) + (d + 1) <= ((W + w) + (d + 1)) * E27_PRECISION_BASE
<1> DEFINE E == E27_PRECISION_BASE
           M == m + 1
           U == W + d
           u == w + 1
<1>1. E \in Nat /\ M \in Nat /\ U \in Nat /\ u \in Nat
  BY PrecisionAssumption
<1>2. (W + w) + (d + 1) = U + u
  OBVIOUS
<1>3. M * S <= A * E /\ M * s <= a * E /\ m * S + d <= U * E /\ m * s + 1 <= u * E
  BY DEF E, M, U, u
<1> HIDE DEF E, M, U, u
<1>4. /\ (A + a) * E = A * E + a * E /\ M * (S + s) = M * S + M * s
      /\ A * E \in Nat /\ a * E \in Nat /\ M * S \in Nat /\ M * s \in Nat
      /\ (U + u) * E = U * E + u * E /\ m * (S + s) = m * S + m * s
      /\ U * E \in Nat /\ u * E \in Nat /\ m * S \in Nat /\ m * s \in Nat
  BY <1>1, Distributes
<1>5. M * (S + s) <= (A + a) * E
  BY <1>3, <1>4
<1>6. m * (S + s) + (d + 1) <= (U + u) * E
  BY <1>3, <1>4
<1> QED BY <1>2, <1>5, <1>6 DEF E, M

(* The sums over a range keep what holds of every request in it.           *)
RangeOK(q, m, p, d) ==
  LET A == AceOfRange(q, p, p + d)
      S == SharesOfRange(q, p, p + d)
      W == Spent(q, m, p, p + d)
  IN  /\ A \in Nat /\ S \in Nat /\ W \in Nat /\ (d > 0 => S > 0)
      /\ Under(q, m, p, p + d) => W = A /\ A * E27_PRECISION_BASE + d <= (m + 1) * S
      /\ Over(q, m, p, p + d) =>
           (m + 1) * S <= A * E27_PRECISION_BASE /\ m * S + d <= (W + d) * E27_PRECISION_BASE

LEMMA RangeNothing ==
  ASSUME NEW q, Growing(q), NEW m \in Nat, NEW p \in 0 .. Len(q)
  PROVE  RangeOK(q, m, p, 0)
<1>1. Len(q) \in Nat /\ p \in Nat /\ p + 0 = p /\ p \in p .. Len(q)
  BY QueueFacts
<1>2. AceOfRange(q, p, p) = 0 /\ SharesOfRange(q, p, p) = 0 /\ Spent(q, m, p, p) = 0
  BY <1>1, RangeSplits, SpentStep
<1>3. /\ 0 * E27_PRECISION_BASE = 0 /\ (m + 1) * 0 = 0 /\ m * 0 = 0
      /\ (0 + 0) * E27_PRECISION_BASE = 0
  BY PrecisionAssumption
<1> QED BY <1>1, <1>2, <1>3 DEF RangeOK

LEMMA RangeStep ==
  ASSUME NEW q, Growing(q), NEW m \in Nat, NEW p \in 0 .. Len(q), NEW d \in Nat,
         p + d < Len(q), RangeOK(q, m, p, d)
  PROVE  RangeOK(q, m, p, d + 1)
<1> DEFINE r == p + d
           id == r + 1
           A == AceOfRange(q, p, r)
           S == SharesOfRange(q, p, r)
           W == Spent(q, m, p, r)
           a == RequestOf(q, id).bACE
           s == RequestOf(q, id).shares
           w == Worth(RequestOf(q, id), m)
           E == E27_PRECISION_BASE
<1>1. /\ Len(q) \in Nat /\ p \in Nat /\ r \in Nat /\ p + (d + 1) = id /\ id - 1 = r
      /\ r \in p .. Len(q) /\ r < Len(q) /\ r \in 0 .. Len(q) /\ id \in 0 .. Len(q) /\ id \in 1 .. Len(q)
  BY QueueFacts
<1>2. AceOfRange(q, p, id) = A + a /\ SharesOfRange(q, p, id) = S + s
  <2>1. a = AceOfRange(q, r, id) /\ s = SharesOfRange(q, r, id)
    BY <1>1 DEF RequestOf, AceOfRange, SharesOfRange
  <2> HIDE DEF id, r
  <2> QED BY <1>1, <2>1, RangeSplits
<1>3. Spent(q, m, p, id) = W + w
  <2> HIDE DEF r
  <2> QED BY <1>1, SpentStep
<1>4. /\ w \in Nat /\ a \in Nat \ {0} /\ s \in Nat \ {0}
      /\ RequestOf(q, id).shareRate > m =>
           (m + 1) * s <= a * E /\ m * s + 1 <= (w + 1) * E
      /\ RequestOf(q, id).shareRate <= m => w = a /\ a * E + 1 <= (m + 1) * s
  <2> HIDE DEF id
  <2> QED BY <1>1, RequestWorth
<1>5. /\ A \in Nat /\ S \in Nat /\ W \in Nat
      /\ Under(q, m, p, r) => W = A /\ A * E + d <= (m + 1) * S
      /\ Over(q, m, p, r) => (m + 1) * S <= A * E /\ m * S + d <= (W + d) * E
  BY DEF RangeOK
<1>6. /\ Under(q, m, p, id) => Under(q, m, p, r) /\ RequestOf(q, id).shareRate <= m
      /\ Over(q, m, p, id) => Over(q, m, p, r) /\ RequestOf(q, id).shareRate > m
  <2>1. p + 1 .. r \subseteq p + 1 .. id /\ id \in p + 1 .. id
    BY <1>1
  <2> HIDE DEF id, r
  <2> QED BY <2>1 DEF Under, Over
<1> HIDE DEF A, S, W, a, s, w, id, r
<1>7. Under(q, m, p, id) => W + w = A + a /\ (A + a) * E + (d + 1) <= (m + 1) * (S + s)
  <2> SUFFICES ASSUME Under(q, m, p, id)
               PROVE  W + w = A + a /\ (A + a) * E + (d + 1) <= (m + 1) * (S + s)
    OBVIOUS
  <2>1. W = A /\ w = a /\ A * E + d <= (m + 1) * S /\ a * E + 1 <= (m + 1) * s
    BY <1>4, <1>5, <1>6
  <2>2. A \in Nat /\ S \in Nat /\ a \in Nat /\ s \in Nat /\ m \in Nat /\ d \in Nat
    BY <1>4, <1>5
  <2>3. (A + a) * E + (d + 1) <= (m + 1) * (S + s)
    BY ONLY <2>1, <2>2, UnderStep DEF E
  <2> QED BY ONLY <2>1, <2>3
<1>8. Over(q, m, p, id) =>
        (m + 1) * (S + s) <= (A + a) * E /\ m * (S + s) + (d + 1) <= ((W + w) + (d + 1)) * E
  <2> SUFFICES ASSUME Over(q, m, p, id)
               PROVE  (m + 1) * (S + s) <= (A + a) * E /\ m * (S + s) + (d + 1) <= ((W + w) + (d + 1)) * E
    OBVIOUS
  <2>1. /\ (m + 1) * S <= A * E /\ m * S + d <= (W + d) * E
        /\ (m + 1) * s <= a * E /\ m * s + 1 <= (w + 1) * E
    BY <1>4, <1>5, <1>6
  <2>2. /\ A \in Nat /\ S \in Nat /\ W \in Nat /\ a \in Nat /\ s \in Nat /\ w \in Nat
        /\ m \in Nat /\ d \in Nat
    BY <1>4, <1>5
  <2> QED BY ONLY <2>1, <2>2, OverStep DEF E
<1>9. A + a \in Nat /\ S + s \in Nat /\ W + w \in Nat /\ S + s > 0
  BY <1>4, <1>5
<1> QED BY <1>1, <1>2, <1>3, <1>7, <1>8, <1>9 DEF RangeOK, E

LEMMA RangeFacts ==
  ASSUME NEW q, Growing(q), NEW m \in Nat, NEW p \in 0 .. Len(q), NEW r \in p .. Len(q)
  PROVE  RangeOK(q, m, p, r - p) /\ p + (r - p) = r /\ r - p \in Nat
<1> DEFINE n == Len(q) - p
           P == {d \in 0 .. n : RangeOK(q, m, p, d)}
<1>1. Len(q) \in Nat /\ p \in Nat /\ r \in Nat /\ n \in Nat /\ r - p \in 0 .. n /\ p + (r - p) = r
      /\ r - p \in Nat /\ 0 \in 0 .. n
  BY QueueFacts
<1>2. 0 \in P
  BY <1>1, RangeNothing
<1>3. ASSUME NEW d \in 1 .. n, d - 1 \in P PROVE d \in P
  <2>1. d - 1 \in Nat /\ (d - 1) + 1 = d /\ p + (d - 1) < Len(q) /\ d \in 0 .. n
    BY <1>1
  <2>2. RangeOK(q, m, p, (d - 1) + 1)
    BY <1>3, <2>1, RangeStep
  <2> QED BY <2>1, <2>2
<1>4. r - p \in P
  <2> HIDE DEF P, n
  <2> QED BY <1>1, <1>2, <1>3, UpTo
<1> QED BY <1>1, <1>4

(* What a batch is worth: no more than is asked for, and less than its     *)
(* requests one by one and one wei for each, if they are on one side of    *)
(* the rate.                                                               *)
LEMMA BatchWorth ==
  ASSUME NEW q, Growing(q), NEW m \in Nat, NEW p \in 0 .. Len(q), NEW r \in p .. Len(q), p < r
  PROVE  /\ Worth(CalcBatch(q, p, r), m) \in Nat
         /\ Worth(CalcBatch(q, p, r), m) <= AceOfRange(q, p, r)
         /\ Under(q, m, p, r) \/ Over(q, m, p, r) =>
              Worth(CalcBatch(q, p, r), m) + 1 <= Spent(q, m, p, r) + (r - p)
<1> DEFINE A == AceOfRange(q, p, r)
           S == SharesOfRange(q, p, r)
           W == Spent(q, m, p, r)
           K == Worth(CalcBatch(q, p, r), m)
           E == E27_PRECISION_BASE
           d == r - p
           t == (A * E) \div S
           v == (S * m) \div E
<1>1. E \in Nat \ {0}
  BY PrecisionAssumption
<1>2. d \in Nat /\ d > 0 /\ p + d = r
  BY QueueFacts
<1>3. /\ A \in Nat /\ S \in Nat \ {0} /\ W \in Nat
      /\ Under(q, m, p, r) => W = A /\ A * E + d <= (m + 1) * S
      /\ Over(q, m, p, r) => (m + 1) * S <= A * E /\ m * S + d <= (W + d) * E
  <2>1. RangeOK(q, m, p, d)
    BY RangeFacts
  <2> HIDE DEF d
  <2> QED BY <1>2, <2>1 DEF RangeOK
<1>4. K = IF t > m THEN v ELSE A
  BY DEF Worth, CalcBatch, AceOfRange, SharesOfRange
<1> HIDE DEF A, S, W, K, d
<1>5. t \in Nat /\ (t <= m <=> A * E < (m + 1) * S)
  BY <1>3, RateSides
<1>6. S * m \in Nat /\ S * m = m * S /\ A * E \in Nat /\ (m + 1) * S = m * S + S /\ (m + 1) * S \in Nat
  BY <1>1, <1>3
<1> HIDE DEF t
<1>7. v \in Nat /\ v * E <= S * m /\ v * E \in Nat
  <2>1. v \in Nat /\ v * E <= S * m
    <3> HIDE DEF E
    <3> QED BY <1>1, <1>6, QuotientBound
  <2> HIDE DEF v
  <2> QED BY <1>1, <2>1, ProductMonotone
<1> HIDE DEF v
<1>8. CASE t > m
  <2>1. K = v
    BY <1>4, <1>8
  <2>2. (m + 1) * S <= A * E
    BY <1>5, <1>6, <1>8
  <2>3. v * E <= A * E
    BY <1>3, <1>6, <1>7, <2>2
  <2>4. v <= A
    BY <1>1, <1>3, <1>7, <2>3, ProductPositive
  <2>5. ~ Under(q, m, p, r)
    BY <1>2, <1>3, <1>6, <2>2
  <2>6. Over(q, m, p, r) => v + 1 <= W + d
    <3> SUFFICES ASSUME Over(q, m, p, r) PROVE v + 1 <= W + d
      OBVIOUS
    <3>1. W + d \in Nat /\ (W + d) * E \in Nat
      BY <1>1, <1>2, <1>3, ProductMonotone
    <3>2. v * E < (W + d) * E
      BY <1>2, <1>3, <1>6, <1>7, <3>1
    <3>3. v <= W + d
      BY <1>1, <1>7, <3>1, <3>2, ProductPositive
    <3>4. v # W + d
      BY <3>1, <3>2
    <3> QED BY <1>7, <3>1, <3>3, <3>4
  <2> QED BY <1>7, <2>1, <2>4, <2>5, <2>6 DEF K, A, W, d
<1>9. CASE ~ (t > m)
  <2>1. K = A /\ t <= m
    BY <1>4, <1>5, <1>9
  <2>2. ~ Over(q, m, p, r)
    BY <1>3, <1>5, <1>6, <2>1
  <2>3. Under(q, m, p, r) => A + 1 <= W + d
    BY <1>2, <1>3
  <2> QED BY <1>3, <2>1, <2>2, <2>3 DEF K, A, W, d
<1> QED BY <1>8, <1>9

-----------------------------------------------------------------------------
(* The sums of the batches *)

LEMMA SpentSplits ==
  ASSUME NEW q, Growing(q), NEW m \in Nat, NEW last \in 0 .. Len(q), NEW p \in last .. Len(q),
         NEW r \in p .. Len(q)
  PROVE  /\ Spent(q, m, last, r) = Spent(q, m, last, p) + Spent(q, m, p, r)
         /\ Spent(q, m, last, p) \in Nat /\ Spent(q, m, p, r) \in Nat
<1> DEFINE S == last + 1 .. r
           A == last + 1 .. p
           B == p + 1 .. r
           f == Worths(q, m)
<1>1. Len(q) \in Nat /\ last \in Nat /\ p \in Nat /\ r \in Nat /\ last <= p /\ p <= r /\ r <= Len(q)
  BY QueueFacts
<1>2. IsFiniteSet(S) /\ A \subseteq S /\ S \ A = B /\ S \subseteq 1 .. Len(q)
  <2>1. IsFiniteSet(S)
    BY <1>1, FS_Interval
  <2>2. A \subseteq S /\ S \subseteq 1 .. Len(q)
    BY <1>1
  <2>3. S \ A = B
    BY <1>1
  <2> QED BY <2>1, <2>2, <2>3
<1>3. \A x \in S : f[x] \in Int
  <2> HIDE DEF S, f
  <2>1. \A x \in 1 .. Len(q) : f[x] \in Nat
    BY WorthsType DEF f
  <2> QED BY <1>2, <2>1
<1> HIDE DEF S, A, B, f
<1>4. SumOf(f, S) = SumOf(f, A) + SumOf(f, B)
  BY <1>2, <1>3, SumUnion
<1>5. p \in 0 .. Len(q)
  BY <1>1
<1>6. Spent(q, m, last, p) \in Nat /\ Spent(q, m, p, r) \in Nat
  BY <1>5, SpentStep
<1> QED BY <1>4, <1>6 DEF Spent, S, A, B, f

(* The batch i of b, and what is locked for each.                          *)
LockOf(q, m, last, b, i) == Worth(CalcBatch(q, EndOf(last, b, i - 1), b[i]), m)

Locks(q, m, last, b) == [i \in 1 .. Len(b) |-> LockOf(q, m, last, b, i)]

LEMMA PrefinalizeIsSum ==
  ASSUME NEW q, NEW m, NEW last, NEW b, Len(b) \in Nat, DOMAIN b = 1 .. Len(b)
  PROVE  Prefinalize(q, last, b, m) = SumOf(Locks(q, m, last, b), 1 .. Len(b))
<1> DEFINE S == 1 .. Len(b)
           X(i) == Worth(BatchOf(q, last, b, i), m)
           f == Locks(q, m, last, b)
           c(s) == CHOOSE x \in s : TRUE
           k == CHOOSE g : g = [s \in SUBSET S |->
                  IF s = {} THEN 0 ELSE X(c(s)) + g[s \ {c(s)}]]
<1>0. IsFiniteSet(S)
  BY FS_Interval
<1>a. \A i \in S : f[i] = X(i)
  <2> SUFFICES ASSUME NEW i \in S PROVE f[i] = X(i)
    OBVIOUS
  <2>1. f[i] = LockOf(q, m, last, b, i) /\ (i - 1 = 0 <=> i = 1)
    BY DEF Locks
  <2> QED BY <2>1 DEF LockOf, BatchOf, EndOf
<1>1. Prefinalize(q, last, b, m) = k[S]
  BY DEF Prefinalize, MapThenSumSet, MapThenFoldSet
<1> HIDE DEF f, X, S
<1>2. PICK h : Iterates(h, f, S)
  BY <1>0, IterationExists
<1>3. \A s \in SUBSET S : s # {} => f[c(s)] = X(c(s))
  <2>1. \A s \in SUBSET S : s # {} => c(s) \in S
    OBVIOUS
  <2> HIDE DEF c
  <2> QED BY <1>a, <2>1
<1>4. h = [s \in SUBSET S |-> IF s = {} THEN 0 ELSE X(c(s)) + h[s \ {c(s)}]]
  <2>1. h = [s \in SUBSET S |-> IF s = {} THEN 0 ELSE f[c(s)] + h[s \ {c(s)}]]
    BY <1>2 DEF Iterates
  <2> HIDE DEF c
  <2> QED BY <1>3, <2>1
<1>5. k = [s \in SUBSET S |-> IF s = {} THEN 0 ELSE X(c(s)) + k[s \ {c(s)}]]
  <2> HIDE DEF c
  <2> QED BY <1>4
<1>6. k = [s \in SUBSET S |-> IF s = {} THEN 0 ELSE f[c(s)] + k[s \ {c(s)}]]
  <2> HIDE DEF c, k
  <2> QED BY <1>3, <1>5
<1>7. Iterates(k, f, S)
  <2> HIDE DEF k
  <2> QED BY <1>6 DEF Iterates
<1> HIDE DEF k
<1>8. SumOf(f, S) = k[S]
  BY <1>0, <1>7, SumIsIterated
<1> QED BY <1>1, <1>8 DEF f, S

(* The requests of no batch lie on both sides of the rate.                 *)
OneSided(q, m, last, b) ==
  \A i \in 1 .. Len(b) :
    Under(q, m, EndOf(last, b, i - 1), b[i]) \/ Over(q, m, EndOf(last, b, i - 1), b[i])

(* What is locked for the first i batches.                                 *)
PrefixOK(q, m, last, b, i) ==
  LET L == SumOf(Locks(q, m, last, b), 1 .. i)
      e == EndOf(last, b, i)
  IN  /\ L \in Nat
      /\ L <= AceOfRange(q, last, e)
      /\ OneSided(q, m, last, b) => L + i <= Spent(q, m, last, e) + (e - last)

LEMMA EndFacts ==
  ASSUME NEW q, Growing(q), NEW m, NEW last \in 0 .. Len(q), NEW b, NEW h, Cut(q, m, last, b, h),
         NEW i \in 1 .. Len(b)
  PROVE  /\ i \in Nat /\ i - 1 \in 0 .. Len(b) /\ EndOf(last, b, i) = b[i]
         /\ EndOf(last, b, i - 1) \in last .. Len(q) /\ b[i] \in EndOf(last, b, i - 1) .. Len(q)
         /\ EndOf(last, b, i - 1) < b[i]
         /\ EndOf(last, b, i - 1) \in Nat /\ b[i] \in Nat
         /\ last <= EndOf(last, b, i - 1) /\ b[i] <= h
<1>1. /\ Len(q) \in Nat /\ last \in Nat /\ h \in Nat /\ Len(b) \in Nat /\ last <= h
      /\ \A j \in 1 .. Len(b) : b[j] \in last + 1 .. Len(q) /\ b[j] \in Nat
  BY CutFacts
<1>2. i \in Nat /\ i >= 1 /\ i <= Len(b) /\ i - 1 \in 0 .. Len(b) /\ EndOf(last, b, i) = b[i]
  BY <1>1 DEF EndOf
<1>3. EndOf(last, b, i - 1) \in last .. Len(q)
  <2>1. CASE i = 1
    BY <1>1, <2>1 DEF EndOf
  <2>2. CASE i # 1
    <3>1. i - 1 \in 1 .. Len(b) /\ i - 1 # 0
      BY <1>2, <2>2
    <3>2. b[i - 1] \in last + 1 .. Len(q)
      BY <1>1, <3>1
    <3>3. EndOf(last, b, i - 1) = b[i - 1]
      BY <3>1 DEF EndOf
    <3> QED BY <1>1, <3>2, <3>3
  <2> QED BY <2>1, <2>2
<1>4. EndOf(last, b, i - 1) < b[i]
  BY DEF Cut
<1>5. b[i] <= h
  <2>1. CASE i = Len(b)
    <3>1. b # <<>>
      BY <1>2, <2>1, EmptySeq
    <3> QED BY <1>1, <2>1, <3>1, CutFacts
  <2>2. CASE i # Len(b)
    <3>1. i \in 1 .. Len(b) - 1
      BY <1>1, <1>2, <2>2
    <3>2. {b[j] + 1 : j \in 1 .. Len(b) - 1} = BatchStarts(q, m, last, h) \ {last + 1}
      BY DEF Cut
    <3>3. b[i] + 1 \in BatchStarts(q, m, last, h)
      BY <3>1, <3>2
    <3>4. b[i] + 1 <= h
      BY <1>1, <3>3, StartsFacts DEF Cut
    <3> QED BY <1>1, <3>4
  <2> QED BY <2>1, <2>2
<1>6. b[i] \in last + 1 .. Len(q) /\ b[i] \in Nat
  BY <1>1
<1> DEFINE e == EndOf(last, b, i - 1)
           x == b[i]
<1> HIDE DEF e
<1>7. e \in Nat /\ last <= e /\ x \in e .. Len(q)
  <2>1. e \in last .. Len(q) /\ e < x /\ x \in last + 1 .. Len(q)
    BY <1>3, <1>4, <1>6 DEF e
  <2> HIDE DEF x
  <2> QED BY <1>1, <2>1
<1> QED BY <1>2, <1>3, <1>4, <1>5, <1>6, <1>7 DEF e

LEMMA PrefixStep ==
  ASSUME NEW q, Growing(q), NEW m \in Nat, NEW last \in 0 .. Len(q), NEW b, NEW h, Cut(q, m, last, b, h),
         NEW i \in 1 .. Len(b), PrefixOK(q, m, last, b, i - 1)
  PROVE  PrefixOK(q, m, last, b, i)
<1> DEFINE p == EndOf(last, b, i - 1)
           r == b[i]
           L == SumOf(Locks(q, m, last, b), 1 .. i - 1)
           K == LockOf(q, m, last, b, i)
           f == Locks(q, m, last, b)
<1>1. /\ i \in Nat /\ i - 1 \in 0 .. Len(b) /\ EndOf(last, b, i) = r
      /\ p \in last .. Len(q) /\ r \in p .. Len(q) /\ p < r /\ p \in Nat /\ r \in Nat /\ last <= p
      /\ last \in Nat /\ Len(b) \in Nat
  <2>1. /\ i \in Nat /\ i - 1 \in 0 .. Len(b) /\ EndOf(last, b, i) = b[i]
        /\ p \in last .. Len(q) /\ b[i] \in p .. Len(q) /\ p < b[i] /\ p \in Nat /\ b[i] \in Nat /\ last <= p
    <3>1. i \in Nat /\ i - 1 \in 0 .. Len(b) /\ EndOf(last, b, i) = b[i]
      <4>1. Len(b) \in Nat
        BY CutFacts
      <4> QED BY <4>1 DEF EndOf
    <3>2. p \in last .. Len(q) /\ b[i] \in p .. Len(q) /\ p < b[i] /\ p \in Nat /\ b[i] \in Nat /\ last <= p
      BY EndFacts
    <3> QED BY <3>1, <3>2
  <2>2. last \in Nat /\ Len(b) \in Nat
    BY CutFacts
  <2> QED BY <2>1, <2>2
<1>2. p \in 0 .. Len(q) /\ r \in 0 .. Len(q)
  BY <1>1
<1>3. \A j \in 1 .. Len(b) : f[j] \in Nat
  <2> SUFFICES ASSUME NEW j \in 1 .. Len(b) PROVE f[j] \in Nat
    OBVIOUS
  <2>1. /\ EndOf(last, b, j - 1) \in last .. Len(q) /\ b[j] \in EndOf(last, b, j - 1) .. Len(q)
        /\ EndOf(last, b, j - 1) < b[j] /\ EndOf(last, b, j - 1) \in Nat /\ b[j] \in Nat
    BY EndFacts
  <2>2. EndOf(last, b, j - 1) \in 0 .. Len(q)
    BY <2>1
  <2>3. LockOf(q, m, last, b, j) \in Nat
    <3> DEFINE e == EndOf(last, b, j - 1)
               x == b[j]
    <3>1. e \in 0 .. Len(q) /\ x \in e .. Len(q) /\ e < x
      BY <2>1, <2>2
    <3> HIDE DEF e, x
    <3>2. Worth(CalcBatch(q, e, x), m) \in Nat
      BY <3>1, BatchWorth
    <3> QED BY <3>2 DEF LockOf, e, x
  <2> QED BY <2>3 DEF Locks
<1>4. f[i] = K
  BY DEF Locks
<1> HIDE DEF f
<1>5. SumOf(f, 1 .. i) = L + K
  <2>1. SumOf(f, 1 .. i) = SumOf(f, 1 .. i - 1) + f[i]
    BY <1>1, <1>3, SumUpTo
  <2> QED BY <1>4, <2>1 DEF f
<1>6. /\ K \in Nat /\ K <= AceOfRange(q, p, r)
      /\ OneSided(q, m, last, b) => K + 1 <= Spent(q, m, p, r) + (r - p)
  <2>1. OneSided(q, m, last, b) => Under(q, m, p, r) \/ Over(q, m, p, r)
    BY DEF OneSided
  <2>2. K = Worth(CalcBatch(q, p, r), m)
    BY DEF LockOf
  <2> HIDE DEF p, r, K
  <2> QED BY <1>1, <1>2, <2>1, <2>2, BatchWorth
<1>7. /\ L \in Nat /\ L <= AceOfRange(q, last, p)
      /\ OneSided(q, m, last, b) => L + (i - 1) <= Spent(q, m, last, p) + (p - last)
  BY DEF PrefixOK
<1> HIDE DEF p, r, L, K
<1>8. /\ AceOfRange(q, last, r) = AceOfRange(q, last, p) + AceOfRange(q, p, r)
      /\ AceOfRange(q, last, p) \in Int /\ AceOfRange(q, p, r) \in Int
  BY <1>2, RangeSplits
<1>9. /\ Spent(q, m, last, r) = Spent(q, m, last, p) + Spent(q, m, p, r)
      /\ Spent(q, m, last, p) \in Nat /\ Spent(q, m, p, r) \in Nat
  BY <1>1, SpentSplits
<1>10. L + K <= AceOfRange(q, last, r) /\ L + K \in Nat
  BY <1>6, <1>7, <1>8
<1>11. OneSided(q, m, last, b) => (L + K) + i <= Spent(q, m, last, r) + (r - last)
  <2> SUFFICES ASSUME OneSided(q, m, last, b)
               PROVE  (L + K) + i <= Spent(q, m, last, r) + (r - last)
    OBVIOUS
  <2> DEFINE x == Spent(q, m, last, p)
             y == Spent(q, m, p, r)
  <2>1. K + 1 <= y + (r - p) /\ L + (i - 1) <= x + (p - last) /\ Spent(q, m, last, r) = x + y
        /\ x \in Nat /\ y \in Nat
    BY <1>6, <1>7, <1>9
  <2>2. K \in Nat /\ L \in Nat /\ i \in Nat /\ p \in Nat /\ r \in Nat /\ last \in Nat
    BY <1>1, <1>6, <1>7
  <2> HIDE DEF x, y
  <2>3. (L + K) + i <= (x + y) + (r - last)
    BY <2>1, <2>2
  <2> QED BY <2>1, <2>3
<1> QED BY <1>1, <1>5, <1>10, <1>11 DEF PrefixOK, f

LEMMA AllLocked ==
  ASSUME NEW q, Growing(q), NEW m \in Nat, NEW last \in 0 .. Len(q), NEW b, NEW h, Cut(q, m, last, b, h)
  PROVE  PrefixOK(q, m, last, b, Len(b))
<1> DEFINE n == Len(b)
           P == {i \in 0 .. n : PrefixOK(q, m, last, b, i)}
<1>1. n \in Nat /\ last \in Nat /\ n \in 0 .. n /\ 0 \in 0 .. n
  BY CutFacts
<1>2. 0 \in P
  <2>1. 1 .. 0 = {} /\ EndOf(last, b, 0) = last
    BY DEF EndOf
  <2>2. SumOf(Locks(q, m, last, b), 1 .. 0) = 0
    BY <2>1, SumEmpty
  <2>3. AceOfRange(q, last, last) = 0
    BY RangeSplits
  <2>4. Spent(q, m, last, last) \in Nat
    <3>1. last \in last .. Len(q)
      BY QueueFacts
    <3> QED BY <3>1, SpentStep
  <2>5. PrefixOK(q, m, last, b, 0)
    BY <1>1, <2>1, <2>2, <2>3, <2>4 DEF PrefixOK
  <2> QED BY <1>1, <2>5
<1>3. ASSUME NEW i \in 1 .. n, i - 1 \in P PROVE i \in P
  <2>1. PrefixOK(q, m, last, b, i)
    BY <1>3, PrefixStep
  <2> QED BY <1>1, <2>1
<1>4. n \in P
  <2> HIDE DEF P, n
  <2> QED BY <1>1, <1>2, <1>3, UpTo
<1> QED BY <1>4

-----------------------------------------------------------------------------
(* What the daemon passes on is accepted *)

LEMMA CutIsSorted ==
  ASSUME NEW q, Growing(q), NEW m \in Nat \ {0}, NEW last \in 0 .. Len(q), NEW b, NEW h, Cut(q, m, last, b, h),
         b # <<>>
  PROVE  CanPrefinalize(q, last, b, m)
<1>1. /\ Len(b) \in Nat /\ Len(b) >= 1 /\ b[Len(b)] = h /\ h <= Len(q)
      /\ last \in Nat /\ \A i \in 1 .. Len(b) : b[i] \in last + 1 .. Len(q)
  BY CutFacts
<1>2. b[1] > last
  <2>1. 1 \in 1 .. Len(b)
    BY <1>1
  <2>2. b[1] \in last + 1 .. Len(q)
    BY <1>1, <2>1
  <2> QED BY <1>1, <2>2
<1>3. Last(b) = b[Len(b)]
  BY DEF Last
<1>4. ASSUME NEW i \in 1 .. Len(b) - 1 PROVE b[i] < b[i + 1]
  <2>1. i + 1 \in 1 .. Len(b) /\ (i + 1) - 1 = i /\ i # 0
    BY <1>1
  <2>2. EndOf(last, b, (i + 1) - 1) < b[i + 1]
    BY <2>1 DEF Cut
  <2> QED BY <2>1, <2>2 DEF EndOf
<1> QED BY <1>1, <1>2, <1>3, <1>4 DEF CanPrefinalize

(* Along a batch the side of the rate does not change when it does not     *)
(* change from one request to the next.                                    *)
LEMMA OneSide ==
  ASSUME NEW q, Growing(q), NEW m \in Nat, NEW p \in 0 .. Len(q), NEW r \in p .. Len(q), p < r,
         \A id \in p + 2 .. r :
           (RequestOf(q, id - 1).shareRate <= m) = (RequestOf(q, id).shareRate <= m)
  PROVE  Under(q, m, p, r) \/ Over(q, m, p, r)
<1> DEFINE U(id) == RequestOf(q, id).shareRate <= m
           n == (r - p) - 1
           P == {d \in 0 .. n : U(p + 1 + d) = U(p + 1)}
<1>1. Len(q) \in Nat /\ p \in Nat /\ r \in Nat /\ n \in Nat /\ 0 \in 0 .. n
  BY QueueFacts
<1>2. 0 \in P
  <2>1. p + 1 + 0 = p + 1
    BY <1>1
  <2> QED BY <1>1, <2>1
<1>3. ASSUME NEW d \in 1 .. n, d - 1 \in P PROVE d \in P
  <2>1. p + 1 + d \in p + 2 .. r /\ (p + 1 + d) - 1 = p + 1 + (d - 1) /\ d \in 0 .. n
    BY <1>1
  <2>2. U((p + 1 + d) - 1) = U(p + 1 + d)
    BY <2>1
  <2>3. U(p + 1 + (d - 1)) = U(p + 1)
    BY <1>3
  <2>4. U(p + 1 + d) = U(p + 1)
    <3>1. U(p + 1 + (d - 1)) = U(p + 1 + d)
      BY <2>1, <2>2
    <3> QED BY <2>3, <3>1
  <2> QED BY <2>1, <2>4
<1>4. \A d \in 0 .. n : U(p + 1 + d) = U(p + 1)
  <2>1. \A d \in 0 .. n : d \in P
    <3> HIDE DEF P, n
    <3> QED BY <1>1, <1>2, <1>3, UpTo
  <2> QED BY <2>1
<1>5. \A id \in p + 1 .. r : U(id) = U(p + 1) /\ RequestOf(q, id).shareRate \in Nat
  <2> SUFFICES ASSUME NEW id \in p + 1 .. r
               PROVE  U(id) = U(p + 1) /\ RequestOf(q, id).shareRate \in Nat
    OBVIOUS
  <2>1. id - (p + 1) \in 0 .. n /\ p + 1 + (id - (p + 1)) = id /\ id \in 1 .. Len(q)
    BY <1>1
  <2>2. U(p + 1 + (id - (p + 1))) = U(p + 1)
    <3> HIDE DEF U, n
    <3> QED BY <1>4, <2>1
  <2>3. U(id) = U(p + 1)
    <3> HIDE DEF U, n
    <3> QED BY <2>1, <2>2
  <2> QED BY <2>1, <2>3, RequestWorth
<1>6. CASE U(p + 1)
  BY <1>5, <1>6 DEF Under
<1>7. CASE ~ U(p + 1)
  BY <1>5, <1>7 DEF Over
<1> QED BY <1>6, <1>7

LEMMA UnmixedIsOneSided ==
  ASSUME BatchesInv, NEW h, Cut(queue, maxShareRate, lastFinalized, state.batches, h), Mixed = {}
  PROVE  OneSided(queue, maxShareRate, lastFinalized, state.batches)
<1> DEFINE q == queue
           m == maxShareRate
           last == lastFinalized
           b == state.batches
           Same(id) == (RequestOf(q, id - 1).shareRate <= m) = (RequestOf(q, id).shareRate <= m)
<1>1. Growing(q) /\ m \in Nat /\ last \in 0 .. Len(q)
  BY DEF BatchesInv
<1>2. Handled = h /\ h \in Nat /\ last \in Nat
  BY <1>1, HandledIs, QueueFacts
<1>3. ASSUME NEW id \in last + 2 .. h, ExtendsBatch(q, id, m) PROVE Same(id)
  <2>1. id \in last + 1 .. h /\ id # last + 1
    BY <1>2
  <2>2. id \notin Starts(h)
    BY <1>3, <2>1 DEF Starts
  <2> QED BY <1>2, <2>1, <2>2 DEF Mixed
<1>4. ASSUME NEW i \in 1 .. Len(b)
      PROVE  Under(q, m, EndOf(last, b, i - 1), b[i]) \/ Over(q, m, EndOf(last, b, i - 1), b[i])
  <2> DEFINE p == EndOf(last, b, i - 1)
             r == b[i]
  <2>1. /\ p \in last .. Len(q) /\ r \in p .. Len(q) /\ p < r /\ p \in Nat /\ r \in Nat
        /\ last <= p /\ r <= h
    <3> HIDE DEF q, m, last, b
    <3> QED BY <1>1, EndFacts DEF q, m, last, b
  <2>2. \A id \in p + 2 .. r : ExtendsBatch(q, id, m)
    BY DEF Cut
  <2> HIDE DEF p, r, q, m, last, b, Same
  <2>3. p + 2 .. r \subseteq last + 2 .. h /\ p \in 0 .. Len(q)
    BY <1>2, <2>1
  <2>4. \A id \in p + 2 .. r : Same(id)
    BY <1>3, <2>2, <2>3
  <2>5. Under(q, m, p, r) \/ Over(q, m, p, r)
    BY <1>1, <2>1, <2>3, <2>4, OneSide DEF Same
  <2> QED BY <2>5 DEF p, r
<1> QED BY <1>4 DEF OneSided

LEMMA InvIsAccepted ==
  ASSUME BatchesInv
  PROVE  BatchesAreAccepted
<1> DEFINE b == state.batches
           m == maxShareRate
           last == lastFinalized
<1>1. PICK h \in last .. Len(queue) : Within(queue, m, maxTimestamp, last, budget, b, h)
  BY DEF BatchesInv, StateOK
<1>2. /\ Growing(queue) /\ m \in Nat \ {0} /\ m \in Nat /\ last \in 0 .. Len(queue) /\ budget \in Nat
      /\ Cut(queue, m, last, b, h) /\ Spent(queue, m, last, h) <= budget
  BY <1>1 DEF BatchesInv, Within
<1>3. Handled = h /\ h \in Nat
  BY <1>2, HandledIs
<1>4. last \in Nat /\ Len(b) \in Nat /\ DOMAIN b = 1 .. Len(b) /\ EndOf(last, b, Len(b)) = h
  <2> HIDE DEF b, m, last
  <2> QED BY <1>2, CutFacts DEF Cut
<1>5. PrefixOK(queue, m, last, b, Len(b))
  <2> HIDE DEF b, m, last
  <2> QED BY <1>2, AllLocked
<1>6. Lock = SumOf(Locks(queue, m, last, b), 1 .. Len(b))
  <2>1. Lock = Prefinalize(queue, last, b, m)
    BY DEF Lock
  <2> HIDE DEF b, m, last
  <2> QED BY <1>4, <2>1, PrefinalizeIsSum
<1>7. /\ Lock \in Nat /\ Lock <= AceOfRange(queue, last, h)
      /\ OneSided(queue, m, last, b) => Lock + Len(b) <= Spent(queue, m, last, h) + (h - last)
  <2> HIDE DEF b, m, last
  <2> QED BY <1>4, <1>5, <1>6 DEF PrefixOK
<1>8. Lock <= CalcBatch(queue, lastFinalized, Handled).bACE
  BY <1>3, <1>7 DEF AceOfRange
<1>9. Mixed = {} => Lock + Len(b) <= budget + (Handled - last)
  <2> SUFFICES ASSUME Mixed = {} PROVE Lock + Len(b) <= budget + (h - last)
    BY <1>3
  <2>1. OneSided(queue, m, last, b)
    BY <1>2, UnmixedIsOneSided
  <2>2. Lock + Len(b) <= Spent(queue, m, last, h) + (h - last)
    BY <1>7, <2>1
  <2>3. Spent(queue, m, last, h) \in Nat
    BY <1>2, SpentStep
  <2> HIDE DEF b, m, last
  <2> QED BY <1>2, <1>3, <1>4, <1>7, <2>2, <2>3
<1>10. b # <<>> => CanPrefinalize(queue, last, b, m)
  <2> HIDE DEF b, m, last
  <2> QED BY <1>2, CutIsSorted
<1> QED BY <1>8, <1>9, <1>10 DEF BatchesAreAccepted

(* The ids are new and sorted, no more is locked than is asked for, and,   *)
(* as long as no batch has requests on both sides of the rate, the budget  *)
(* is exceeded by less than one wei for each request.                      *)
THEOREM Accepted == Spec => []BatchesAreAccepted
BY BatchesInvariant, InvIsAccepted, PTL
=============================================================================
