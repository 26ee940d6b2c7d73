--------------------------- MODULE Operations_proof ---------------------------
(***************************************************************************)
(* Machine-checked proofs about the registry of node operators under every *)
(* call and program of Operations, for every value of the constants.       *)
(***************************************************************************)
EXTENDS Operations, Sums_proof, SequenceTheorems

-----------------------------------------------------------------------------
(* Numbers, sequences and recursion *)

LEMMA FunctionIsSequence ==
  ASSUME NEW n \in Nat, NEW S, NEW f \in [1 .. n -> S]
  PROVE  f \in Seq(S) /\ Len(f) = n /\ DOMAIN f = 1 .. n
<1>1. f \in Seq(S)
  BY SeqDef
<1> QED BY <1>1, LenProperties

(* What the library states of sequences, by index.                         *)
LEMMA SeqFacts ==
  ASSUME NEW S, NEW s \in Seq(S)
  PROVE  /\ Len(s) \in Nat /\ DOMAIN s = 1 .. Len(s) /\ s \in [1 .. Len(s) -> S]
         /\ \A i \in 1 .. Len(s) : s[i] \in S
BY LenProperties, ElementOfSeq

(* A part of a sequence from its beginning.                                *)
LEMMA PrefixFacts ==
  ASSUME NEW S, NEW s \in Seq(S), NEW n \in 0 .. Len(s)
  PROVE  /\ SubSeq(s, 1, n) \in Seq(S) /\ Len(SubSeq(s, 1, n)) = n
         /\ \A i \in 1 .. n : SubSeq(s, 1, n)[i] = s[i]
<1>1. Len(s) \in Nat /\ n \in Nat /\ n <= Len(s)
  BY SeqFacts
<1>2. SubSeq(s, 1, n) = [i \in 1 .. n |-> s[i]]
  BY <1>1
<1>3. [i \in 1 .. n |-> s[i]] \in [1 .. n -> S]
  BY <1>1, SeqFacts
<1> QED BY <1>1, <1>2, <1>3, FunctionIsSequence

-----------------------------------------------------------------------------
(* Sums over the operators *)

Fields == {"max", "deposited", "exited", "total"}

(* A total is a sum over the numbers of the operators.                     *)
LEMMA TotalIsSum ==
  ASSUME NEW v PROVE Total(v) = SumOf(v, DOMAIN v)
BY DEF Total, SumOf

-----------------------------------------------------------------------------
(* The invariant of the registry *)

RegistryTypeOK ==
  /\ nodeOperators \in Seq(NodeOperator)
  /\ signingKeys \in Seq(Seq(SigningKeys)) /\ Len(signingKeys) = Len(nodeOperators)
  /\ approved \in Seq(Seq(SigningKeys)) /\ Len(approved) = Len(nodeOperators)
  /\ \A i \in Ids : Len(signingKeys[i]) = nodeOperators[i].total
  /\ nonce \in Nat /\ now \in Nat /\ now >= 1

(* The counters of one operator before its maximum is computed.            *)
Ordered(op) ==
  /\ op.exited + op.stuck <= op.deposited /\ op.refunded <= op.deposited
  /\ op.deposited <= op.vetted /\ op.vetted <= op.total
  /\ ~ op.active => op.vetted = op.deposited

(* And its maximum.                                                        *)
MaximumOK(op) ==
  /\ op.deposited <= op.max /\ op.max <= op.vetted
  /\ isOperatorPenalized(op) => op.max = op.deposited
  /\ isOperatorPenaltyCleared(op) /\ ~ op.targetActive => op.max = op.vetted
  /\ op.targetActive /\ op.max > op.deposited => op.max - op.exited <= op.target

OperatorsOK == \A i \in Ids : Ordered(nodeOperators[i]) /\ MaximumOK(nodeOperators[i])

SummaryOK ==
  /\ summary \in [Fields -> Int]
  /\ \A f \in Fields : summary[f] = SumOf(Counter(f), Ids)

RegInv == RegistryTypeOK /\ OperatorsOK /\ SummaryOK /\ VettedKeysWereSeen

(* The maximum the contract computes is one it may store.                  *)
LEMMA LimitedOK ==
  ASSUME NEW op \in NodeOperator, Ordered(op), now \in Nat
  PROVE  /\ Limited(op) \in NodeOperator
         /\ Ordered(Limited(op)) /\ MaximumOK(Limited(op))
         /\ \A f \in DOMAIN op \ {"max"} : Limited(op)[f] = op[f]
<1> DEFINE m == applyNodeOperatorLimits(op)
           q == [op EXCEPT !.max = m]
<1>1. /\ op.deposited \in Nat /\ op.vetted \in Nat /\ op.exited \in Nat /\ op.target \in Nat
      /\ op.stuck \in Nat /\ op.refunded \in Nat /\ op.penaltyEnd \in Nat /\ op.total \in Nat
      /\ op.targetActive \in BOOLEAN /\ op.active \in BOOLEAN
  BY DEF NodeOperator
<1>2. /\ m \in Nat /\ op.deposited <= m /\ m <= op.vetted
      /\ ~ isOperatorPenaltyCleared(op) => m = op.deposited
      /\ isOperatorPenaltyCleared(op) /\ ~ op.targetActive => m = op.vetted
      /\ op.targetActive /\ m > op.deposited => m - op.exited <= op.target
  BY <1>1 DEF applyNodeOperatorLimits, Math256_max, Math256_min, Ordered
<1> HIDE DEF m
<1>3. q \in NodeOperator /\ q.max = m /\ \A f \in DOMAIN op \ {"max"} : q[f] = op[f]
  BY <1>2 DEF NodeOperator
<1>4. DOMAIN op = {"active", "name", "rewardAddress", "exited", "deposited", "vetted", "total",
                   "max", "stuck", "refunded", "penaltyEnd", "targetActive", "target"}
  BY DEF NodeOperator
<1>5. /\ q.exited = op.exited /\ q.stuck = op.stuck /\ q.deposited = op.deposited
      /\ q.refunded = op.refunded /\ q.vetted = op.vetted /\ q.total = op.total
      /\ q.active = op.active /\ q.penaltyEnd = op.penaltyEnd
      /\ q.targetActive = op.targetActive /\ q.target = op.target
  BY <1>3, <1>4
<1> HIDE DEF q
<1>6. Ordered(q)
  BY <1>5 DEF Ordered
<1>7. MaximumOK(q)
  <2>1. /\ isOperatorPenalized(q) <=> isOperatorPenalized(op)
        /\ isOperatorPenaltyCleared(q) <=> isOperatorPenaltyCleared(op)
    BY <1>5 DEF isOperatorPenalized, isOperatorPenaltyCleared
  <2>2. isOperatorPenalized(op) => ~ isOperatorPenaltyCleared(op)
    BY DEF isOperatorPenaltyCleared
  <2> QED BY <1>2, <1>3, <1>5, <2>1, <2>2 DEF MaximumOK
<1>8. Limited(op) = q
  BY DEF Limited, q, m
<1> QED BY <1>3, <1>6, <1>7, <1>8

LEMMA IdsFinite ==
  ASSUME RegistryTypeOK
  PROVE  /\ Len(nodeOperators) \in Nat /\ Ids = 1 .. Len(nodeOperators) /\ IsFiniteSet(Ids)
         /\ DOMAIN nodeOperators = Ids
         /\ nodeOperators \in [Ids -> NodeOperator]
BY SeqFacts, FS_Interval DEF RegistryTypeOK, Ids

(* The fields of an operator are natural numbers.                          *)
LEMMA FieldsOK ==
  ASSUME NEW op \in NodeOperator, NEW f \in Fields
  PROVE  op[f] \in Nat
BY DEF NodeOperator, Fields

(* Storing changed operators moves the summary with them.                  *)
LEMMA StoreOK ==
  ASSUME RegInv, NEW D \in SUBSET Ids, NEW new \in [D -> NodeOperator],
         NEW fields \in SUBSET Fields, Store(new, fields), now' = now,
         \A i \in D : Ordered(new[i]) /\ MaximumOK(new[i]),
         \A i \in D, f \in Fields \ fields : new[i][f] = nodeOperators[i][f]
  PROVE  /\ nodeOperators' \in Seq(NodeOperator)
         /\ Len(nodeOperators') = Len(nodeOperators) /\ Ids' = Ids
         /\ \A i \in Ids : nodeOperators'[i] = IF i \in D THEN new[i] ELSE nodeOperators[i]
         /\ OperatorsOK' /\ SummaryOK'
<1> DEFINE ops == nodeOperators'
<1>1. /\ Len(nodeOperators) \in Nat /\ Ids = 1 .. Len(nodeOperators) /\ IsFiniteSet(Ids)
      /\ nodeOperators \in [Ids -> NodeOperator]
  BY IdsFinite DEF RegInv
<1>2. ops \in [Ids -> NodeOperator]
      /\ \A i \in Ids : ops[i] = IF i \in D THEN new[i] ELSE nodeOperators[i]
  BY <1>1 DEF Store
<1>3. ops \in Seq(NodeOperator) /\ Len(ops) = Len(nodeOperators)
  <2> HIDE DEF ops
  <2> QED BY <1>1, <1>2, FunctionIsSequence
<1>4. Ids' = Ids
  BY <1>1, <1>3 DEF Ids
<1>5. OperatorsOK'
  BY <1>2, <1>4 DEF OperatorsOK, RegInv, MaximumOK, isOperatorPenalized,
                    isOperatorPenaltyCleared
<1>6. SummaryOK'
  <2>1. summary \in [Fields -> Int] /\ \A f \in Fields : summary[f] = SumOf(Counter(f), Ids)
    BY DEF RegInv, SummaryOK
  <2>2. ASSUME NEW f \in Fields
        PROVE  SumOf(Counter(f)', Ids) \in Int /\ summary'[f] = SumOf(Counter(f)', Ids)
    <3> DEFINE g == [i \in Ids |-> ops[i][f]]
               old == [i \in Ids |-> nodeOperators[i][f]]
               d == [i \in D |-> g[i] - old[i]]
    <3>1. Counter(f)' = g /\ Counter(f) = old
      BY <1>4 DEF Counter
    <3>2. \A i \in Ids : old[i] \in Int /\ g[i] \in Int
      BY <1>1, <1>2, FieldsOK
    <3>3. \A i \in Ids \ D : g[i] = old[i]
      BY <1>2
    <3>4. SumOf(old, Ids) \in Int /\ SumOf(g, Ids) \in Int
      <4> HIDE DEF g, old
      <4> QED BY <1>1, <3>2, SumType
    <3>5. SumOf(g, Ids) = SumOf(old, Ids) + SumOf(d, D)
      <4>1. D \in SUBSET Ids /\ IsFiniteSet(Ids)
        BY <1>1
      <4> HIDE DEF g, old, Ids
      <4> QED BY ONLY <4>1, <3>2, <3>3, SumShift
    <3>6. CASE f \in fields
      <4>1. [i \in DOMAIN new |-> new[i][f] - nodeOperators[i][f]] = d
        BY <1>2
      <4>2. summary'[f] = summary[f] + Total(d)
        BY <2>1, <3>6, <4>1 DEF Store
      <4>3. Total(d) = SumOf(d, D)
        <5>1. DOMAIN d = D
          OBVIOUS
        <5> HIDE DEF d
        <5> QED BY <5>1, TotalIsSum
      <4> HIDE DEF g, old, d
      <4> QED BY <2>1, <3>1, <3>4, <3>5, <4>2, <4>3
    <3>7. CASE f \notin fields
      <4>1. \A i \in Ids : g[i] = old[i]
        BY <1>2, <3>7
      <4>2. SumOf(g, Ids) = SumOf(old, Ids)
        <5> HIDE DEF g, old
        <5> QED BY <1>1, <4>1, SumCongruent
      <4>3. summary'[f] = summary[f]
        BY <2>1, <3>7 DEF Store
      <4> HIDE DEF g, old
      <4> QED BY <2>1, <3>1, <3>4, <4>2, <4>3
    <3> QED BY <3>6, <3>7
  <2>3. summary' = [f \in Fields |-> summary'[f]]
    BY <2>1 DEF Store
  <2>4. summary' \in [Fields -> Int]
    BY <2>2, <2>3
  <2> QED BY <1>4, <2>2, <2>4 DEF SummaryOK
<1> QED BY <1>2, <1>3, <1>4, <1>5, <1>6

(* When no key becomes approved or moves, the approved ones are still the  *)
(* ones the owner saw.                                                     *)
LEMMA StoreKeeps ==
  ASSUME RegInv, NEW D \in SUBSET Ids, NEW new \in [D -> NodeOperator],
         NEW fields \in SUBSET Fields, Store(new, fields), now' = now,
         \A i \in D : Ordered(new[i]) /\ MaximumOK(new[i]),
         \A i \in D, f \in Fields \ fields : new[i][f] = nodeOperators[i][f],
         \A i \in D : /\ new[i].total = nodeOperators[i].total
                      /\ new[i].vetted <= nodeOperators[i].vetted
                      /\ new[i].deposited >= nodeOperators[i].deposited,
         nonce' \in Nat, UNCHANGED <<signingKeys, approved>>
  PROVE  RegInv'
<1>1. /\ nodeOperators' \in Seq(NodeOperator)
      /\ Len(nodeOperators') = Len(nodeOperators) /\ Ids' = Ids
      /\ \A i \in Ids : nodeOperators'[i] = IF i \in D THEN new[i] ELSE nodeOperators[i]
      /\ OperatorsOK' /\ SummaryOK'
  BY StoreOK
<1>2. RegistryTypeOK'
  BY <1>1 DEF RegInv, RegistryTypeOK
<1>3. VettedKeysWereSeen'
  <2>1. \A i \in Ids : /\ nodeOperators'[i].vetted <= nodeOperators[i].vetted
                       /\ nodeOperators'[i].deposited >= nodeOperators[i].deposited
                       /\ nodeOperators'[i].vetted \in Nat /\ nodeOperators'[i].deposited \in Nat
                       /\ nodeOperators[i].vetted \in Nat /\ nodeOperators[i].deposited \in Nat
    <3>1. /\ nodeOperators' \in [Ids -> NodeOperator] /\ nodeOperators \in [Ids -> NodeOperator]
      BY <1>1, SeqFacts, IdsFinite DEF RegInv, Ids
    <3>2. \A op \in NodeOperator : op.vetted \in Nat /\ op.deposited \in Nat
      BY DEF NodeOperator
    <3> QED BY <1>1, <3>1, <3>2
  <2>2. SUFFICES ASSUME NEW i \in Ids, NEW k \in nodeOperators'[i].deposited + 1 .. nodeOperators'[i].vetted
                 PROVE  k <= Len(approved[i]) /\ approved[i][k] = signingKeys[i][k]
    BY <1>1 DEF VettedKeysWereSeen
  <2>3. k \in nodeOperators[i].deposited + 1 .. nodeOperators[i].vetted
    BY <2>1
  <2> QED BY <2>3 DEF RegInv, VettedKeysWereSeen
<1> QED BY <1>1, <1>2, <1>3 DEF RegInv

(* One operator is stored.                                                 *)
LEMMA OneOperator ==
  ASSUME NEW id, NEW op \in NodeOperator
  PROVE  /\ Only(id, op) \in [{id} -> NodeOperator] /\ Only(id, op)[id] = op
         /\ DOMAIN Only(id, op) = {id}
BY DEF Only

LEMMA OneKeeps ==
  ASSUME RegInv, NEW id \in Ids, NEW op \in NodeOperator, NEW fields \in SUBSET Fields,
         Store(Only(id, op), fields), now' = now, Ordered(op), MaximumOK(op),
         \A f \in Fields \ fields : op[f] = nodeOperators[id][f],
         op.total = nodeOperators[id].total, op.vetted <= nodeOperators[id].vetted,
         op.deposited >= nodeOperators[id].deposited,
         nonce' \in Nat, UNCHANGED <<signingKeys, approved>>
  PROVE  RegInv'
<1> DEFINE new == Only(id, op)
<1>1. new \in [{id} -> NodeOperator] /\ new[id] = op /\ Store(new, fields)
  BY OneOperator
<1> HIDE DEF new
<1>2. \A i \in {id} : new[i] = op
  BY <1>1
<1> QED BY <1>1, <1>2, StoreKeeps

(* The stored operators are operators with their counters in order.        *)
LEMMA StoredOperator ==
  ASSUME RegInv, NEW id \in Ids
  PROVE  /\ nodeOperators[id] \in NodeOperator
         /\ Ordered(nodeOperators[id]) /\ MaximumOK(nodeOperators[id])
BY IdsFinite DEF RegInv, OperatorsOK

(* The types of an operator, field by field.                               *)
LEMMA OperatorFields ==
  ASSUME NEW op \in NodeOperator
  PROVE  /\ op.active \in BOOLEAN /\ op.targetActive \in BOOLEAN
         /\ op.name \in Names /\ op.rewardAddress \in Names
         /\ op.exited \in Nat /\ op.deposited \in Nat /\ op.vetted \in Nat /\ op.total \in Nat
         /\ op.max \in Nat /\ op.stuck \in Nat /\ op.refunded \in Nat
         /\ op.penaltyEnd \in Nat /\ op.target \in Nat
         /\ DOMAIN op = {"active", "name", "rewardAddress", "exited", "deposited", "vetted",
                         "total", "max", "stuck", "refunded", "penaltyEnd", "targetActive",
                         "target"}
BY DEF NodeOperator

LEMMA NonceOK ==
  ASSUME RegInv PROVE (increaseValidatorsKeysNonce \/ nonce' = nonce) => nonce' \in Nat
BY DEF RegInv, RegistryTypeOK, increaseValidatorsKeysNonce

(* Nothing the invariant reads changes.                                    *)
LEMMA Untouched ==
  ASSUME RegInv, UNCHANGED <<nodeOperators, signingKeys, summary, approved>>,
         nonce' \in Nat, now' \in Nat, now' >= now
  PROVE  RegInv'
<1>1. Ids' = Ids
  BY DEF Ids
<1>2. RegistryTypeOK'
  BY <1>1 DEF RegInv, RegistryTypeOK
<1>3. OperatorsOK'
  <2>1. SUFFICES ASSUME NEW i \in Ids PROVE (Ordered(nodeOperators[i]) /\ MaximumOK(nodeOperators[i]))'
    BY <1>1 DEF OperatorsOK
  <2> DEFINE op == nodeOperators[i]
  <2>2. op \in NodeOperator /\ Ordered(op) /\ MaximumOK(op)
    BY StoredOperator
  <2>3. now \in Nat /\ now >= 1 /\ op.penaltyEnd \in Nat
    BY <2>2, OperatorFields DEF RegInv, RegistryTypeOK
  <2>4. op' = op
    OBVIOUS
  <2> HIDE DEF op
  <2>5. isOperatorPenalized(op)' => isOperatorPenalized(op)
    BY <2>3, <2>4 DEF isOperatorPenalized
  <2>6. isOperatorPenaltyCleared(op)' => isOperatorPenaltyCleared(op)
    BY <2>3, <2>4 DEF isOperatorPenaltyCleared, isOperatorPenalized
  <2>7. Ordered(op)' /\ MaximumOK(op)'
    BY <2>2, <2>4, <2>5, <2>6 DEF Ordered, MaximumOK
  <2> QED BY <2>7 DEF op
<1>4. SummaryOK' /\ VettedKeysWereSeen'
  BY <1>1 DEF RegInv, SummaryOK, Counter, VettedKeysWereSeen
<1> QED BY <1>2, <1>3, <1>4 DEF RegInv

(* The calls that count exited, stuck and refunded validators.             *)
LEMMA WithStuckOK ==
  ASSUME RegInv, NEW op \in NodeOperator, Ordered(op), MaximumOK(op),
         NEW stuck \in Nat, StuckInRange(op, stuck)
  PROVE  /\ WithStuck(op, stuck) \in NodeOperator
         /\ Ordered(WithStuck(op, stuck)) /\ MaximumOK(WithStuck(op, stuck))
         /\ WithStuck(op, stuck).stuck = stuck
         /\ \A f \in DOMAIN op \ {"max", "stuck", "penaltyEnd"} : WithStuck(op, stuck)[f] = op[f]
<1> DEFINE e == PenaltyEnd(op, stuck, op.refunded)
           q == [op EXCEPT !.stuck = stuck, !.penaltyEnd = e]
<1>1. now \in Nat /\ e \in Nat
  BY OperatorFields, RegistryAssumption DEF RegInv, RegistryTypeOK, PenaltyEnd
<1> HIDE DEF e
<1>2. q \in NodeOperator /\ q.stuck = stuck /\ DOMAIN q = DOMAIN op
      /\ \A f \in DOMAIN op \ {"stuck", "penaltyEnd"} : q[f] = op[f]
  BY <1>1 DEF NodeOperator
<1>3. stuck # op.stuck => Ordered(q)
  <2>1. /\ q.exited = op.exited /\ q.deposited = op.deposited /\ q.refunded = op.refunded
        /\ q.vetted = op.vetted /\ q.total = op.total /\ q.active = op.active
    BY <1>2, OperatorFields
  <2> HIDE DEF q
  <2> QED BY <1>2, <2>1 DEF Ordered, StuckInRange
<1>4. stuck # op.stuck => WithStuck(op, stuck) = Limited(q)
  BY DEF WithStuck, q, e
<1>5. stuck = op.stuck => WithStuck(op, stuck) = op
  BY DEF WithStuck
<1> HIDE DEF q
<1>6. stuck # op.stuck => /\ Limited(q) \in NodeOperator
                          /\ Ordered(Limited(q)) /\ MaximumOK(Limited(q))
                          /\ \A f \in DOMAIN q \ {"max"} : Limited(q)[f] = q[f]
  BY <1>1, <1>2, <1>3, LimitedOK
<1>7. "stuck" \in DOMAIN q
  BY <1>2, OperatorFields
<1>8. CASE stuck # op.stuck
  BY <1>2, <1>4, <1>6, <1>7, <1>8
<1>9. CASE stuck = op.stuck
  BY <1>5, <1>9
<1> QED BY <1>8, <1>9

-----------------------------------------------------------------------------
(* Each call of the registry keeps the invariant *)

LEMMA WithExitedOK ==
  ASSUME RegInv, NEW op \in NodeOperator, Ordered(op), MaximumOK(op),
         NEW exited \in Nat, NEW allowDecrease \in BOOLEAN,
         ExitedInRange(op, exited, allowDecrease)
  PROVE  /\ WithExited(op, exited) \in NodeOperator
         /\ Ordered(WithExited(op, exited)) /\ MaximumOK(WithExited(op, exited))
         /\ \A f \in DOMAIN op \ {"max", "exited"} : WithExited(op, exited)[f] = op[f]
<1> DEFINE q == [op EXCEPT !.exited = exited]
<1>1. now \in Nat
  BY DEF RegInv, RegistryTypeOK
<1>2. q \in NodeOperator /\ q.exited = exited /\ DOMAIN q = DOMAIN op
      /\ \A f \in DOMAIN op \ {"exited"} : q[f] = op[f]
  BY DEF NodeOperator
<1>3. exited # op.exited => Ordered(q)
  <2>1. /\ q.stuck = op.stuck /\ q.deposited = op.deposited /\ q.refunded = op.refunded
        /\ q.vetted = op.vetted /\ q.total = op.total /\ q.active = op.active
    BY <1>2, OperatorFields
  <2> HIDE DEF q
  <2> QED BY <1>2, <2>1 DEF Ordered, ExitedInRange
<1>4. exited # op.exited => WithExited(op, exited) = Limited(q)
  BY DEF WithExited
<1>5. exited = op.exited => WithExited(op, exited) = op
  BY DEF WithExited
<1> HIDE DEF q
<1>6. exited # op.exited => /\ Limited(q) \in NodeOperator
                            /\ Ordered(Limited(q)) /\ MaximumOK(Limited(q))
                            /\ \A f \in DOMAIN q \ {"max"} : Limited(q)[f] = q[f]
  BY <1>1, <1>2, <1>3, LimitedOK
<1>7. CASE exited # op.exited
  BY <1>2, <1>4, <1>6, <1>7
<1>8. CASE exited = op.exited
  BY <1>5, <1>8
<1> QED BY <1>7, <1>8

LEMMA WithRefundedOK ==
  ASSUME RegInv, NEW op \in NodeOperator, Ordered(op), MaximumOK(op),
         NEW refunded \in Nat, refunded = op.refunded \/ refunded <= op.deposited
  PROVE  /\ WithRefunded(op, refunded) \in NodeOperator
         /\ Ordered(WithRefunded(op, refunded)) /\ MaximumOK(WithRefunded(op, refunded))
         /\ \A f \in DOMAIN op \ {"max", "refunded", "penaltyEnd"} :
              WithRefunded(op, refunded)[f] = op[f]
<1> DEFINE e == PenaltyEnd(op, op.stuck, refunded)
           q == [op EXCEPT !.refunded = refunded, !.penaltyEnd = e]
<1>1. now \in Nat /\ e \in Nat
  BY OperatorFields, RegistryAssumption DEF RegInv, RegistryTypeOK, PenaltyEnd
<1> HIDE DEF e
<1>2. q \in NodeOperator /\ q.refunded = refunded /\ DOMAIN q = DOMAIN op
      /\ \A f \in DOMAIN op \ {"refunded", "penaltyEnd"} : q[f] = op[f]
  BY <1>1 DEF NodeOperator
<1>3. refunded # op.refunded => Ordered(q)
  <2>1. /\ q.exited = op.exited /\ q.deposited = op.deposited /\ q.stuck = op.stuck
        /\ q.vetted = op.vetted /\ q.total = op.total /\ q.active = op.active
    BY <1>2, OperatorFields
  <2> HIDE DEF q
  <2> QED BY <1>2, <2>1 DEF Ordered
<1>4. refunded # op.refunded => WithRefunded(op, refunded) = Limited(q)
  BY DEF WithRefunded, q, e
<1>5. refunded = op.refunded => WithRefunded(op, refunded) = op
  BY DEF WithRefunded
<1> HIDE DEF q
<1>6. refunded # op.refunded => /\ Limited(q) \in NodeOperator
                                /\ Ordered(Limited(q)) /\ MaximumOK(Limited(q))
                                /\ \A f \in DOMAIN q \ {"max"} : Limited(q)[f] = q[f]
  BY <1>1, <1>2, <1>3, LimitedOK
<1>7. CASE refunded # op.refunded
  BY <1>2, <1>4, <1>6, <1>7
<1>8. CASE refunded = op.refunded
  BY <1>5, <1>8
<1> QED BY <1>7, <1>8

LEMMA StuckStep ==
  ASSUME RegInv, NEW D \in SUBSET Ids, NEW report \in [D -> Nat],
         updateStuckValidatorsCount(report)
  PROVE  RegInv'
<1> DEFINE new == [i \in D |-> WithStuck(nodeOperators[i], report[i])]
<1>1. /\ \A i \in D : StuckInRange(nodeOperators[i], report[i]) /\ report[i] \in Nat
      /\ Store(new, {"max"}) /\ now' = now /\ nonce' \in Nat
      /\ UNCHANGED <<signingKeys, approved>>
  BY NonceOK DEF updateStuckValidatorsCount
<1>2. ASSUME NEW i \in D
      PROVE  LET op == nodeOperators[i]
                 q == WithStuck(op, report[i])
             IN  /\ q \in NodeOperator /\ Ordered(q) /\ MaximumOK(q)
                 /\ q.total = op.total /\ q.vetted = op.vetted /\ q.deposited = op.deposited
                 /\ \A f \in Fields \ {"max"} : q[f] = op[f]
                 /\ op.vetted \in Nat /\ op.deposited \in Nat
  <2> DEFINE op == nodeOperators[i]
  <2>1. op \in NodeOperator /\ Ordered(op) /\ MaximumOK(op)
    BY StoredOperator
  <2> HIDE DEF op
  <2>2. StuckInRange(op, report[i]) /\ report[i] \in Nat
    BY <1>1 DEF op
  <2>3. /\ WithStuck(op, report[i]) \in NodeOperator
        /\ Ordered(WithStuck(op, report[i])) /\ MaximumOK(WithStuck(op, report[i]))
        /\ \A f \in DOMAIN op \ {"max", "stuck", "penaltyEnd"} : WithStuck(op, report[i])[f] = op[f]
    BY <2>1, <2>2, WithStuckOK
  <2> QED BY <2>1, <2>3, OperatorFields DEF Fields, op
<1>3. new \in [D -> NodeOperator] /\ \A i \in D : new[i] = WithStuck(nodeOperators[i], report[i])
  BY <1>2
<1> HIDE DEF new
<1>4. /\ \A i \in D : Ordered(new[i]) /\ MaximumOK(new[i])
      /\ \A i \in D, f \in Fields \ {"max"} : new[i][f] = nodeOperators[i][f]
      /\ \A i \in D : /\ new[i].total = nodeOperators[i].total
                      /\ new[i].vetted <= nodeOperators[i].vetted
                      /\ new[i].deposited >= nodeOperators[i].deposited
  BY <1>2, <1>3
<1>5. {"max"} \in SUBSET Fields
  BY DEF Fields
<1> QED BY <1>1, <1>3, <1>4, <1>5, StoreKeeps

LEMMA ExitedStep ==
  ASSUME RegInv, NEW D \in SUBSET Ids, NEW report \in [D -> Nat],
         updateExitedValidatorsCount(report)
  PROVE  RegInv'
<1> DEFINE new == [i \in D |-> WithExited(nodeOperators[i], report[i])]
           moved == {"exited", "max"}
<1>1. /\ \A i \in D : ExitedInRange(nodeOperators[i], report[i], FALSE) /\ report[i] \in Nat
      /\ Store(new, moved) /\ now' = now /\ nonce' \in Nat
      /\ UNCHANGED <<signingKeys, approved>>
  BY NonceOK DEF updateExitedValidatorsCount
<1>2. ASSUME NEW i \in D
      PROVE  LET op == nodeOperators[i]
                 q == WithExited(op, report[i])
             IN  /\ q \in NodeOperator /\ Ordered(q) /\ MaximumOK(q)
                 /\ q.total = op.total /\ q.vetted = op.vetted /\ q.deposited = op.deposited
                 /\ \A f \in Fields \ moved : q[f] = op[f]
                 /\ op.vetted \in Nat /\ op.deposited \in Nat
  <2> DEFINE op == nodeOperators[i]
  <2>1. op \in NodeOperator /\ Ordered(op) /\ MaximumOK(op)
    BY StoredOperator
  <2> HIDE DEF op
  <2>2. ExitedInRange(op, report[i], FALSE) /\ report[i] \in Nat
    BY <1>1 DEF op
  <2>3. /\ WithExited(op, report[i]) \in NodeOperator
        /\ Ordered(WithExited(op, report[i])) /\ MaximumOK(WithExited(op, report[i]))
        /\ \A f \in DOMAIN op \ {"max", "exited"} : WithExited(op, report[i])[f] = op[f]
    BY <2>1, <2>2, WithExitedOK
  <2> QED BY <2>1, <2>3, OperatorFields DEF Fields, op
<1>3. new \in [D -> NodeOperator] /\ \A i \in D : new[i] = WithExited(nodeOperators[i], report[i])
  BY <1>2
<1> HIDE DEF new
<1>4. /\ \A i \in D : Ordered(new[i]) /\ MaximumOK(new[i])
      /\ \A i \in D, f \in Fields \ moved : new[i][f] = nodeOperators[i][f]
      /\ \A i \in D : /\ new[i].total = nodeOperators[i].total
                      /\ new[i].vetted <= nodeOperators[i].vetted
                      /\ new[i].deposited >= nodeOperators[i].deposited
  BY <1>2, <1>3
<1>5. moved \in SUBSET Fields
  BY DEF Fields
<1> HIDE DEF moved
<1> QED BY <1>1, <1>3, <1>4, <1>5, StoreKeeps

LEMMA UnsafeStep ==
  ASSUME RegInv, NEW id \in Ids, NEW exited \in Nat, NEW stuck \in Nat,
         unsafeUpdateValidatorsCount(id, exited, stuck)
  PROVE  RegInv'
<1> DEFINE op == nodeOperators[id]
           first == WithStuck(op, stuck)
           q == WithExited(first, exited)
           moved == {"exited", "max"}
<1>1. /\ StuckInRange(op, stuck) /\ ExitedInRange(first, exited, TRUE)
      /\ Store(Only(id, q), moved) /\ now' = now /\ nonce' \in Nat
      /\ UNCHANGED <<signingKeys, approved>>
  BY NonceOK DEF unsafeUpdateValidatorsCount
<1>2. op \in NodeOperator /\ Ordered(op) /\ MaximumOK(op)
  BY StoredOperator
<1> HIDE DEF op
<1>3. /\ first \in NodeOperator /\ Ordered(first) /\ MaximumOK(first)
      /\ \A f \in DOMAIN op \ {"max", "stuck", "penaltyEnd"} : first[f] = op[f]
  BY <1>1, <1>2, WithStuckOK
<1> HIDE DEF first
<1>4. /\ q \in NodeOperator /\ Ordered(q) /\ MaximumOK(q)
      /\ \A f \in DOMAIN first \ {"max", "exited"} : q[f] = first[f]
  BY <1>1, <1>3, WithExitedOK
<1> HIDE DEF q
<1>5. /\ q.total = op.total /\ q.vetted = op.vetted /\ q.deposited = op.deposited
      /\ \A f \in Fields \ moved : q[f] = op[f]
      /\ q.vetted <= op.vetted /\ q.deposited >= op.deposited /\ moved \in SUBSET Fields
  BY <1>2, <1>3, <1>4, OperatorFields DEF Fields
<1> HIDE DEF moved
<1> QED BY <1>1, <1>4, <1>5, OneKeeps DEF op

LEMMA RefundedStep ==
  ASSUME RegInv, NEW id \in Ids, NEW refunded \in Nat,
         updateRefundedValidatorsCount(id, refunded)
  PROVE  RegInv'
<1> DEFINE op == nodeOperators[id]
           q == WithRefunded(op, refunded)
           moved == {"max"}
<1>1. /\ refunded = op.refunded \/ refunded <= op.deposited
      /\ Store(Only(id, q), moved) /\ now' = now /\ nonce' \in Nat
      /\ UNCHANGED <<signingKeys, approved>>
  BY NonceOK DEF updateRefundedValidatorsCount
<1>2. op \in NodeOperator /\ Ordered(op) /\ MaximumOK(op)
  BY StoredOperator
<1> HIDE DEF op
<1>3. /\ q \in NodeOperator /\ Ordered(q) /\ MaximumOK(q)
      /\ \A f \in DOMAIN op \ {"max", "refunded", "penaltyEnd"} : q[f] = op[f]
  BY <1>1, <1>2, WithRefundedOK
<1> HIDE DEF q
<1>4. /\ q.total = op.total /\ q.vetted = op.vetted /\ q.deposited = op.deposited
      /\ \A f \in Fields \ moved : q[f] = op[f]
      /\ q.vetted <= op.vetted /\ q.deposited >= op.deposited /\ moved \in SUBSET Fields
  BY <1>2, <1>3, OperatorFields DEF Fields
<1> HIDE DEF moved
<1> QED BY <1>1, <1>3, <1>4, OneKeeps DEF op

(* Calls that change none of the counters the maximum is computed from but *)
(* the target or the end of the penalty, and compute it anew.              *)
LEMMA TargetStep ==
  ASSUME RegInv, NEW id \in Ids, NEW on \in BOOLEAN, NEW target \in Nat,
         updateTargetValidatorsLimits(id, on, target)
  PROVE  RegInv'
<1> DEFINE op == nodeOperators[id]
           t == IF on THEN target ELSE 0
           p == [op EXCEPT !.targetActive = on, !.target = t]
           q == Limited(p)
           moved == {"max"}
<1>1. /\ Store(Only(id, q), moved) /\ now' = now /\ nonce' \in Nat
      /\ UNCHANGED <<signingKeys, approved>>
  BY NonceOK DEF updateTargetValidatorsLimits
<1>2. op \in NodeOperator /\ Ordered(op) /\ now \in Nat /\ t \in Nat
  BY StoredOperator DEF RegInv, RegistryTypeOK
<1> HIDE DEF op, t
<1>3. /\ p \in NodeOperator /\ DOMAIN p = DOMAIN op
      /\ \A f \in DOMAIN op \ {"targetActive", "target"} : p[f] = op[f]
  BY <1>2 DEF NodeOperator
<1> HIDE DEF p
<1>4. Ordered(p)
  BY <1>2, <1>3, OperatorFields DEF Ordered
<1>5. /\ q \in NodeOperator /\ Ordered(q) /\ MaximumOK(q)
      /\ \A f \in DOMAIN p \ {"max"} : q[f] = p[f]
  BY <1>2, <1>3, <1>4, LimitedOK
<1> HIDE DEF q
<1>6. /\ q.total = op.total /\ q.vetted = op.vetted /\ q.deposited = op.deposited
      /\ \A f \in Fields \ moved : q[f] = op[f]
      /\ q.vetted <= op.vetted /\ q.deposited >= op.deposited /\ moved \in SUBSET Fields
  BY <1>2, <1>3, <1>5, OperatorFields DEF Fields
<1> HIDE DEF moved
<1> QED BY <1>1, <1>5, <1>6, OneKeeps DEF op

LEMMA ClearStep ==
  ASSUME RegInv, NEW id \in Ids, clearNodeOperatorPenalty(id)
  PROVE  RegInv'
<1> DEFINE op == nodeOperators[id]
           p == [op EXCEPT !.penaltyEnd = 0]
           q == Limited(p)
           moved == {"max"}
<1>1. /\ Store(Only(id, q), moved) /\ now' = now /\ nonce' \in Nat
      /\ UNCHANGED <<signingKeys, approved>>
  BY NonceOK DEF clearNodeOperatorPenalty
<1>2. op \in NodeOperator /\ Ordered(op) /\ now \in Nat
  BY StoredOperator DEF RegInv, RegistryTypeOK
<1> HIDE DEF op
<1>3. /\ p \in NodeOperator /\ DOMAIN p = DOMAIN op
      /\ \A f \in DOMAIN op \ {"penaltyEnd"} : p[f] = op[f]
  BY <1>2 DEF NodeOperator
<1> HIDE DEF p
<1>4. Ordered(p)
  BY <1>2, <1>3, OperatorFields DEF Ordered
<1>5. /\ q \in NodeOperator /\ Ordered(q) /\ MaximumOK(q)
      /\ \A f \in DOMAIN p \ {"max"} : q[f] = p[f]
  BY <1>2, <1>3, <1>4, LimitedOK
<1> HIDE DEF q
<1>6. /\ q.total = op.total /\ q.vetted = op.vetted /\ q.deposited = op.deposited
      /\ \A f \in Fields \ moved : q[f] = op[f]
      /\ q.vetted <= op.vetted /\ q.deposited >= op.deposited /\ moved \in SUBSET Fields
  BY <1>2, <1>3, <1>5, OperatorFields DEF Fields
<1> HIDE DEF moved
<1> QED BY <1>1, <1>5, <1>6, OneKeeps DEF op

LEMMA DeactivateStep ==
  ASSUME RegInv, NEW id, deactivateNodeOperator(id)
  PROVE  RegInv'
<1> DEFINE op == nodeOperators[id]
           cut == op.vetted > op.deposited
           off == [op EXCEPT !.active = FALSE]
           less == [off EXCEPT !.vetted = op.deposited]
           q == IF cut THEN Limited(less) ELSE off
           moved == {"max"}
<1>1. /\ id \in Ids /\ Store(Only(id, q), moved) /\ now' = now /\ nonce' \in Nat
      /\ UNCHANGED <<signingKeys, approved>>
  BY NonceOK DEF deactivateNodeOperator
<1>2. op \in NodeOperator /\ Ordered(op) /\ MaximumOK(op) /\ now \in Nat
  BY <1>1, StoredOperator DEF RegInv, RegistryTypeOK
<1> HIDE DEF op
<1>3. /\ off \in NodeOperator /\ DOMAIN off = DOMAIN op /\ ~ off.active
      /\ \A f \in DOMAIN op \ {"active"} : off[f] = op[f]
  BY <1>2 DEF NodeOperator
<1> HIDE DEF off
<1>4. /\ less \in NodeOperator /\ DOMAIN less = DOMAIN op /\ less.vetted = op.deposited
      /\ \A f \in DOMAIN off \ {"vetted"} : less[f] = off[f]
  BY <1>2, <1>3, OperatorFields DEF NodeOperator
<1> HIDE DEF less
<1>5. Ordered(less)
  BY <1>2, <1>3, <1>4, OperatorFields DEF Ordered
<1>6. /\ Limited(less) \in NodeOperator /\ Ordered(Limited(less)) /\ MaximumOK(Limited(less))
      /\ \A f \in DOMAIN less \ {"max"} : Limited(less)[f] = less[f]
  BY <1>2, <1>4, <1>5, LimitedOK
<1>7. ~ cut => Ordered(off) /\ MaximumOK(off)
  BY <1>2, <1>3, OperatorFields
  DEF Ordered, MaximumOK, isOperatorPenalized, isOperatorPenaltyCleared
<1>8. /\ q \in NodeOperator /\ Ordered(q) /\ MaximumOK(q)
      /\ \A f \in {"total", "deposited", "exited"} : q[f] = op[f]
      /\ q.vetted <= op.vetted
  <2>1. CASE cut
    BY <1>2, <1>3, <1>4, <1>6, <2>1, OperatorFields
  <2>2. CASE ~ cut
    BY <1>2, <1>3, <1>7, <2>2, OperatorFields
  <2> QED BY <2>1, <2>2
<1> HIDE DEF q, cut
<1>9. /\ q.total = op.total /\ q.vetted <= op.vetted /\ q.deposited >= op.deposited
      /\ \A f \in Fields \ moved : q[f] = op[f]
      /\ moved \in SUBSET Fields
  BY <1>2, <1>8, OperatorFields DEF Fields
<1> HIDE DEF moved
<1> QED BY <1>1, <1>8, <1>9, OneKeeps DEF op

(* A call that changes none of the counters of an operator.                *)
LEMMA ReplacedKeeps ==
  ASSUME RegInv, NEW id \in Ids, NEW op \in NodeOperator,
         nodeOperators' = [nodeOperators EXCEPT ![id] = op],
         now' = now, Ordered(op), MaximumOK(op),
         \A f \in Fields \cup {"vetted"} : op[f] = nodeOperators[id][f],
         nonce' \in Nat, UNCHANGED <<signingKeys, summary, approved>>
  PROVE  RegInv'
<1>1. Store(Only(id, op), {})
  <2>1. nodeOperators \in [Ids -> NodeOperator] /\ summary \in [Fields -> Int]
    BY IdsFinite DEF RegInv, SummaryOK
  <2>2. /\ Only(id, op)[id] = op /\ DOMAIN Only(id, op) = {id}
    BY OneOperator
  <2>3. nodeOperators' = [i \in Ids |-> IF i \in DOMAIN Only(id, op) THEN Only(id, op)[i]
                                        ELSE nodeOperators[i]]
    BY <2>1, <2>2
  <2>4. summary' = [f \in DOMAIN summary |-> summary[f]]
    BY <2>1
  <2> QED BY <2>3, <2>4 DEF Store
<1>2. /\ op.total = nodeOperators[id].total /\ op.vetted <= nodeOperators[id].vetted
      /\ op.deposited >= nodeOperators[id].deposited
      /\ \A f \in Fields \ {} : op[f] = nodeOperators[id][f]
      /\ {} \in SUBSET Fields
  BY OperatorFields DEF Fields
<1> QED BY <1>1, <1>2, OneKeeps

LEMMA ActivateStep ==
  ASSUME RegInv, NEW id, activateNodeOperator(id)
  PROVE  RegInv'
<1> DEFINE op == nodeOperators[id]
           q == [op EXCEPT !.active = TRUE]
<1>1. /\ id \in Ids /\ now' = now /\ nonce' \in Nat /\ UNCHANGED <<signingKeys, summary, approved>>
      /\ nodeOperators' = [nodeOperators EXCEPT ![id] = q]
  BY NonceOK DEF activateNodeOperator
<1>2. op \in NodeOperator /\ Ordered(op) /\ MaximumOK(op)
  BY <1>1, StoredOperator
<1> HIDE DEF op
<1>3. /\ q \in NodeOperator /\ \A f \in DOMAIN op \ {"active"} : q[f] = op[f]
      /\ q.active = TRUE
  BY <1>2 DEF NodeOperator
<1> HIDE DEF q
<1>4. Ordered(q) /\ MaximumOK(q) /\ \A f \in Fields \cup {"vetted"} : q[f] = op[f]
  BY <1>2, <1>3, OperatorFields
  DEF Ordered, MaximumOK, isOperatorPenalized, isOperatorPenaltyCleared, Fields
<1> QED BY <1>1, <1>3, <1>4, ReplacedKeeps DEF op

LEMMA NameStep ==
  ASSUME RegInv, NEW id, NEW name \in Names,
         setNodeOperatorName(id, name) \/ setNodeOperatorRewardAddress(id, name)
  PROVE  RegInv'
<1> DEFINE op == nodeOperators[id]
           p == [op EXCEPT !.name = name]
           q == [op EXCEPT !.rewardAddress = name]
<1>1. /\ id \in Ids /\ now' = now /\ nonce' \in Nat /\ UNCHANGED <<signingKeys, summary, approved>>
      /\ \/ nodeOperators' = [nodeOperators EXCEPT ![id] = p]
         \/ nodeOperators' = [nodeOperators EXCEPT ![id] = q]
  BY NonceOK DEF setNodeOperatorName, setNodeOperatorRewardAddress
<1>2. op \in NodeOperator /\ Ordered(op) /\ MaximumOK(op)
  BY <1>1, StoredOperator
<1> HIDE DEF op
<1>3. /\ p \in NodeOperator /\ \A f \in DOMAIN op \ {"name"} : p[f] = op[f]
      /\ q \in NodeOperator /\ \A f \in DOMAIN op \ {"rewardAddress"} : q[f] = op[f]
  BY <1>2 DEF NodeOperator
<1> HIDE DEF p, q
<1>4. Ordered(p) /\ MaximumOK(p) /\ \A f \in Fields \cup {"vetted"} : p[f] = op[f]
  BY <1>2, <1>3, OperatorFields
  DEF Ordered, MaximumOK, isOperatorPenalized, isOperatorPenaltyCleared, Fields
<1>5. Ordered(q) /\ MaximumOK(q) /\ \A f \in Fields \cup {"vetted"} : q[f] = op[f]
  BY <1>2, <1>3, OperatorFields
  DEF Ordered, MaximumOK, isOperatorPenalized, isOperatorPenaltyCleared, Fields
<1>6. CASE nodeOperators' = [nodeOperators EXCEPT ![id] = p]
  BY <1>1, <1>3, <1>4, <1>6, ReplacedKeeps DEF op
<1>7. CASE nodeOperators' = [nodeOperators EXCEPT ![id] = q]
  BY <1>1, <1>3, <1>5, <1>7, ReplacedKeeps DEF op
<1> QED BY <1>1, <1>6, <1>7

LEMMA OwnerStep ==
  ASSUME RegInv, NEW caller, NEW account, NEW status, setOwner(caller, account, status)
  PROVE  RegInv'
BY Untouched DEF setOwner, RegInv, RegistryTypeOK

-----------------------------------------------------------------------------
(* Calls that change keys or their approval *)

LEMMA ExceptFacts ==
  ASSUME NEW S, NEW s \in Seq(S), NEW i \in 1 .. Len(s), NEW x \in S
  PROVE  /\ [s EXCEPT ![i] = x] \in Seq(S) /\ Len([s EXCEPT ![i] = x]) = Len(s)
         /\ \A j \in 1 .. Len(s) : [s EXCEPT ![i] = x][j] = IF j = i THEN x ELSE s[j]
<1>1. Len(s) \in Nat /\ DOMAIN s = 1 .. Len(s) /\ s \in [1 .. Len(s) -> S]
  BY SeqFacts
<1>2. [s EXCEPT ![i] = x] \in [1 .. Len(s) -> S]
  BY <1>1
<1> QED BY <1>1, <1>2, FunctionIsSequence

(* The approved keys are the seen ones if the call makes them so where it  *)
(* changes an operator.                                                    *)
LEMMA StoreMoves ==
  ASSUME RegInv, NEW D \in SUBSET Ids, NEW new \in [D -> NodeOperator],
         NEW fields \in SUBSET Fields, Store(new, fields), now' = now,
         \A i \in D : Ordered(new[i]) /\ MaximumOK(new[i]),
         \A i \in D, f \in Fields \ fields : new[i][f] = nodeOperators[i][f],
         nonce' \in Nat,
         signingKeys' \in Seq(Seq(SigningKeys)), Len(signingKeys') = Len(nodeOperators),
         approved' \in Seq(Seq(SigningKeys)), Len(approved') = Len(nodeOperators),
         \A i \in Ids \ D : signingKeys'[i] = signingKeys[i] /\ approved'[i] = approved[i],
         \A i \in D : Len(signingKeys'[i]) = new[i].total,
         \A i \in D : \A k \in new[i].deposited + 1 .. new[i].vetted :
           k <= Len(approved'[i]) /\ approved'[i][k] = signingKeys'[i][k]
  PROVE  RegInv'
<1>1. /\ nodeOperators' \in Seq(NodeOperator)
      /\ Len(nodeOperators') = Len(nodeOperators) /\ Ids' = Ids
      /\ \A i \in Ids : nodeOperators'[i] = IF i \in D THEN new[i] ELSE nodeOperators[i]
      /\ OperatorsOK' /\ SummaryOK'
  BY StoreOK
<1>2. RegistryTypeOK'
  BY <1>1 DEF RegInv, RegistryTypeOK
<1>3. VettedKeysWereSeen'
  <2>1. SUFFICES ASSUME NEW i \in Ids, NEW k \in nodeOperators'[i].deposited + 1 .. nodeOperators'[i].vetted
                 PROVE  k <= Len(approved'[i]) /\ approved'[i][k] = signingKeys'[i][k]
    BY <1>1 DEF VettedKeysWereSeen
  <2>2. CASE i \in D
    BY <1>1, <2>2
  <2>3. CASE i \notin D
    <3>1. nodeOperators'[i] = nodeOperators[i] /\ signingKeys'[i] = signingKeys[i] /\ approved'[i] = approved[i]
      BY <1>1, <2>3
    <3> QED BY <3>1 DEF RegInv, VettedKeysWereSeen
  <2> QED BY <2>2, <2>3
<1> QED BY <1>1, <1>2, <1>3 DEF RegInv

LEMMA OneMoves ==
  ASSUME RegInv, NEW id \in Ids, NEW op \in NodeOperator, NEW fields \in SUBSET Fields,
         Store(Only(id, op), fields), now' = now, Ordered(op), MaximumOK(op),
         \A f \in Fields \ fields : op[f] = nodeOperators[id][f],
         nonce' \in Nat,
         NEW keys \in Seq(SigningKeys), NEW seen \in Seq(SigningKeys),
         signingKeys' = [signingKeys EXCEPT ![id] = keys],
         approved' = [approved EXCEPT ![id] = seen],
         Len(keys) = op.total,
         \A k \in op.deposited + 1 .. op.vetted : k <= Len(seen) /\ seen[k] = keys[k]
  PROVE  RegInv'
<1> DEFINE new == Only(id, op)
           D == {id}
<1>1. new \in [D -> NodeOperator] /\ new[id] = op /\ Store(new, fields) /\ D \in SUBSET Ids
  BY OneOperator
<1> HIDE DEF new
<1>2. \A i \in D : i = id /\ new[i] = op
  BY <1>1
<1>3. /\ signingKeys \in Seq(Seq(SigningKeys)) /\ approved \in Seq(Seq(SigningKeys))
      /\ Len(signingKeys) = Len(nodeOperators) /\ Len(approved) = Len(nodeOperators)
      /\ Ids = 1 .. Len(nodeOperators)
  BY DEF RegInv, RegistryTypeOK, Ids
<1>4. /\ signingKeys' \in Seq(Seq(SigningKeys)) /\ Len(signingKeys') = Len(nodeOperators)
      /\ \A i \in Ids : signingKeys'[i] = IF i = id THEN keys ELSE signingKeys[i]
  <2>1. id \in 1 .. Len(signingKeys)
    BY <1>3
  <2> QED BY <1>3, <2>1, ExceptFacts
<1>5. /\ approved' \in Seq(Seq(SigningKeys)) /\ Len(approved') = Len(nodeOperators)
      /\ \A i \in Ids : approved'[i] = IF i = id THEN seen ELSE approved[i]
  <2>1. id \in 1 .. Len(approved)
    BY <1>3
  <2> QED BY <1>3, <2>1, ExceptFacts
<1>6. /\ \A i \in D : Ordered(new[i]) /\ MaximumOK(new[i])
      /\ \A i \in D, f \in Fields \ fields : new[i][f] = nodeOperators[i][f]
      /\ \A i \in Ids \ D : signingKeys'[i] = signingKeys[i] /\ approved'[i] = approved[i]
      /\ \A i \in D : Len(signingKeys'[i]) = new[i].total
      /\ \A i \in D : \A k \in new[i].deposited + 1 .. new[i].vetted :
           k <= Len(approved'[i]) /\ approved'[i][k] = signingKeys'[i][k]
  BY <1>2, <1>4, <1>5
<1> QED BY <1>1, <1>4, <1>5, <1>6, StoreMoves

(* The keys of an operator and what the owner saw of them.                 *)
LEMMA StoredKeys ==
  ASSUME RegInv, NEW id \in Ids
  PROVE  /\ signingKeys[id] \in Seq(SigningKeys) /\ approved[id] \in Seq(SigningKeys)
         /\ Len(signingKeys[id]) = nodeOperators[id].total
         /\ signingKeys = [signingKeys EXCEPT ![id] = signingKeys[id]]
         /\ approved = [approved EXCEPT ![id] = approved[id]]
         /\ \A k \in nodeOperators[id].deposited + 1 .. nodeOperators[id].vetted :
              k <= Len(approved[id]) /\ approved[id][k] = signingKeys[id][k]
<1>1. /\ signingKeys \in Seq(Seq(SigningKeys)) /\ approved \in Seq(Seq(SigningKeys))
      /\ Len(signingKeys) = Len(nodeOperators) /\ Len(approved) = Len(nodeOperators)
      /\ Ids = 1 .. Len(nodeOperators)
  BY DEF RegInv, RegistryTypeOK, Ids
<1>2. /\ signingKeys \in [Ids -> Seq(SigningKeys)] /\ approved \in [Ids -> Seq(SigningKeys)]
  BY <1>1, SeqFacts
<1> QED BY <1>2 DEF RegInv, RegistryTypeOK, VettedKeysWereSeen

LEMMA LimitStep ==
  ASSUME RegInv, NEW caller, NEW id, NEW limit \in Nat,
         setNodeOperatorStakingLimit(caller, id, limit)
  PROVE  RegInv'
<1> DEFINE op == nodeOperators[id]
           vetted == StakingLimit(op, limit)
           p == [op EXCEPT !.vetted = vetted]
           q == Limited(p)
           moved == {"max"}
           keys == signingKeys[id]
           seen == SubSeq(keys, 1, vetted)
<1>1. CASE vetted = op.vetted
  BY <1>1, Untouched DEF setNodeOperatorStakingLimit, registryVars, RegInv, RegistryTypeOK
<1>2. CASE vetted # op.vetted
  <2>1. /\ id \in Ids /\ op.active /\ Store(Only(id, q), moved) /\ now' = now /\ nonce' \in Nat
        /\ signingKeys' = signingKeys /\ approved' = [approved EXCEPT ![id] = seen]
    BY <1>2, NonceOK DEF setNodeOperatorStakingLimit
  <2>2. op \in NodeOperator /\ Ordered(op) /\ now \in Nat
    BY <2>1, StoredOperator DEF RegInv, RegistryTypeOK
  <2>3. /\ keys \in Seq(SigningKeys) /\ Len(keys) = op.total
        /\ signingKeys = [signingKeys EXCEPT ![id] = keys]
    BY <2>1, StoredKeys
  <2> HIDE DEF op, keys
  <2>4. vetted \in Nat /\ op.deposited <= vetted /\ vetted <= op.total
    BY <2>2, OperatorFields DEF StakingLimit, Math256_min, Math256_max, Ordered
  <2> HIDE DEF vetted
  <2>5. /\ p \in NodeOperator /\ p.vetted = vetted /\ DOMAIN p = DOMAIN op
        /\ \A f \in DOMAIN op \ {"vetted"} : p[f] = op[f]
    BY <2>2, <2>4 DEF NodeOperator
  <2> HIDE DEF p
  <2>6. Ordered(p)
    BY <2>1, <2>2, <2>4, <2>5, OperatorFields DEF Ordered
  <2>7. /\ q \in NodeOperator /\ Ordered(q) /\ MaximumOK(q)
        /\ \A f \in DOMAIN p \ {"max"} : q[f] = p[f]
    BY <2>2, <2>5, <2>6, LimitedOK
  <2> HIDE DEF q
  <2>8. /\ q.total = op.total /\ q.vetted = vetted /\ q.deposited = op.deposited
        /\ \A f \in Fields \ moved : q[f] = op[f]
        /\ moved \in SUBSET Fields /\ q.deposited \in Nat
    BY <2>2, <2>5, <2>7, OperatorFields DEF Fields
  <2> HIDE DEF moved
  <2>9. /\ seen \in Seq(SigningKeys) /\ Len(seen) = vetted
        /\ \A k \in 1 .. vetted : seen[k] = keys[k]
    <3>1. vetted \in 0 .. Len(keys)
      BY <2>2, <2>3, <2>4, OperatorFields
    <3> QED BY <2>3, <3>1, PrefixFacts
  <2> HIDE DEF seen
  <2>10. \A k \in q.deposited + 1 .. q.vetted : k <= Len(seen) /\ seen[k] = keys[k]
    BY <2>4, <2>8, <2>9
  <2>11. Len(keys) = q.total /\ signingKeys' = [signingKeys EXCEPT ![id] = keys]
    BY <2>1, <2>3, <2>8
  <2> QED BY <2>1, <2>3, <2>7, <2>8, <2>9, <2>10, <2>11, OneMoves DEF op
<1> QED BY <1>1, <1>2

LEMMA ConcatFacts ==
  ASSUME NEW S, NEW s \in Seq(S), NEW t \in Seq(S)
  PROVE  /\ s \o t \in Seq(S) /\ Len(s \o t) = Len(s) + Len(t)
         /\ \A k \in 1 .. Len(s) : (s \o t)[k] = s[k]
BY ConcatProperties

LEMMA AddKeysStep ==
  ASSUME RegInv, NEW caller, NEW id, NEW added \in Seq(SigningKeys),
         addSigningKeys(caller, id, added)
  PROVE  RegInv'
<1> DEFINE op == nodeOperators[id]
           total == op.total + Len(added)
           q == [op EXCEPT !.total = total]
           moved == {"total"}
           old == signingKeys[id]
           keys == old \o added
           seen == approved[id]
<1>1. /\ id \in Ids /\ op.active /\ Store(Only(id, q), moved) /\ now' = now /\ nonce' \in Nat
      /\ signingKeys' = [signingKeys EXCEPT ![id] = keys] /\ approved' = approved
  BY NonceOK DEF addSigningKeys
<1>2. op \in NodeOperator /\ Ordered(op) /\ MaximumOK(op)
  BY <1>1, StoredOperator
<1>3. /\ old \in Seq(SigningKeys) /\ Len(old) = op.total /\ seen \in Seq(SigningKeys)
      /\ approved = [approved EXCEPT ![id] = seen]
      /\ \A k \in op.deposited + 1 .. op.vetted : k <= Len(seen) /\ seen[k] = old[k]
  BY <1>1, StoredKeys
<1> HIDE DEF op, old, seen
<1>4. total \in Nat /\ op.total <= total /\ op.total \in Nat /\ op.vetted \in Nat /\ op.deposited \in Nat
  BY <1>2, OperatorFields, SeqFacts
<1>5. /\ keys \in Seq(SigningKeys) /\ Len(keys) = total
      /\ \A k \in 1 .. op.total : keys[k] = old[k]
  <2>1. /\ old \o added \in Seq(SigningKeys) /\ Len(old \o added) = Len(old) + Len(added)
        /\ \A k \in 1 .. Len(old) : (old \o added)[k] = old[k]
    <3>1. old \in Seq(SigningKeys)
      BY <1>3
    <3> QED BY ONLY <3>1, added \in Seq(SigningKeys), ConcatFacts
  <2>2. Len(old) = op.total
    BY <1>3
  <2> QED BY ONLY <2>1, <2>2
<1> HIDE DEF total, keys
<1>6. /\ q \in NodeOperator /\ q.total = total /\ \A f \in DOMAIN op \ {"total"} : q[f] = op[f]
  BY <1>2, <1>4 DEF NodeOperator
<1> HIDE DEF q
<1>7. /\ q.exited = op.exited /\ q.stuck = op.stuck /\ q.deposited = op.deposited
      /\ q.refunded = op.refunded /\ q.vetted = op.vetted /\ q.max = op.max
      /\ q.active = op.active /\ q.penaltyEnd = op.penaltyEnd
      /\ q.targetActive = op.targetActive /\ q.target = op.target
  BY <1>2, <1>6, OperatorFields
<1>8. Ordered(q)
  BY <1>2, <1>4, <1>6, <1>7 DEF Ordered
<1>9. MaximumOK(q)
  BY <1>2, <1>7 DEF MaximumOK, isOperatorPenalized, isOperatorPenaltyCleared
<1>10. /\ Ordered(q) /\ MaximumOK(q) /\ \A f \in Fields \ moved : q[f] = op[f]
      /\ moved \in SUBSET Fields /\ q.vetted = op.vetted /\ q.deposited = op.deposited
  BY <1>7, <1>8, <1>9 DEF Fields
<1> HIDE DEF moved
<1>11. \A k \in q.deposited + 1 .. q.vetted : k <= Len(seen) /\ seen[k] = keys[k]
  <2>1. op.vetted <= op.total
    BY <1>2 DEF Ordered
  <2>2. SUFFICES ASSUME NEW k \in op.deposited + 1 .. op.vetted PROVE k <= Len(seen) /\ seen[k] = keys[k]
    BY <1>10
  <2>3. k \in 1 .. op.total
    BY <1>4, <2>1
  <2> QED BY <1>3, <1>5, <2>3
<1>12. Len(keys) = q.total /\ approved' = [approved EXCEPT ![id] = seen]
  BY <1>1, <1>3, <1>5, <1>6
<1>13. /\ RegInv /\ id \in Ids /\ Store(Only(id, q), moved) /\ now' = now /\ nonce' \in Nat
       /\ \A f \in Fields \ moved : q[f] = nodeOperators[id][f]
  BY <1>1, <1>10 DEF op
<1>14. /\ keys \in Seq(SigningKeys) /\ seen \in Seq(SigningKeys) /\ q \in NodeOperator
       /\ signingKeys' = [signingKeys EXCEPT ![id] = keys]
  BY <1>1, <1>3, <1>5, <1>6
<1> QED BY ONLY <1>10, <1>11, <1>12, <1>13, <1>14, OneMoves

(* The function removeKeysSigs is defined by, up to `n` removals of `count`. *)
Removes(left, keys, from, count, n) ==
  left = [k \in 0 .. n |->
            IF k = 0 THEN keys
            ELSE LET s == left[k - 1] IN Front([s EXCEPT ![from + count - k + 1] = Last(s)])]

LEMMA RemovesExists ==
  ASSUME NEW keys, NEW from \in Nat, NEW count \in Nat
  PROVE  \E left : Removes(left, keys, from, count, count)
<1> DEFINE P == {n \in 0 .. count : \E left : Removes(left, keys, from, count, n)}
           next(s, k) == Front([s EXCEPT ![from + count - k + 1] = Last(s)])
<1>1. 0 \in P
  <2> DEFINE f == [k \in 0 .. 0 |-> keys]
  <2>1. f = [k \in 0 .. 0 |-> IF k = 0 THEN keys ELSE next(f[k - 1], k)]
    OBVIOUS
  <2> HIDE DEF f
  <2>2. Removes(f, keys, from, count, 0)
    BY <2>1 DEF Removes
  <2> QED BY <2>2
<1>2. ASSUME NEW n \in 1 .. count, n - 1 \in P
      PROVE  n \in P
  <2>1. PICK g : Removes(g, keys, from, count, n - 1)
    BY <1>2
  <2> HIDE DEF next
  <2>2. /\ DOMAIN g = 0 .. n - 1
        /\ \A k \in 0 .. n - 1 : g[k] = IF k = 0 THEN keys ELSE next(g[k - 1], k)
    <3>1. g = [k \in 0 .. n - 1 |-> IF k = 0 THEN keys ELSE next(g[k - 1], k)]
      BY <2>1 DEF Removes, next
    <3> QED BY <3>1
  <2> DEFINE f == [k \in 0 .. n |-> IF k = n THEN next(g[n - 1], n) ELSE g[k]]
  <2>3. \A k \in 0 .. n : f[k] = IF k = 0 THEN keys ELSE next(f[k - 1], k)
    <3>1. SUFFICES ASSUME NEW k \in 0 .. n PROVE f[k] = IF k = 0 THEN keys ELSE next(f[k - 1], k)
      OBVIOUS
    <3>2. CASE k = n
      <4>1. n - 1 \in 0 .. n /\ n - 1 # n /\ n # 0
        OBVIOUS
      <4>2. f[n - 1] = g[n - 1] /\ f[n] = next(g[n - 1], n)
        BY <4>1
      <4> HIDE DEF f
      <4> QED BY <3>2, <4>1, <4>2
    <3>3. CASE k # n
      <4>1. k \in 0 .. n - 1 /\ (k # 0 => k - 1 \in 0 .. n /\ k - 1 # n)
        BY <3>3
      <4>2. f[k] = g[k] /\ (k # 0 => f[k - 1] = g[k - 1])
        BY <4>1, <3>3
      <4> HIDE DEF f
      <4> QED BY <2>2, <4>1, <4>2
    <3> QED BY <3>2, <3>3
  <2>4. f = [k \in 0 .. n |-> f[k]]
    OBVIOUS
  <2> HIDE DEF f
  <2>5. f = [k \in 0 .. n |-> IF k = 0 THEN keys ELSE next(f[k - 1], k)]
    BY <2>3, <2>4
  <2>6. Removes(f, keys, from, count, n)
    BY <2>5 DEF Removes, next
  <2> QED BY <2>6
<1> HIDE DEF P
<1>3. count \in P
  BY <1>1, <1>2, UpTo
<1> QED BY <1>3 DEF P

(* Removing keys leaves fewer of them, and those before the first removed  *)
(* one where they were.                                                    *)
LEMMA RemovedKeys ==
  ASSUME NEW S, NEW keys \in Seq(S), NEW from \in Nat, NEW count \in Nat, from + count <= Len(keys)
  PROVE  /\ removeKeysSigs(keys, from, count) \in Seq(S)
         /\ Len(removeKeysSigs(keys, from, count)) = Len(keys) - count
         /\ \A k \in 1 .. from : removeKeysSigs(keys, from, count)[k] = keys[k]
<1> DEFINE left == CHOOSE l : Removes(l, keys, from, count, count)
<1>1. removeKeysSigs(keys, from, count) = left[count]
  BY DEF removeKeysSigs, Removes
<1>2. Removes(left, keys, from, count, count)
  BY RemovesExists
<1> HIDE DEF left
<1> DEFINE P == {n \in 0 .. count : /\ left[n] \in Seq(S) /\ Len(left[n]) = Len(keys) - n
                                    /\ \A k \in 1 .. from : left[n][k] = keys[k]}
<1>3. Len(keys) \in Nat
  BY SeqFacts
<1>4. 0 \in P
  <2>1. left[0] = keys
    BY <1>2 DEF Removes
  <2> QED BY <1>3, <2>1
<1>5. ASSUME NEW n \in 1 .. count, n - 1 \in P
      PROVE  n \in P
  <2> DEFINE s == left[n - 1]
             at == from + count - n + 1
             t == [s EXCEPT ![at] = Last(s)]
  <2>1. left[n] = Front(t)
    <3>1. n \in 0 .. count /\ n # 0
      OBVIOUS
    <3> QED BY <1>2, <3>1 DEF Removes
  <2>2. /\ s \in Seq(S) /\ Len(s) = Len(keys) - (n - 1)
        /\ \A k \in 1 .. from : s[k] = keys[k]
    BY <1>5
  <2> HIDE DEF s
  <2>3. at \in 1 .. Len(s) /\ Len(s) \in 1 .. Len(s) /\ at > from /\ Len(s) - 1 \in 0 .. Len(s)
        /\ Len(s) - 1 >= from
    BY <1>3, <2>2
  <2> HIDE DEF at
  <2>4. Last(s) \in S
    BY <2>2, <2>3, SeqFacts DEF Last
  <2>5. /\ t \in Seq(S) /\ Len(t) = Len(s)
        /\ \A k \in 1 .. Len(s) : t[k] = IF k = at THEN Last(s) ELSE s[k]
    BY <2>2, <2>3, <2>4, ExceptFacts
  <2> HIDE DEF t
  <2> DEFINE m == Len(t) - 1
  <2>6. Front(t) = SubSeq(t, 1, m)
    BY DEF Front
  <2>7. m \in 0 .. Len(t) /\ m = Len(keys) - n /\ m >= from /\ m \in Nat
    BY <1>3, <2>2, <2>3, <2>5
  <2> HIDE DEF m
  <2>8. /\ SubSeq(t, 1, m) \in Seq(S) /\ Len(SubSeq(t, 1, m)) = m
        /\ \A k \in 1 .. m : SubSeq(t, 1, m)[k] = t[k]
    BY <2>5, <2>7, PrefixFacts
  <2>9. \A k \in 1 .. from : left[n][k] = keys[k]
    <3>1. SUFFICES ASSUME NEW k \in 1 .. from PROVE left[n][k] = keys[k]
      OBVIOUS
    <3>2. k \in 1 .. m /\ k \in 1 .. Len(s) /\ k # at
      BY <2>3, <2>5, <2>7 DEF at
    <3> QED BY <2>1, <2>2, <2>5, <2>6, <2>8, <3>2
  <2>10. left[n] \in Seq(S) /\ Len(left[n]) = Len(keys) - n
    BY <2>1, <2>6, <2>7, <2>8
  <2>11. n \in 0 .. count
    OBVIOUS
  <2> QED BY <2>9, <2>10, <2>11
<1> HIDE DEF P
<1>6. count \in P
  <2>1. \A k \in 1 .. count : k - 1 \in P => k \in P
    BY ONLY <1>5
  <2>2. \A k \in 0 .. count : k \in P
    BY ONLY count \in Nat, <1>4, <2>1, UpTo
  <2> QED BY ONLY count \in Nat, <2>2
<1>7. /\ left[count] \in Seq(S) /\ Len(left[count]) = Len(keys) - count
      /\ \A k \in 1 .. from : left[count][k] = keys[k]
  <2> USE DEF P
  <2>1. left[count] \in Seq(S) /\ Len(left[count]) = Len(keys) - count
    BY ONLY <1>6
  <2>2. \A k \in 1 .. from : left[count][k] = keys[k]
    BY ONLY <1>6, Zenon
  <2> QED BY ONLY <2>1, <2>2
<1> QED BY ONLY <1>1, <1>7

LEMMA RemoveStep ==
  ASSUME RegInv, NEW caller, NEW id, NEW from \in Nat, NEW count \in Nat,
         removeSigningKeys(caller, id, from, count)
  PROVE  RegInv'
<1> DEFINE op == nodeOperators[id]
           vetted == VettedAfterRemoval(op, from)
           total == op.total - count
           p == [op EXCEPT !.total = total, !.vetted = vetted]
           q == Limited(p)
           moved == {"total", "max"}
           old == signingKeys[id]
           keys == removeKeysSigs(old, from, count)
           seen == approved[id]
<1>1. CASE count = 0
  BY <1>1, Untouched DEF removeSigningKeys, registryVars, RegInv, RegistryTypeOK
<1>2. CASE count # 0
  <2>1. /\ id \in Ids /\ op.active /\ Store(Only(id, q), moved) /\ now' = now /\ nonce' \in Nat
        /\ signingKeys' = [signingKeys EXCEPT ![id] = keys] /\ approved' = approved
        /\ from >= op.deposited /\ from + count <= op.total
    BY <1>2, NonceOK DEF removeSigningKeys
  <2>2. op \in NodeOperator /\ Ordered(op) /\ now \in Nat
    BY <2>1, StoredOperator DEF RegInv, RegistryTypeOK
  <2>3. /\ old \in Seq(SigningKeys) /\ Len(old) = op.total /\ seen \in Seq(SigningKeys)
        /\ approved = [approved EXCEPT ![id] = seen]
        /\ \A k \in op.deposited + 1 .. op.vetted : k <= Len(seen) /\ seen[k] = old[k]
    BY <2>1, StoredKeys
  <2> HIDE DEF op, old, seen
  <2>4. /\ keys \in Seq(SigningKeys) /\ Len(keys) = total
        /\ \A k \in 1 .. from : keys[k] = old[k]
    <3>1. /\ old \in Seq(SigningKeys) /\ from \in Nat /\ count \in Nat
          /\ from + count <= Len(old)
      BY <2>1, <2>3
    <3>2. /\ removeKeysSigs(old, from, count) \in Seq(SigningKeys)
          /\ Len(removeKeysSigs(old, from, count)) = Len(old) - count
          /\ \A k \in 1 .. from : removeKeysSigs(old, from, count)[k] = old[k]
      BY ONLY <3>1, RemovedKeys
    <3> QED BY <2>3, <3>2
  <2> HIDE DEF keys
  <2>5. /\ total \in Nat /\ vetted \in Nat /\ vetted <= from /\ vetted <= op.vetted
        /\ op.deposited <= vetted /\ vetted <= total /\ op.deposited \in Nat
    BY <2>1, <2>2, OperatorFields DEF VettedAfterRemoval, Ordered
  <2> HIDE DEF vetted, total
  <2>6. /\ p \in NodeOperator /\ p.vetted = vetted /\ p.total = total /\ DOMAIN p = DOMAIN op
        /\ \A f \in DOMAIN op \ {"vetted", "total"} : p[f] = op[f]
    BY <2>2, <2>5 DEF NodeOperator
  <2> HIDE DEF p
  <2>7. Ordered(p)
    <3>1. /\ p.exited = op.exited /\ p.stuck = op.stuck /\ p.deposited = op.deposited
          /\ p.refunded = op.refunded /\ p.active = op.active
      BY <2>2, <2>6, OperatorFields
    <3> QED BY <2>1, <2>2, <2>5, <2>6, <3>1 DEF Ordered
  <2>8. /\ q \in NodeOperator /\ Ordered(q) /\ MaximumOK(q)
        /\ \A f \in DOMAIN p \ {"max"} : q[f] = p[f]
    BY <2>2, <2>6, <2>7, LimitedOK
  <2> HIDE DEF q
  <2>9. /\ q.total = total /\ q.vetted = vetted /\ q.deposited = op.deposited
        /\ \A f \in Fields \ moved : q[f] = op[f]
        /\ moved \in SUBSET Fields
    BY <2>2, <2>6, <2>8, OperatorFields DEF Fields
  <2> HIDE DEF moved
  <2>10. \A k \in q.deposited + 1 .. q.vetted : k <= Len(seen) /\ seen[k] = keys[k]
    <3>1. SUFFICES ASSUME NEW k \in op.deposited + 1 .. vetted PROVE k <= Len(seen) /\ seen[k] = keys[k]
      BY <2>9
    <3>2. k \in 1 .. from /\ k \in op.deposited + 1 .. op.vetted
      BY <2>2, <2>5, OperatorFields
    <3> QED BY <2>3, <2>4, <3>2
  <2>11. Len(keys) = q.total /\ approved' = [approved EXCEPT ![id] = seen]
    BY <2>1, <2>3, <2>4, <2>9
  <2> QED BY <2>1, <2>3, <2>4, <2>8, <2>9, <2>10, <2>11, OneMoves DEF op
<1> QED BY <1>1, <1>2

LEMMA InvalidateStep ==
  ASSUME RegInv, NEW range, invalidateReadyToDepositKeysRange(range)
  PROVE  RegInv'
<1> DEFINE D == {i \in range : nodeOperators[i].total # nodeOperators[i].deposited}
           cut(op) == [op EXCEPT !.total = op.deposited, !.vetted = op.deposited]
           new == [i \in D |-> Limited(cut(nodeOperators[i]))]
           moved == {"total", "max"}
           keys == [i \in Ids |-> IF i \in D THEN SubSeq(signingKeys[i], 1, nodeOperators[i].deposited)
                                  ELSE signingKeys[i]]
<1>1. CASE D = {}
  BY <1>1, Untouched DEF invalidateReadyToDepositKeysRange, registryVars, RegInv, RegistryTypeOK
<1>2. CASE D # {}
  <2>1. /\ D \in SUBSET Ids /\ Store(new, moved) /\ now' = now /\ nonce' \in Nat
        /\ signingKeys' = keys /\ approved' = approved
    BY <1>2, NonceOK DEF invalidateReadyToDepositKeysRange
  <2>2. ASSUME NEW i \in D
        PROVE  LET op == nodeOperators[i]
                   q == Limited(cut(op))
               IN  /\ q \in NodeOperator /\ Ordered(q) /\ MaximumOK(q)
                   /\ q.total = op.deposited /\ q.vetted = op.deposited /\ q.deposited = op.deposited
                   /\ op.deposited \in Nat /\ op.deposited <= op.total
                   /\ \A f \in Fields \ moved : q[f] = op[f]
    <3> DEFINE op == nodeOperators[i]
               p == cut(op)
               q == Limited(p)
    <3>1. op \in NodeOperator /\ Ordered(op) /\ now \in Nat
      BY <2>1, StoredOperator DEF RegInv, RegistryTypeOK
    <3> HIDE DEF op
    <3>2. /\ p \in NodeOperator /\ p.vetted = op.deposited /\ p.total = op.deposited
          /\ DOMAIN p = DOMAIN op
          /\ \A f \in DOMAIN op \ {"vetted", "total"} : p[f] = op[f]
      BY <3>1, OperatorFields DEF NodeOperator
    <3> HIDE DEF p
    <3>3. /\ p.exited = op.exited /\ p.stuck = op.stuck /\ p.deposited = op.deposited
          /\ p.refunded = op.refunded /\ p.active = op.active
      BY <3>1, <3>2, OperatorFields
    <3>4. Ordered(p)
      BY <3>1, <3>2, <3>3, OperatorFields DEF Ordered
    <3>5. /\ q \in NodeOperator /\ Ordered(q) /\ MaximumOK(q)
          /\ \A f \in DOMAIN p \ {"max"} : q[f] = p[f]
      BY <3>1, <3>2, <3>4, LimitedOK
    <3> HIDE DEF q
    <3>6. /\ q.total = op.deposited /\ q.vetted = op.deposited /\ q.deposited = op.deposited
          /\ op.deposited \in Nat /\ op.deposited <= op.total
          /\ \A f \in Fields \ moved : q[f] = op[f]
      BY <3>1, <3>2, <3>3, <3>5, OperatorFields DEF Fields, Ordered
    <3> QED BY <3>5, <3>6 DEF q, p, op
  <2> HIDE DEF cut
  <2>3. new \in [D -> NodeOperator] /\ \A i \in D : new[i] = Limited(cut(nodeOperators[i]))
    BY <2>2
  <2> HIDE DEF new
  <2>4. moved \in SUBSET Fields
    BY DEF Fields
  <2> HIDE DEF moved
  <2>5. /\ \A i \in D : Ordered(new[i]) /\ MaximumOK(new[i])
        /\ \A i \in D, f \in Fields \ moved : new[i][f] = nodeOperators[i][f]
        /\ \A i \in D : \A k \in new[i].deposited + 1 .. new[i].vetted :
             k <= Len(approved'[i]) /\ approved'[i][k] = signingKeys'[i][k]
        /\ \A i \in D : new[i].total = nodeOperators[i].deposited
    BY <2>2, <2>3
  <2>6. /\ keys \in Seq(Seq(SigningKeys)) /\ Len(keys) = Len(nodeOperators)
        /\ \A i \in Ids \ D : keys[i] = signingKeys[i]
        /\ \A i \in D : Len(keys[i]) = nodeOperators[i].deposited
    <3>1. \A i \in Ids : signingKeys[i] \in Seq(SigningKeys) /\ Len(signingKeys[i]) = nodeOperators[i].total
      BY StoredKeys
    <3>2. \A i \in D : nodeOperators[i].deposited \in 0 .. Len(signingKeys[i])
      <4>1. \A i \in D : nodeOperators[i].total \in Nat
        BY <2>1, StoredOperator, OperatorFields
      <4> QED BY <2>1, <2>2, <3>1, <4>1
    <3>3. \A i \in D : /\ SubSeq(signingKeys[i], 1, nodeOperators[i].deposited) \in Seq(SigningKeys)
                       /\ Len(SubSeq(signingKeys[i], 1, nodeOperators[i].deposited)) = nodeOperators[i].deposited
      BY <2>1, <3>1, <3>2, PrefixFacts
    <3>4. /\ keys \in [Ids -> Seq(SigningKeys)]
          /\ \A i \in Ids \ D : keys[i] = signingKeys[i]
          /\ \A i \in D : Len(keys[i]) = nodeOperators[i].deposited
      BY <2>1, <3>1, <3>3
    <3> HIDE DEF keys
    <3> QED BY <3>4, IdsFinite, FunctionIsSequence DEF RegInv
  <2>7. approved' \in Seq(Seq(SigningKeys)) /\ Len(approved') = Len(nodeOperators)
    BY <2>1 DEF RegInv, RegistryTypeOK
  <2> HIDE DEF keys, D
  <2>8. /\ signingKeys' \in Seq(Seq(SigningKeys)) /\ Len(signingKeys') = Len(nodeOperators)
        /\ \A i \in Ids \ D : signingKeys'[i] = signingKeys[i] /\ approved'[i] = approved[i]
        /\ \A i \in D : Len(signingKeys'[i]) = new[i].total
    BY <2>1, <2>5, <2>6
  <2>9. RegInv /\ D \in SUBSET Ids /\ Store(new, moved) /\ now' = now /\ nonce' \in Nat
    BY <2>1
  <2> QED BY ONLY <2>3, <2>4, <2>5, <2>7, <2>8, <2>9, StoreMoves
<1> QED BY <1>1, <1>2

LEMMA CredentialsStep ==
  ASSUME RegInv, onWithdrawalCredentialsChanged
  PROVE  RegInv'
<1>1. CASE Ids = {}
  BY <1>1, Untouched DEF onWithdrawalCredentialsChanged, registryVars, RegInv, RegistryTypeOK
<1>2. CASE Ids # {}
  BY <1>2, InvalidateStep DEF onWithdrawalCredentialsChanged
<1> QED BY <1>1, <1>2

-----------------------------------------------------------------------------
(* A new operator *)

LEMMA AppendFacts ==
  ASSUME NEW S, NEW s \in Seq(S), NEW x \in S
  PROVE  /\ Append(s, x) \in Seq(S) /\ Len(Append(s, x)) = Len(s) + 1
         /\ \A i \in 1 .. Len(s) : Append(s, x)[i] = s[i]
         /\ Append(s, x)[Len(s) + 1] = x
BY AppendProperties

LEMMA NewOperatorOK ==
  ASSUME RegInv, NEW name \in Names, NEW rewardAddress \in Names
  PROVE  LET op == NewOperator(name, rewardAddress)
         IN  /\ op \in NodeOperator /\ Ordered(op) /\ MaximumOK(op)
             /\ op.total = 0 /\ op.deposited = 0 /\ op.vetted = 0
             /\ \A f \in Fields : op[f] = 0
BY DEF NewOperator, NodeOperator, Ordered, MaximumOK, isOperatorPenalized, isOperatorPenaltyCleared,
       Fields, RegInv, RegistryTypeOK

LEMMA AddOperatorStep ==
  ASSUME RegInv, NEW caller, NEW name \in Names, NEW rewardAddress \in Names,
         addNodeOperator(caller, name, rewardAddress)
  PROVE  RegInv'
<1> DEFINE op == NewOperator(name, rewardAddress)
           n == Len(nodeOperators)
<1>1. /\ nodeOperators' = Append(nodeOperators, op)
      /\ signingKeys' = Append(signingKeys, <<>>) /\ approved' = Append(approved, <<>>)
      /\ UNCHANGED <<summary, nonce, now>>
  BY DEF addNodeOperator
<1>2. /\ op \in NodeOperator /\ Ordered(op) /\ MaximumOK(op)
      /\ op.total = 0 /\ op.deposited = 0 /\ op.vetted = 0
      /\ \A f \in Fields : op[f] = 0
  BY NewOperatorOK
<1> HIDE DEF op
<1>3. /\ nodeOperators \in Seq(NodeOperator) /\ signingKeys \in Seq(Seq(SigningKeys))
      /\ approved \in Seq(Seq(SigningKeys)) /\ Len(signingKeys) = n /\ Len(approved) = n
      /\ <<>> \in Seq(SigningKeys) /\ Len(<<>>) = 0
  BY DEF RegInv, RegistryTypeOK
<1>4. n \in Nat
  BY <1>3, SeqFacts
<1>5. /\ nodeOperators' \in Seq(NodeOperator) /\ Len(nodeOperators') = n + 1
      /\ \A i \in 1 .. n : nodeOperators'[i] = nodeOperators[i]
      /\ nodeOperators'[n + 1] = op
  BY <1>1, <1>2, <1>3, AppendFacts
<1>6. /\ signingKeys' \in Seq(Seq(SigningKeys)) /\ Len(signingKeys') = n + 1
      /\ \A i \in 1 .. n : signingKeys'[i] = signingKeys[i]
      /\ signingKeys'[n + 1] = <<>>
  BY <1>1, <1>3, AppendFacts
<1>7. /\ approved' \in Seq(Seq(SigningKeys)) /\ Len(approved') = n + 1
      /\ \A i \in 1 .. n : approved'[i] = approved[i]
  BY <1>1, <1>3, AppendFacts
<1>8. Ids = 1 .. n /\ Ids' = 1 .. n + 1
  BY <1>5 DEF Ids
<1> HIDE DEF n
<1>9. \A i \in Ids' : i \in Ids \/ i = n + 1
  BY <1>4, <1>8
<1>10. RegistryTypeOK'
  <2>1. \A i \in Ids' : Len(signingKeys'[i]) = nodeOperators'[i].total
    BY <1>2, <1>3, <1>5, <1>6, <1>8, <1>9 DEF RegInv, RegistryTypeOK
  <2> QED BY <1>1, <1>5, <1>6, <1>7, <2>1 DEF RegInv, RegistryTypeOK
<1>11. OperatorsOK'
  <2>1. SUFFICES ASSUME NEW i \in Ids' PROVE Ordered(nodeOperators'[i]) /\ MaximumOK(nodeOperators[i])'
    BY DEF OperatorsOK, Ordered
  <2>2. now' = now
    BY <1>1
  <2>3. CASE i \in Ids
    BY <1>5, <1>8, <2>2, <2>3
    DEF RegInv, OperatorsOK, MaximumOK, isOperatorPenalized, isOperatorPenaltyCleared
  <2>4. CASE i = n + 1
    BY <1>2, <1>5, <2>2, <2>4 DEF MaximumOK, isOperatorPenalized, isOperatorPenaltyCleared
  <2> QED BY <1>9, <2>3, <2>4
<1>12. SummaryOK'
  <2>1. SUFFICES ASSUME NEW f \in Fields PROVE SumOf(Counter(f)', Ids') = SumOf(Counter(f), Ids)
    BY <1>1 DEF RegInv, SummaryOK
  <2> DEFINE g == [i \in Ids' |-> nodeOperators'[i][f]]
             old == [i \in Ids |-> nodeOperators[i][f]]
  <2>2. Counter(f)' = g /\ Counter(f) = old
    BY DEF Counter
  <2>3. /\ \A i \in Ids' : g[i] \in Int
        /\ \A i \in Ids : g[i] = old[i]
        /\ g[n + 1] = 0 /\ n + 1 \in Ids' /\ Ids' \ {n + 1} = Ids
        /\ \A i \in Ids : old[i] \in Int
    <3>1. \A i \in Ids : i \in Ids' /\ i # n + 1
      BY <1>4, <1>8
    <3>2. n + 1 \in Ids'
      BY <1>4, <1>8
    <3>3. \A i \in Ids : nodeOperators'[i] = nodeOperators[i] /\ nodeOperators[i] \in NodeOperator
      BY <1>5, <1>8, StoredOperator
    <3>4. \A i \in Ids : nodeOperators[i][f] \in Int
      BY <3>3, FieldsOK
    <3>5. nodeOperators'[n + 1][f] = 0
      BY <1>2, <1>5
    <3> QED BY <1>9, <3>1, <3>2, <3>3, <3>4, <3>5
  <2>4. IsFiniteSet(Ids) /\ IsFiniteSet(Ids')
    BY <1>4, <1>8, FS_Interval
  <2> HIDE DEF g, old
  <2>5. SumOf(g, Ids') = g[n + 1] + SumOf(g, Ids' \ {n + 1})
    BY <2>3, <2>4, SumStep
  <2>6. SumOf(g, Ids) = SumOf(old, Ids) /\ SumOf(old, Ids) \in Int
    BY <2>3, <2>4, SumCongruent, SumType
  <2> QED BY <2>2, <2>3, <2>5, <2>6
<1>13. VettedKeysWereSeen'
  <2>1. SUFFICES ASSUME NEW i \in Ids', NEW k \in nodeOperators'[i].deposited + 1 .. nodeOperators'[i].vetted
                 PROVE  k <= Len(approved'[i]) /\ approved'[i][k] = signingKeys'[i][k]
    BY DEF VettedKeysWereSeen
  <2>2. i \in Ids
    BY <1>2, <1>5, <1>9
  <2>3. /\ nodeOperators'[i] = nodeOperators[i] /\ approved'[i] = approved[i]
        /\ signingKeys'[i] = signingKeys[i]
    BY <1>5, <1>6, <1>7, <1>8, <2>2
  <2> QED BY <2>2, <2>3 DEF RegInv, VettedKeysWereSeen
<1> QED BY <1>10, <1>11, <1>12, <1>13 DEF RegInv

-----------------------------------------------------------------------------
(* The allocation of deposits *)

(* The even share of n buckets, rounded up.                                *)
LEMMA CeilShare ==
  ASSUME NEW s \in Nat, s > 0, NEW n \in Nat, n > 0
  PROVE  /\ Math256_ceilDiv(s, n) \in 1 .. s
         /\ n * (Math256_ceilDiv(s, n) - 1) <= s - 1
<1> DEFINE q == (s + n - 1) \div n
<1>1. q \in Int /\ n * q <= s + n - 1 /\ s + n - 1 < n * q + n
  <2> DEFINE a == s + n - 1
  <2>1. a \in Int
    OBVIOUS
  <2> HIDE DEF a
  <2>2. a \div n \in Int
    BY <2>1
  <2>3. n * (a \div n) <= a
    BY <2>1
  <2>4. a < n * (a \div n) + n
    BY <2>1
  <2> QED BY <2>2, <2>3, <2>4 DEF a
<1>2. Math256_ceilDiv(s, n) = q
  BY DEF Math256_ceilDiv
<1> HIDE DEF q
<1>3. n * (q - 1) = n * q - n /\ n * q \in Int
  BY <1>1
<1>4. q >= 1
  <2>1. ASSUME q <= 0 PROVE FALSE
    <3>1. n * q <= 0
      BY <1>1, <2>1
    <3> QED BY <1>1, <1>3, <3>1
  <2> QED BY <1>1, <2>1
<1>5. q <= s
  <2>1. n * (q - 1) >= q - 1
    BY <1>1, <1>4
  <2> QED BY <1>1, <1>3, <2>1
<1> QED BY <1>1, <1>2, <1>3, <1>4, <1>5

(* Of n buckets one receives and the others could still: their need is     *)
(* within what is left.                                                    *)
LEMMA OthersNeed ==
  ASSUME NEW s \in Nat, NEW n \in Nat, n > 0, NEW q \in Nat, NEW a \in Nat,
         a > 0, a <= q, n * (q - 1) <= s - 1
  PROVE  (a - 1) * (n - 1) <= s - a
<1>1. n * (a - 1) <= n * (q - 1) /\ n * (a - 1) \in Int /\ n * (q - 1) \in Int
  <2>1. PICK d \in Nat : q = a + d
    <3>1. q - a \in Nat /\ q = a + (q - a)
      OBVIOUS
    <3> QED BY <3>1
  <2>2. n * ((a - 1) + d) = n * (a - 1) + n * d /\ n * d \in Nat /\ n * (a - 1) \in Int
    OBVIOUS
  <2>3. q - 1 = (a - 1) + d
    BY <2>1
  <2> QED BY <2>2, <2>3
<1>2. (a - 1) * (n - 1) = n * (a - 1) - (a - 1) /\ (a - 1) * (n - 1) \in Int
  OBVIOUS
<1> QED BY <1>1, <1>2

LEMMA MinFacts ==
  ASSUME NEW C \in SUBSET Nat, C # {}
  PROVE  Min(C) \in C /\ \A x \in C : Min(C) <= x
BY SmallestNumber DEF Min

Numbers(D) == D \in SUBSET Nat

(* A round of the allocation gives something to one of the least filled    *)
(* buckets, unless all are full or nothing is left.  It stays below the    *)
(* fuller buckets with room, and what is left is enough to bring the other *)
(* least filled buckets to one less.                                       *)
LEMMA RoundFacts ==
  ASSUME NEW D, Numbers(D), IsFiniteSet(D), NEW b, b \in [D -> Nat], NEW c, c \in [D -> Nat],
         \A i \in D : b[i] <= c[i], NEW s \in Nat
  PROVE  LET round == allocateToBestCandidate(b, c, s)
             a == round.allocated
             C == BestCandidates(b, c)
         IN  \/ /\ a = 0 /\ round.buckets = b
                /\ s = 0 \/ \A i \in D : b[i] = c[i]
             \/ /\ a \in 1 .. s
                /\ \E best \in C :
                     /\ round.buckets = [b EXCEPT ![best] = b[best] + a]
                     /\ b[best] + a <= c[best]
                     /\ C \in SUBSET D /\ \A j \in C : b[j] = b[best]
                     /\ \A j \in D \ C : b[j] = c[j] \/ b[best] + a <= b[j]
                     /\ (a - 1) * (Cardinality(C) - 1) <= s - a
<1> DEFINE round == allocateToBestCandidate(b, c, s)
           C == BestCandidates(b, c)
           best == Min(C)
           open == WithRoom(b, c)
<1>1. open = {i \in D : b[i] < c[i]} /\ open \in SUBSET D
  BY DEF WithRoom
<1>2. C = {i \in open : \A j \in open : b[i] <= b[j]} /\ C \in SUBSET open
  BY DEF BestCandidates
<1>3. open # {} => C # {}
  <2>1. SUFFICES ASSUME open # {} PROVE C # {}
    OBVIOUS
  <2> DEFINE levels == {b[i] : i \in open}
  <2>2. levels \in SUBSET Nat /\ levels # {}
    BY <1>1, <2>1
  <2> HIDE DEF levels
  <2>3. PICK m \in levels : \A k \in levels : m <= k
    BY <2>2, SmallestNumber
  <2>4. PICK i \in open : b[i] = m /\ \A j \in open : b[i] <= b[j]
    BY <2>3 DEF levels
  <2> QED BY <1>2, <2>4
<1>4. CASE s = 0 \/ open = {}
  <2>1. open = {} => C = {}
    BY <1>2
  <2>2. round = [allocated |-> 0, buckets |-> b]
    BY <1>4, <2>1 DEF allocateToBestCandidate
  <2>3. open = {} => \A i \in D : b[i] = c[i]
    BY <1>1
  <2> QED BY <1>4, <2>2, <2>3
<1>5. CASE s # 0 /\ open # {}
  <2>1. C # {} /\ C \in SUBSET Nat /\ C \in SUBSET D /\ IsFiniteSet(C)
    BY <1>1, <1>2, <1>3, <1>5, FS_Subset DEF Numbers
  <2> DEFINE n == Cardinality(C)
             fuller == {b[j] : j \in {k \in open : b[k] > b[best]}}
             ends == {c[best]} \cup fuller
             limit == Min(ends)
             q == Math256_ceilDiv(s, n)
             a == RoundShare(b, c, s, best, n)
  <2>2. n \in Nat /\ n > 0
    BY <2>1, FS_CardinalityType, FS_EmptySet
  <2>3. best \in C
    <3> HIDE DEF C
    <3> QED BY <2>1, MinFacts
  <2>4. round = [allocated |-> a, buckets |-> IF a = 0 THEN b ELSE [b EXCEPT ![best] = b[best] + a]]
    BY <1>5, <2>1 DEF allocateToBestCandidate
  <2>5. a = Math256_min(q, limit - b[best])
    BY DEF RoundShare
  <2> HIDE DEF round, a, n
  <2>6. best \in D /\ best \in open /\ b[best] \in Nat /\ c[best] \in Nat /\ b[best] < c[best]
    <3> HIDE DEF best
    <3> QED BY <1>1, <1>2, <2>3
  <2>7. \A j \in C : b[j] = b[best]
    <3> HIDE DEF best
    <3>1. SUFFICES ASSUME NEW j \in C PROVE b[j] = b[best]
      OBVIOUS
    <3>2. b[j] <= b[best] /\ b[best] <= b[j] /\ b[j] \in Nat
      BY <1>1, <1>2, <2>3, <2>6
    <3> QED BY <2>6, <3>2
  <2>8. \A j \in open \ C : b[j] \in fuller
    <3> HIDE DEF best
    <3>1. SUFFICES ASSUME NEW j \in open \ C PROVE b[j] > b[best]
      BY DEF best
    <3>2. b[best] <= b[j] /\ b[j] \in Nat
      BY <1>1, <1>2, <2>3
    <3>3. PICK k \in open : ~(b[j] <= b[k])
      BY <1>2
    <3>4. b[best] <= b[k] /\ b[k] \in Nat
      BY <1>1, <1>2, <2>3
    <3> QED BY <2>6, <3>2, <3>3, <3>4
  <2> HIDE DEF best, C, open
  <2>9. ends \in SUBSET Nat /\ ends # {} /\ \A x \in ends : x > b[best]
    BY <1>1, <2>6
  <2>10. limit \in Nat /\ limit > b[best] /\ limit <= c[best] /\ \A x \in fuller : limit <= x
    <3>1. c[best] \in ends /\ \A x \in fuller : x \in ends
      OBVIOUS
    <3> HIDE DEF ends, fuller
    <3> QED BY <2>9, <3>1, MinFacts
  <2> HIDE DEF limit, fuller
  <2>11. q \in 1 .. s /\ n * (q - 1) <= s - 1
    BY <1>5, <2>2, CeilShare
  <2> HIDE DEF q
  <2>12. a \in 1 .. s /\ a <= q /\ b[best] + a <= limit
    BY <2>5, <2>6, <2>10, <2>11 DEF Math256_min
  <2>13. (a - 1) * (n - 1) <= s - a
    <3>1. a \in Nat /\ a > 0 /\ a <= q /\ q \in Nat
      BY <2>11, <2>12
    <3> QED BY <2>2, <2>11, <3>1, OthersNeed
  <2>14. \A j \in D \ C : b[j] = c[j] \/ b[best] + a <= b[j]
    <3>1. SUFFICES ASSUME NEW j \in D \ C, b[j] # c[j] PROVE b[best] + a <= b[j]
      OBVIOUS
    <3>2. j \in open \ C /\ b[j] \in Nat
      BY <1>1, <3>1
    <3>3. limit <= b[j]
      BY <2>8, <2>10, <3>2
    <3> QED BY <2>6, <2>10, <2>12, <3>2, <3>3
  <2>15. round.allocated = a /\ round.buckets = [b EXCEPT ![best] = b[best] + a] /\ b[best] + a <= c[best]
    BY <2>4, <2>6, <2>10, <2>12
  <2> QED BY <2>1, <2>3, <2>7, <2>12, <2>13, <2>14, <2>15 DEF round, n, C
<1> QED BY <1>4, <1>5

(* What the buckets lack of level L, the capacities permitting.            *)
Gap(b, c, L) == [j \in DOMAIN c |-> Math256_max(0, Math256_min(c[j], L) - b[j])]

LEMMA GapType ==
  ASSUME NEW D, NEW b, b \in [D -> Nat], NEW c, c \in [D -> Nat], NEW L \in Int
  PROVE  /\ \A j \in D : Gap(b, c, L)[j] \in Nat /\ Gap(b, c, L)[j] \in Int
         /\ \A j \in D : Gap(b, c, L)[j] = Math256_max(0, Math256_min(c[j], L) - b[j])
BY DEF Gap, Math256_max, Math256_min

(* The other buckets lack no more of a level below the one that received   *)
(* than what is left.                                                      *)
LEMMA LowLevelNeed ==
  ASSUME NEW D, IsFiniteSet(D), NEW b, b \in [D -> Nat], NEW c, c \in [D -> Nat],
         \A i \in D : b[i] <= c[i],
         NEW s \in Nat, NEW a \in 1 .. s, NEW C \in SUBSET D, NEW best \in C,
         NEW after, after \in [D -> Nat], after[best] = b[best] + a,
         \A i \in D \ {best} : after[i] = b[i],
         \A j \in C : b[j] = b[best],
         \A j \in D \ C : b[j] = c[j] \/ b[best] + a <= b[j],
         (a - 1) * (Cardinality(C) - 1) <= s - a,
         NEW L \in Int, L <= b[best] + a - 1
  PROVE  SumOf(Gap(after, c, L), D) <= s - a
<1> DEFINE g == Gap(after, c, L)
           T == C \ {best}
<1>1. /\ \A j \in D : g[j] \in Nat /\ g[j] \in Int
      /\ \A j \in D : g[j] = Math256_max(0, Math256_min(c[j], L) - after[j])
  <2>1. after \in [D -> Nat] /\ c \in [D -> Nat] /\ L \in Int
    OBVIOUS
  <2> QED BY ONLY <2>1 DEF g, Gap, Math256_max, Math256_min
<1>2. /\ best \in D /\ b[best] \in Nat /\ a \in Nat /\ a >= 1
      /\ after[best] = b[best] + a /\ \A j \in D \ {best} : after[j] = b[j]
  OBVIOUS
<1> HIDE DEF g
<1>3. \A j \in D \ T : g[j] = 0
  <2>1. SUFFICES ASSUME NEW j \in D \ T PROVE g[j] = 0
    OBVIOUS
  <2>2. b[j] \in Nat /\ c[j] \in Nat /\ b[j] <= c[j] /\ after[j] \in Nat
    OBVIOUS
  <2>3. CASE j = best
    BY <1>1, <1>2, <2>2, <2>3 DEF Math256_max, Math256_min
  <2>4. CASE j # best
    <3>1. after[j] = b[j] /\ (b[j] = c[j] \/ b[best] + a <= b[j])
      BY <1>2, <2>4
    <3> QED BY <1>1, <1>2, <2>2, <3>1 DEF Math256_max, Math256_min
  <2> QED BY <2>3, <2>4
<1>4. \A j \in T : g[j] \in Int /\ g[j] <= a - 1
  <2>1. SUFFICES ASSUME NEW j \in T PROVE g[j] \in Int /\ g[j] <= a - 1
    OBVIOUS
  <2>2. j \in D /\ after[j] = b[best] /\ c[j] \in Nat
    BY <1>2
  <2> QED BY <1>1, <1>2, <2>2 DEF Math256_max, Math256_min
<1>5. T \in SUBSET D /\ IsFiniteSet(T) /\ IsFiniteSet(C)
  BY FS_Subset
<1>6. Cardinality(T) = Cardinality(C) - 1
  BY <1>5, FS_RemoveElement
<1> HIDE DEF T
<1>7. SumOf(g, D) = SumOf(g, T)
  <2>1. \A j \in D : g[j] \in Int
    BY <1>1
  <2> QED BY <1>3, <1>5, <2>1, SumSupport
<1>8. SumOf(g, T) <= (a - 1) * Cardinality(T)
  <2>1. a - 1 \in Int
    BY <1>2
  <2> QED BY <1>4, <1>5, <2>1, SumBound
<1>9. SumOf(g, T) \in Int /\ Cardinality(T) \in Int
  <2>1. \A j \in T : g[j] \in Int
    BY <1>4
  <2>2. SumOf(g, T) \in Int
    BY <1>5, <2>1, SumType
  <2>3. Cardinality(T) \in Int
    BY <1>5, FS_CardinalityType
  <2> QED BY <2>2, <2>3
<1>10. (a - 1) * Cardinality(T) <= s - a /\ (a - 1) * Cardinality(T) \in Int
  BY <1>2, <1>6, <1>9
<1> QED BY <1>2, <1>7, <1>8, <1>9, <1>10 DEF g

(* Of a level above, all lack as much less as was given.                   *)
LEMMA HighLevelNeed ==
  ASSUME NEW D, IsFiniteSet(D), NEW b, b \in [D -> Nat], NEW c, c \in [D -> Nat],
         NEW a \in Nat, NEW best \in D, b[best] + a <= c[best],
         NEW after, after \in [D -> Nat], after[best] = b[best] + a,
         \A i \in D \ {best} : after[i] = b[i],
         NEW L \in Int, L >= b[best] + a
  PROVE  SumOf(Gap(after, c, L), D) = SumOf(Gap(b, c, L), D) - a
<1> DEFINE g == Gap(after, c, L)
           f == Gap(b, c, L)
<1>1. /\ \A j \in D : g[j] \in Int /\ g[j] = Math256_max(0, Math256_min(c[j], L) - after[j])
      /\ \A j \in D : f[j] \in Int /\ f[j] = Math256_max(0, Math256_min(c[j], L) - b[j])
  <2>1. after \in [D -> Nat] /\ b \in [D -> Nat] /\ c \in [D -> Nat] /\ L \in Int
    OBVIOUS
  <2> QED BY ONLY <2>1 DEF g, f, Gap, Math256_max, Math256_min
<1> HIDE DEF f, g
<1>2. after[best] = b[best] + a /\ \A j \in D \ {best} : after[j] = b[j]
  OBVIOUS
<1>3. g[best] - f[best] = - a
  <2>1. /\ b[best] \in Nat /\ c[best] \in Nat /\ after[best] = b[best] + a
        /\ a \in Nat /\ L \in Int /\ b[best] + a <= c[best] /\ L >= b[best] + a
        /\ g[best] = Math256_max(0, Math256_min(c[best], L) - after[best])
        /\ f[best] = Math256_max(0, Math256_min(c[best], L) - b[best])
    BY <1>1
  <2> QED BY ONLY <2>1 DEF Math256_max, Math256_min
<1>4. \A j \in D \ {best} : g[j] = f[j]
  BY <1>1, <1>2
<1>5. SumOf(g, D) = SumOf(f, D) + (g[best] - f[best])
  <2>1. (\A j \in D : f[j] \in Int) /\ g[best] \in Int
    BY <1>1
  <2>2. IsFiniteSet(D) /\ best \in D
    OBVIOUS
  <2> QED BY ONLY <1>4, <2>1, <2>2, SumUpdate
<1>6. SumOf(f, D) \in Int
  BY <1>1, SumType
<1> QED BY <1>3, <1>5, <1>6 DEF f, g

(* The state of the loop: what is allocated was added to the buckets, none *)
(* is above its capacity, and what is left is enough for the others to     *)
(* come within one of every bucket that received.                          *)
LoopOK(b, c, size, state) ==
  LET D == DOMAIN c
      after == state.buckets
  IN  /\ state.allocated \in 0 .. size /\ after \in [D -> Nat]
      /\ \A i \in D : b[i] <= after[i] /\ after[i] <= c[i]
      /\ SumOf(after, D) = SumOf(b, D) + state.allocated
      /\ \A i \in D : after[i] > b[i] =>
           SumOf(Gap(after, c, after[i] - 1), D) <= size - state.allocated

LoopStep(c, size, state) ==
  LET round == allocateToBestCandidate(state.buckets, c, size - state.allocated)
  IN  [allocated |-> state.allocated + round.allocated, buckets |-> round.buckets]

LEMMA LoopKeeps ==
  ASSUME NEW D, Numbers(D), IsFiniteSet(D), NEW b, b \in [D -> Nat], NEW c, c \in [D -> Nat],
         NEW size \in Nat, NEW state, LoopOK(b, c, size, state)
  PROVE  LET after == LoopStep(c, size, state)
         IN  /\ LoopOK(b, c, size, after)
             /\ \/ after.allocated > state.allocated
                \/ after.allocated = size \/ \A i \in D : after.buckets[i] = c[i]
             /\ (\A i \in D : state.buckets[i] = c[i]) => \A i \in D : after.buckets[i] = c[i]
<1> DEFINE old == state.buckets
           done == state.allocated
           s == size - done
           round == allocateToBestCandidate(old, c, s)
           a == round.allocated
           C == BestCandidates(old, c)
           new == round.buckets
           next == LoopStep(c, size, state)
<1>1. /\ done \in 0 .. size /\ old \in [D -> Nat]
      /\ \A i \in D : b[i] <= old[i] /\ old[i] <= c[i]
      /\ SumOf(old, D) = SumOf(b, D) + done
      /\ \A i \in D : old[i] > b[i] => SumOf(Gap(old, c, old[i] - 1), D) <= s
  BY DEF LoopOK
<1>2. s \in Nat /\ done \in Nat
  BY <1>1
<1>3. next.allocated = done + a /\ next.buckets = new
  BY DEF LoopStep
<1>4. \/ /\ a = 0 /\ new = old
         /\ s = 0 \/ \A i \in D : old[i] = c[i]
      \/ /\ a \in 1 .. s
         /\ \E best \in C :
              /\ new = [old EXCEPT ![best] = old[best] + a]
              /\ old[best] + a <= c[best]
              /\ C \in SUBSET D /\ \A j \in C : old[j] = old[best]
              /\ \A j \in D \ C : old[j] = c[j] \/ old[best] + a <= old[j]
              /\ (a - 1) * (Cardinality(C) - 1) <= s - a
  <2> DEFINE H(o) == \A i \in D : o[i] <= c[i]
  <2>1. H(old)
    BY <1>1
  <2> HIDE DEF old, s
  <2> QED BY <1>1, <1>2, <2>1, RoundFacts
<1> HIDE DEF next, round, C
<1>5. CASE a = 0 /\ new = old /\ (s = 0 \/ \A i \in D : old[i] = c[i])
  <2>1. next.allocated = done /\ next.buckets = old
    BY <1>2, <1>3, <1>5
  <2>0. LoopOK(b, c, size, next)
    <3> HIDE DEF done, old
    <3> QED BY <1>1, <2>1 DEF LoopOK
  <2>2. next.allocated = size \/ \A i \in D : next.buckets[i] = c[i]
    BY <1>2, <1>3, <1>5
  <2> QED BY <2>0, <2>1, <2>2 DEF next
<1>6. CASE /\ a \in 1 .. s
           /\ \E best \in C :
                /\ new = [old EXCEPT ![best] = old[best] + a]
                /\ old[best] + a <= c[best]
                /\ C \in SUBSET D /\ \A j \in C : old[j] = old[best]
                /\ \A j \in D \ C : old[j] = c[j] \/ old[best] + a <= old[j]
                /\ (a - 1) * (Cardinality(C) - 1) <= s - a
  <2>1. PICK best \in C :
                /\ new = [old EXCEPT ![best] = old[best] + a]
                /\ old[best] + a <= c[best]
                /\ C \in SUBSET D /\ \A j \in C : old[j] = old[best]
                /\ \A j \in D \ C : old[j] = c[j] \/ old[best] + a <= old[j]
                /\ (a - 1) * (Cardinality(C) - 1) <= s - a
    BY <1>6
  <2>2. best \in D /\ old[best] \in Nat /\ a \in Nat /\ a >= 1 /\ c[best] \in Nat
    BY <1>1, <1>6, <2>1
  <2>3. /\ new \in [D -> Nat] /\ new[best] = old[best] + a
        /\ \A i \in D \ {best} : new[i] = old[i]
    BY <1>1, <2>1, <2>2
  <2> HIDE DEF old, new, a
  <2>4. \A i \in D : b[i] <= new[i] /\ new[i] <= c[i]
    <3>1. SUFFICES ASSUME NEW i \in D PROVE b[i] <= new[i] /\ new[i] <= c[i]
      OBVIOUS
    <3>2. b[i] \in Nat /\ old[i] \in Nat /\ b[i] <= old[i] /\ old[i] <= c[i]
      BY <1>1
    <3> QED BY <2>1, <2>2, <2>3, <3>2
  <2>5. SumOf(new, D) = SumOf(b, D) + (done + a)
    <3>1. (\A i \in D : old[i] \in Int) /\ new[best] \in Int /\ (\A i \in D : b[i] \in Int)
      BY <1>1, <2>2, <2>3
    <3>2. SumOf(new, D) = SumOf(old, D) + (new[best] - old[best])
      <4>1. IsFiniteSet(D) /\ best \in D /\ \A i \in D \ {best} : new[i] = old[i]
        BY <2>2, <2>3
      <4> QED BY ONLY <3>1, <4>1, SumUpdate
    <3>3. SumOf(b, D) \in Int
      BY <3>1, SumType
    <3> QED BY <1>1, <1>2, <2>2, <2>3, <3>2, <3>3
  <2>6. done + a \in 0 .. size
    BY <1>1, <1>2, <1>6, <2>2
  <2>7. \A L \in Int : L <= old[best] + a - 1 => SumOf(Gap(new, c, L), D) <= s - a
    <3>1. SUFFICES ASSUME NEW L \in Int, L <= old[best] + a - 1
                   PROVE  SumOf(Gap(new, c, L), D) <= s - a
      OBVIOUS
    <3>2. (\A i \in D : old[i] <= c[i]) /\ a \in 1 .. s
      BY <1>1, <1>6
    <3> HIDE DEF s
    <3> QED BY <1>1, <1>2, <2>1, <2>3, <3>1, <3>2, LowLevelNeed
  <2>8. ASSUME NEW i \in D, new[i] > b[i]
        PROVE  SumOf(Gap(new, c, new[i] - 1), D) <= s - a
    <3> DEFINE L == new[i] - 1
    <3>1. L \in Int
      BY <2>3
    <3>2. CASE L <= old[best] + a - 1
      BY <2>7, <3>1, <3>2
    <3>3. CASE L > old[best] + a - 1
      <4>1. i # best
        BY <2>2, <2>3, <3>3
      <4>2. new[i] = old[i]
        BY <2>3, <4>1
      <4>3. SumOf(Gap(old, c, L), D) <= s
        BY <1>1, <2>8, <4>2
      <4>4. L >= old[best] + a
        BY <2>2, <3>1, <3>3
      <4> HIDE DEF L
      <4>5. SumOf(Gap(new, c, L), D) = SumOf(Gap(old, c, L), D) - a
        <5>1. /\ IsFiniteSet(D) /\ old \in [D -> Nat] /\ c \in [D -> Nat]
              /\ a \in Nat /\ best \in D /\ old[best] + a <= c[best]
              /\ new \in [D -> Nat] /\ new[best] = old[best] + a
              /\ \A j \in D \ {best} : new[j] = old[j]
              /\ L \in Int /\ L >= old[best] + a
          BY <1>1, <2>1, <2>2, <2>3, <3>1, <4>4
        <5> QED BY ONLY <5>1, HighLevelNeed, SMTT(30)
      <4>6. SumOf(Gap(old, c, L), D) \in Int
        <5>1. \A j \in D : Gap(old, c, L)[j] \in Int
          BY <1>1, <3>1, GapType
        <5> QED BY <5>1, SumType
      <4>7. SumOf(Gap(new, c, L), D) <= s - a
        BY <1>2, <2>2, <4>3, <4>5, <4>6
      <4> QED BY <4>7 DEF L
    <3> QED BY <2>2, <3>1, <3>2, <3>3
  <2>9. LoopOK(b, c, size, next)
    <3>1. s - a = size - (done + a)
      BY <1>2, <2>2
    <3>2. \A i \in D : new[i] > b[i] => SumOf(Gap(new, c, new[i] - 1), D) <= size - (done + a)
      BY <2>8, <3>1
    <3> QED BY <1>3, <2>3, <2>4, <2>5, <2>6, <3>2 DEF LoopOK, new, a
  <2>10. next.allocated > done
    BY <1>2, <1>3, <2>2 DEF a
  <2>11. ~ \A i \in D : old[i] = c[i]
    BY <2>1, <2>2
  <2> QED BY <2>9, <2>10, <2>11 DEF next, old
<1> QED BY <1>4, <1>5, <1>6

(* The function allocate is defined by, up to `n` rounds.                  *)
Allocates(state, b, c, size, n) ==
  state = [k \in 0 .. n |->
             IF k = 0 THEN [allocated |-> 0, buckets |-> b]
             ELSE LET round == allocateToBestCandidate(state[k - 1].buckets, c,
                                                       size - state[k - 1].allocated)
                  IN  [allocated |-> state[k - 1].allocated + round.allocated, buckets |-> round.buckets]]

LEMMA AllocatesExists ==
  ASSUME NEW b, NEW c, NEW size \in Nat
  PROVE  \E state : Allocates(state, b, c, size, size)
<1> DEFINE first == [allocated |-> 0, buckets |-> b]
           P == {n \in 0 .. size : \E state : Allocates(state, b, c, size, n)}
           next(s) == [allocated |-> s.allocated
                                     + allocateToBestCandidate(s.buckets, c, size - s.allocated).allocated,
                       buckets |-> allocateToBestCandidate(s.buckets, c, size - s.allocated).buckets]
<1>1. 0 \in P
  <2> DEFINE f == [k \in 0 .. 0 |-> first]
  <2>1. f = [k \in 0 .. 0 |-> IF k = 0 THEN first ELSE next(f[k - 1])]
    <3> HIDE DEF first, next
    <3> QED OBVIOUS
  <2> HIDE DEF f
  <2>2. Allocates(f, b, c, size, 0)
    BY <2>1 DEF Allocates
  <2> QED BY <2>2
<1>2. ASSUME NEW n \in 1 .. size, n - 1 \in P
      PROVE  n \in P
  <2>1. PICK g : Allocates(g, b, c, size, n - 1)
    BY <1>2
  <2> HIDE DEF next, first
  <2>2. /\ DOMAIN g = 0 .. n - 1
        /\ \A k \in 0 .. n - 1 : g[k] = IF k = 0 THEN first ELSE next(g[k - 1])
    <3>1. g = [k \in 0 .. n - 1 |-> IF k = 0 THEN first ELSE next(g[k - 1])]
      BY <2>1 DEF Allocates, next, first
    <3> QED BY <3>1
  <2> DEFINE f == [k \in 0 .. n |-> IF k = n THEN next(g[n - 1]) ELSE g[k]]
  <2>3. \A k \in 0 .. n : f[k] = IF k = 0 THEN first ELSE next(f[k - 1])
    <3>1. SUFFICES ASSUME NEW k \in 0 .. n PROVE f[k] = IF k = 0 THEN first ELSE next(f[k - 1])
      OBVIOUS
    <3>2. CASE k = n
      <4>1. n - 1 \in 0 .. n /\ n - 1 # n /\ n # 0
        OBVIOUS
      <4>2. f[n - 1] = g[n - 1] /\ f[n] = next(g[n - 1])
        BY <4>1
      <4> HIDE DEF f
      <4> QED BY <3>2, <4>1, <4>2
    <3>3. CASE k # n
      <4>1. k \in 0 .. n - 1 /\ (k # 0 => k - 1 \in 0 .. n /\ k - 1 # n)
        BY <3>3
      <4>2. f[k] = g[k] /\ (k # 0 => f[k - 1] = g[k - 1])
        BY <4>1, <3>3
      <4> HIDE DEF f
      <4> QED BY <2>2, <4>1, <4>2
    <3> QED BY <3>2, <3>3
  <2>4. f = [k \in 0 .. n |-> f[k]]
    OBVIOUS
  <2> HIDE DEF f
  <2>5. f = [k \in 0 .. n |-> IF k = 0 THEN first ELSE next(f[k - 1])]
    BY <2>3, <2>4
  <2>6. Allocates(f, b, c, size, n)
    BY <2>5 DEF Allocates, next, first
  <2> QED BY <2>6
<1> HIDE DEF P
<1>3. size \in P
  BY <1>1, <1>2, UpTo
<1> QED BY <1>3 DEF P

(* The rounds are enough: in the end all is allocated, or all are full.    *)
LEMMA AllocateFacts ==
  ASSUME NEW D, Numbers(D), IsFiniteSet(D), NEW b, b \in [D -> Nat], NEW c, c \in [D -> Nat],
         \A i \in D : b[i] <= c[i], NEW size \in Nat
  PROVE  LET r == allocate(b, c, size)
         IN  /\ LoopOK(b, c, size, r)
             /\ r.allocated = size \/ \A i \in D : r.buckets[i] = c[i]
<1> DEFINE state == CHOOSE s : Allocates(s, b, c, size, size)
<1>1. allocate(b, c, size) = state[size]
  BY DEF allocate, Allocates
<1>2. Allocates(state, b, c, size, size)
  BY AllocatesExists
<1> HIDE DEF state
<1> DEFINE full(s) == \A i \in D : s.buckets[i] = c[i]
           P == {k \in 0 .. size : /\ LoopOK(b, c, size, state[k])
                                   /\ state[k].allocated >= k \/ state[k].allocated = size \/ full(state[k])}
<1>3. 0 \in P
  <2> DEFINE first == [allocated |-> 0, buckets |-> b]
  <2>1. state[0] = first
    BY <1>2 DEF Allocates
  <2>2. SumOf(b, D) \in Int
    <3>1. \A i \in D : b[i] \in Int
      OBVIOUS
    <3> QED BY <3>1, SumType
  <2>3. first.allocated = 0 /\ first.buckets = b
    OBVIOUS
  <2> HIDE DEF first
  <2>4. \A i \in D : b[i] <= b[i] /\ ~(b[i] > b[i])
    OBVIOUS
  <2>5. SumOf(b, D) = SumOf(b, D) + 0
    BY <2>2
  <2>6. LoopOK(b, c, size, first)
    BY <2>3, <2>4, <2>5 DEF LoopOK
  <2> QED BY <2>1, <2>3, <2>6
<1>4. ASSUME NEW k \in 1 .. size, k - 1 \in P
      PROVE  k \in P
  <2> DEFINE old == state[k - 1]
             new == state[k]
  <2>1. new = LoopStep(c, size, old)
    <3>1. k \in 0 .. size /\ k # 0
      OBVIOUS
    <3> QED BY <1>2, <3>1 DEF Allocates, LoopStep
  <2>2. /\ LoopOK(b, c, size, old)
        /\ old.allocated >= k - 1 \/ old.allocated = size \/ full(old)
    BY <1>4
  <2> HIDE DEF old, new
  <2>3. /\ LoopOK(b, c, size, new)
        /\ new.allocated > old.allocated \/ new.allocated = size \/ full(new)
        /\ full(old) => full(new)
    BY <2>1, <2>2, LoopKeeps
  <2>4. new.allocated \in 0 .. size /\ old.allocated \in 0 .. size
    BY <2>2, <2>3 DEF LoopOK
  <2> HIDE DEF full
  <2>5. new.allocated >= k \/ new.allocated = size \/ full(new)
    BY <2>2, <2>3, <2>4
  <2> QED BY <2>3, <2>5 DEF new
<1> HIDE DEF P
<1>5. size \in P
  BY <1>3, <1>4, UpTo
<1>6. /\ LoopOK(b, c, size, state[size])
      /\ state[size].allocated >= size \/ state[size].allocated = size \/ full(state[size])
  BY <1>5 DEF P
<1>7. state[size].allocated \in 0 .. size
  BY <1>6 DEF LoopOK
<1> QED BY <1>1, <1>6, <1>7

(* No more is asked than there is room for: all is allocated, and whoever  *)
(* received is within one of whoever has room.                             *)
LEMMA AllocationServes ==
  ASSUME NEW D, Numbers(D), IsFiniteSet(D), NEW b, b \in [D -> Nat], NEW c, c \in [D -> Nat],
         \A i \in D : b[i] <= c[i], NEW size \in Nat,
         NEW room, \A i \in D : room[i] = c[i] - b[i], size <= SumOf(room, D)
  PROVE  LET r == allocate(b, c, size)
         IN  /\ r.allocated = size /\ r.buckets \in [D -> Nat]
             /\ \A i \in D : b[i] <= r.buckets[i] /\ r.buckets[i] <= c[i]
             /\ \A i, j \in D : r.buckets[i] > b[i] /\ r.buckets[j] < c[j]
                                => r.buckets[i] <= r.buckets[j] + 1
<1> DEFINE r == allocate(b, c, size)
           after == r.buckets
<1>1. LoopOK(b, c, size, r) /\ (r.allocated = size \/ \A i \in D : after[i] = c[i])
  BY AllocateFacts
<1> HIDE DEF r
<1>2. /\ r.allocated \in 0 .. size /\ after \in [D -> Nat]
      /\ \A i \in D : b[i] <= after[i] /\ after[i] <= c[i]
      /\ SumOf(after, D) = SumOf(b, D) + r.allocated
      /\ \A i \in D : after[i] > b[i] => SumOf(Gap(after, c, after[i] - 1), D) <= size - r.allocated
  BY <1>1 DEF LoopOK
<1> HIDE DEF after
<1>3. r.allocated = size
  <2>1. SUFFICES ASSUME \A i \in D : after[i] = c[i] PROVE r.allocated = size
    BY <1>1
  <2>2. SumOf(after, D) = SumOf(c, D)
    BY <2>1, SumCongruent
  <2> DEFINE d == [i \in D |-> c[i] - b[i]]
  <2>3. SumOf(c, D) = SumOf(b, D) + SumOf(d, D)
    <3>1. IsFiniteSet(D) /\ D \in SUBSET D /\ \A i \in D : b[i] \in Int /\ c[i] \in Int
      OBVIOUS
    <3>2. \A i \in D \ D : c[i] = b[i]
      OBVIOUS
    <3> QED BY ONLY <3>1, <3>2, SumShift
  <2>4. SumOf(d, D) = SumOf(room, D)
    <3>1. \A i \in D : d[i] = room[i]
      OBVIOUS
    <3> HIDE DEF d
    <3> QED BY <3>1, SumCongruent
  <2>5. SumOf(b, D) \in Int /\ SumOf(d, D) \in Int
    <3>1. \A i \in D : b[i] \in Int /\ d[i] \in Int
      OBVIOUS
    <3> HIDE DEF d
    <3> QED BY <3>1, SumType
  <2> HIDE DEF d
  <2> QED BY <1>2, <2>2, <2>3, <2>4, <2>5
<1>4. ASSUME NEW i \in D, NEW j \in D, after[i] > b[i], after[j] < c[j]
      PROVE  after[i] <= after[j] + 1
  <2> DEFINE L == after[i] - 1
             g == Gap(after, c, L)
  <2>1. L \in Int /\ after[i] \in Nat /\ after[j] \in Nat /\ c[j] \in Nat
    BY <1>2
  <2>2. SumOf(g, D) <= 0
    BY <1>2, <1>3, <1>4
  <2>3. /\ \A k \in D : g[k] \in Nat
        /\ g[j] = Math256_max(0, Math256_min(c[j], L) - after[j])
    <3>1. after \in [D -> Nat] /\ c \in [D -> Nat] /\ L \in Int /\ j \in D
      BY <1>2, <2>1
    <3> HIDE DEF L
    <3> QED BY ONLY <3>1 DEF g, Gap, Math256_max, Math256_min
  <2> HIDE DEF g
  <2>4. SumOf(g, D) \in Nat /\ g[j] <= SumOf(g, D)
    BY <2>3, SumOfNaturals
  <2>5. g[j] = 0
    BY <2>2, <2>3, <2>4
  <2> QED BY <1>4, <2>1, <2>3, <2>5 DEF Math256_max, Math256_min
<1> QED BY <1>2, <1>3, <1>4 DEF after, r

-----------------------------------------------------------------------------
(* Deposits *)

(* The allocation the registry asks for is one of the kind considered.     *)
LEMMA DepositableFacts ==
  ASSUME RegInv
  PROVE  LET b == [i \in Depositable |-> nodeOperators[i].deposited - nodeOperators[i].exited]
             c == [i \in Depositable |-> nodeOperators[i].max - nodeOperators[i].exited]
         IN  /\ Depositable \in SUBSET Ids /\ Numbers(Depositable) /\ IsFiniteSet(Depositable)
             /\ b \in [Depositable -> Nat] /\ c \in [Depositable -> Nat]
             /\ \A i \in Depositable : b[i] <= c[i]
             /\ \A i \in Depositable : nodeOperators[i].active = TRUE
<1>1. Depositable \in SUBSET Ids
  BY DEF Depositable
<1>2. IsFiniteSet(Ids) /\ Ids \in SUBSET Nat
  BY IdsFinite DEF RegInv
<1>3. ASSUME NEW i \in Depositable
      PROVE  LET op == nodeOperators[i]
             IN  /\ op.deposited - op.exited \in Nat /\ op.max - op.exited \in Nat
                 /\ op.deposited - op.exited <= op.max - op.exited
                 /\ op.active = TRUE
  <2> DEFINE op == nodeOperators[i]
  <2>1. op \in NodeOperator /\ Ordered(op) /\ MaximumOK(op) /\ op.deposited # op.max
    BY <1>1, StoredOperator DEF Depositable
  <2> HIDE DEF op
  <2>2. /\ op.deposited - op.exited \in Nat /\ op.max - op.exited \in Nat
        /\ op.deposited - op.exited <= op.max - op.exited /\ op.active = TRUE
    BY <2>1, OperatorFields DEF Ordered, MaximumOK
  <2> QED BY <2>2 DEF op
<1> QED BY <1>1, <1>2, <1>3, FS_Subset DEF Numbers

LEMMA ObtainStep ==
  ASSUME RegInv, NEW count \in Nat, obtainDepositData(count)
  PROVE  RegInv'
<1> DEFINE b == [i \in Depositable |-> nodeOperators[i].deposited - nodeOperators[i].exited]
           c == [i \in Depositable |-> nodeOperators[i].max - nodeOperators[i].exited]
           r == allocate(b, c, count)
           after == DepositedAfter(getSigningKeysAllocationData(count))
           D == {i \in Depositable : after[i] # nodeOperators[i].deposited}
           given(i) == [nodeOperators[i] EXCEPT !.deposited = after[i]]
           new == [i \in D |-> Limited(given(i))]
           moved == {"deposited", "max"}
<1>1. /\ Store(new, moved) /\ now' = now /\ nonce' \in Nat /\ UNCHANGED <<signingKeys, approved>>
  BY NonceOK DEF obtainDepositData
<1>2. /\ Depositable \in SUBSET Ids /\ Numbers(Depositable) /\ IsFiniteSet(Depositable)
      /\ b \in [Depositable -> Nat] /\ c \in [Depositable -> Nat]
      /\ \A i \in Depositable : b[i] <= c[i]
      /\ \A i \in Depositable : nodeOperators[i].active = TRUE
  BY DepositableFacts
<1>3. after = [i \in Depositable |-> nodeOperators[i].exited + r.buckets[i]]
  BY DEF DepositedAfter, getSigningKeysAllocationData
<1>4. r.buckets \in [Depositable -> Nat]
      /\ \A i \in Depositable : b[i] <= r.buckets[i] /\ r.buckets[i] <= c[i]
  <2>1. LoopOK(b, c, count, r) /\ DOMAIN c = Depositable
    <3> HIDE DEF b, c
    <3> QED BY <1>2, AllocateFacts
  <2> HIDE DEF b, c, r
  <2> QED BY <1>2, <2>1 DEF LoopOK
<1>5. \A i \in Depositable : /\ after[i] \in Nat /\ nodeOperators[i].deposited <= after[i]
                             /\ after[i] <= nodeOperators[i].max
  <2>1. SUFFICES ASSUME NEW i \in Depositable
                 PROVE  /\ after[i] \in Nat /\ nodeOperators[i].deposited <= after[i]
                        /\ after[i] <= nodeOperators[i].max
    OBVIOUS
  <2>2. /\ b[i] = nodeOperators[i].deposited - nodeOperators[i].exited
        /\ c[i] = nodeOperators[i].max - nodeOperators[i].exited
        /\ b[i] <= r.buckets[i] /\ r.buckets[i] <= c[i] /\ r.buckets[i] \in Nat
        /\ after[i] = nodeOperators[i].exited + r.buckets[i]
    BY <1>3, <1>4
  <2>3. /\ nodeOperators[i].deposited \in Nat /\ nodeOperators[i].exited \in Nat
        /\ nodeOperators[i].max \in Nat
    BY <1>2, StoredOperator, OperatorFields
  <2> HIDE DEF b, c, r, after
  <2> QED BY <2>2, <2>3
<1>6. D \in SUBSET Ids
  BY <1>2
<1> HIDE DEF b, c, r, after
<1>7. ASSUME NEW i \in D
      PROVE  LET op == nodeOperators[i]
                 q == Limited(given(i))
             IN  /\ q \in NodeOperator /\ Ordered(q) /\ MaximumOK(q)
                 /\ q.total = op.total /\ q.vetted = op.vetted /\ q.deposited >= op.deposited
                 /\ op.vetted \in Nat
                 /\ \A f \in Fields \ moved : q[f] = op[f]
  <2> DEFINE op == nodeOperators[i]
             p == [op EXCEPT !.deposited = after[i]]
             q == Limited(p)
  <2>1. /\ op \in NodeOperator /\ Ordered(op) /\ MaximumOK(op) /\ now \in Nat
        /\ op.active = TRUE
        /\ after[i] \in Nat /\ op.deposited <= after[i] /\ after[i] <= op.max
    BY <1>2, <1>5, <1>6, StoredOperator DEF RegInv, RegistryTypeOK
  <2>2. p = given(i)
    OBVIOUS
  <2> HIDE DEF op, given
  <2>3. /\ p \in NodeOperator /\ p.deposited = after[i] /\ DOMAIN p = DOMAIN op
        /\ \A f \in DOMAIN op \ {"deposited"} : p[f] = op[f]
    BY <2>1 DEF NodeOperator
  <2> HIDE DEF p
  <2>4. /\ p.exited = op.exited /\ p.stuck = op.stuck /\ p.refunded = op.refunded
        /\ p.vetted = op.vetted /\ p.total = op.total /\ p.active = op.active
    BY <2>1, <2>3, OperatorFields
  <2>5. Ordered(p)
    BY <2>1, <2>3, <2>4, OperatorFields DEF Ordered, MaximumOK
  <2>6. /\ q \in NodeOperator /\ Ordered(q) /\ MaximumOK(q)
        /\ \A f \in DOMAIN p \ {"max"} : q[f] = p[f]
    BY <2>1, <2>3, <2>5, LimitedOK
  <2> HIDE DEF q
  <2>7. /\ q.total = op.total /\ q.vetted = op.vetted /\ q.deposited = after[i]
        /\ \A f \in Fields \ moved : q[f] = op[f]
    BY <2>1, <2>3, <2>4, <2>6, OperatorFields DEF Fields
  <2> QED BY <2>1, <2>2, <2>6, <2>7, OperatorFields DEF q, op
<1>8. new \in [D -> NodeOperator] /\ \A i \in D : new[i] = Limited(given(i))
  BY <1>7
<1> HIDE DEF new, given
<1>9. /\ \A i \in D : Ordered(new[i]) /\ MaximumOK(new[i])
      /\ \A i \in D, f \in Fields \ moved : new[i][f] = nodeOperators[i][f]
      /\ \A i \in D : /\ new[i].total = nodeOperators[i].total
                      /\ new[i].vetted <= nodeOperators[i].vetted
                      /\ new[i].deposited >= nodeOperators[i].deposited
      /\ moved \in SUBSET Fields
  BY <1>7, <1>8 DEF Fields
<1> HIDE DEF moved, D
<1> QED BY <1>1, <1>6, <1>8, <1>9, StoreKeeps

-----------------------------------------------------------------------------
(* The registry in the beginning *)

LEMMA TotalOfCounter ==
  ASSUME NEW f PROVE Total(Counter(f)) = SumOf(Counter(f), Ids)
BY TotalIsSum DEF Counter

LEMMA FreshRegistry ==
  ASSUME initialize, now = 1
  PROVE  RegInv
<1>1. /\ nodeOperators = <<>> /\ signingKeys = <<>> /\ approved = <<>> /\ nonce = 0 /\ now = 1
      /\ summary = EmptySummary
  BY DEF initialize
<1>2. Ids = {}
  BY <1>1 DEF Ids
<1>3. RegistryTypeOK
  BY <1>1, <1>2 DEF RegistryTypeOK
<1>4. SummaryOK
  <2>1. summary \in [Fields -> Int] /\ \A f \in Fields : summary[f] = 0
    BY <1>1 DEF EmptySummary, Fields
  <2>2. \A f \in Fields : SumOf(Counter(f), Ids) = 0
    BY <1>2, SumEmpty
  <2> QED BY <2>1, <2>2 DEF SummaryOK
<1> QED BY <1>2, <1>3, <1>4 DEF RegInv, OperatorsOK, VettedKeysWereSeen

(* A storage with limits between the deposited and the present keys.       *)
LimitsFit(s, vetted) ==
  \A i \in DOMAIN s.operators :
    /\ vetted[i] \in Nat /\ s.operators[i].deposited <= vetted[i]
    /\ vetted[i] <= s.operators[i].total
    /\ ~ s.operators[i].active => vetted[i] = s.operators[i].deposited

StartsFrom(s, vetted) ==
  /\ nodeOperators = [i \in DOMAIN s.operators |->
                        [s.operators[i] EXCEPT !.vetted = vetted[i], !.max = vetted[i]]]
  /\ signingKeys = s.keys
  /\ summary = [f \in DOMAIN EmptySummary |-> Total(Counter(f))]
  /\ approved = [i \in Ids |-> SubSeq(signingKeys[i], 1, nodeOperators[i].vetted)]

LEMMA StoredRegistry ==
  ASSUME NEW s, IsStorage(s), NEW vetted, LimitsFit(s, vetted), StartsFrom(s, vetted),
         nonce \in Nat, now = 1
  PROVE  RegInv
<1> DEFINE n == Len(s.operators)
           change(i) == [s.operators[i] EXCEPT !.vetted = vetted[i], !.max = vetted[i]]
<1>1. /\ s.operators \in Seq(NodeOperator) /\ s.keys \in Seq(Seq(SigningKeys))
      /\ Len(s.keys) = n
      /\ \A i \in DOMAIN s.operators :
           LET op == s.operators[i]
           IN  /\ op.exited <= op.deposited /\ op.deposited <= op.total /\ op.total = Len(s.keys[i])
               /\ op.stuck = 0 /\ op.refunded = 0 /\ op.penaltyEnd = 0 /\ ~ op.targetActive
  BY DEF IsStorage
<1>2. n \in Nat /\ DOMAIN s.operators = 1 .. n /\ \A i \in 1 .. n : s.operators[i] \in NodeOperator
  BY <1>1, SeqFacts
<1>3. \A i \in 1 .. n : nodeOperators[i] = change(i)
  BY <1>2 DEF StartsFrom
<1> HIDE DEF n, change
<1>4. ASSUME NEW i \in 1 .. n
      PROVE  LET q == nodeOperators[i]
             IN  /\ q \in NodeOperator /\ Ordered(q) /\ MaximumOK(q)
                 /\ q.vetted \in 0 .. q.total /\ q.total = Len(s.keys[i])
  <2> DEFINE op == s.operators[i]
             v == vetted[i]
             q == [op EXCEPT !.vetted = v, !.max = v]
  <2>1. /\ op \in NodeOperator /\ v \in Nat /\ op.deposited <= v /\ v <= op.total
        /\ ~ op.active => v = op.deposited
        /\ op.exited <= op.deposited /\ op.deposited <= op.total /\ op.total = Len(s.keys[i])
        /\ op.stuck = 0 /\ op.refunded = 0 /\ op.penaltyEnd = 0 /\ ~ op.targetActive
    BY <1>1, <1>2 DEF LimitsFit
  <2>2. nodeOperators[i] = q
    BY <1>3 DEF change
  <2> HIDE DEF op, v
  <2>3. /\ q \in NodeOperator /\ q.vetted = v /\ q.max = v /\ DOMAIN q = DOMAIN op
        /\ \A f \in DOMAIN op \ {"vetted", "max"} : q[f] = op[f]
    BY <2>1 DEF NodeOperator
  <2> HIDE DEF q
  <2>4. /\ q.exited = op.exited /\ q.stuck = op.stuck /\ q.refunded = op.refunded
        /\ q.deposited = op.deposited /\ q.total = op.total /\ q.active = op.active
        /\ q.penaltyEnd = op.penaltyEnd /\ q.targetActive = op.targetActive
    BY <2>1, <2>3, OperatorFields
  <2>5. Ordered(q)
    BY <2>1, <2>3, <2>4, OperatorFields DEF Ordered
  <2>6. MaximumOK(q)
    BY <2>1, <2>3, <2>4, OperatorFields DEF MaximumOK, isOperatorPenalized
  <2>7. q.vetted \in 0 .. q.total /\ q.total = Len(s.keys[i])
    BY <2>1, <2>3, <2>4, OperatorFields
  <2> QED BY <2>2, <2>3, <2>5, <2>6, <2>7
<1>5. nodeOperators \in [1 .. n -> NodeOperator]
  <2>1. nodeOperators = [i \in 1 .. n |-> change(i)]
    BY <1>2 DEF change, StartsFrom
  <2>2. \A i \in 1 .. n : change(i) \in NodeOperator
    BY <1>3, <1>4
  <2> QED BY <2>1, <2>2
<1>6. nodeOperators \in Seq(NodeOperator) /\ Len(nodeOperators) = n
  BY <1>2, <1>5, FunctionIsSequence
<1>7. Ids = 1 .. n
  BY <1>6 DEF Ids
<1>8. \A i \in Ids : /\ SubSeq(signingKeys[i], 1, nodeOperators[i].vetted) \in Seq(SigningKeys)
                     /\ Len(SubSeq(signingKeys[i], 1, nodeOperators[i].vetted)) = nodeOperators[i].vetted
                     /\ \A k \in 1 .. nodeOperators[i].vetted :
                          SubSeq(signingKeys[i], 1, nodeOperators[i].vetted)[k] = signingKeys[i][k]
  <2>0. signingKeys = s.keys
    BY DEF StartsFrom
  <2>1. \A i \in Ids : s.keys[i] \in Seq(SigningKeys)
    BY <1>1, <1>7, SeqFacts
  <2>2. \A i \in Ids : nodeOperators[i].vetted \in 0 .. Len(s.keys[i])
    BY <1>4, <1>7
  <2> QED BY <2>0, <2>1, <2>2, PrefixFacts
<1>9. approved \in Seq(Seq(SigningKeys)) /\ Len(approved) = n
  <2>1. approved \in [1 .. n -> Seq(SigningKeys)]
    BY <1>7, <1>8 DEF StartsFrom
  <2> QED BY <1>2, <2>1, FunctionIsSequence
<1>10. RegistryTypeOK
  <2>0. signingKeys = s.keys
    BY DEF StartsFrom
  <2>1. signingKeys = s.keys /\ now \in Nat /\ now >= 1
    <3>1. now = 1
      OBVIOUS
    <3> QED BY ONLY <2>0, <3>1
  <2>2. \A i \in Ids : Len(signingKeys[i]) = nodeOperators[i].total
    BY <1>4, <1>7, <2>1
  <2> QED BY <1>1, <1>6, <1>9, <2>1, <2>2 DEF RegistryTypeOK
<1>11. OperatorsOK
  BY <1>4, <1>7 DEF OperatorsOK
<1>12. SummaryOK
  <2>1. summary = [f \in Fields |-> SumOf(Counter(f), Ids)]
    BY TotalOfCounter DEF EmptySummary, Fields, StartsFrom
  <2>2. ASSUME NEW f \in Fields PROVE SumOf(Counter(f), Ids) \in Int
    <3>1. \A i \in Ids : Counter(f)[i] \in Int
      BY <1>4, <1>7, FieldsOK DEF Counter
    <3>2. IsFiniteSet(Ids)
      BY <1>2, <1>7, FS_Interval
    <3> QED BY <3>1, <3>2, SumType
  <2> QED BY <2>1, <2>2 DEF SummaryOK
<1>13. VettedKeysWereSeen
  <2>1. SUFFICES ASSUME NEW i \in Ids, NEW k \in nodeOperators[i].deposited + 1 .. nodeOperators[i].vetted
                 PROVE  k <= Len(approved[i]) /\ approved[i][k] = signingKeys[i][k]
    BY DEF VettedKeysWereSeen
  <2>2. nodeOperators[i].deposited \in Nat /\ nodeOperators[i].vetted \in Nat
    BY <1>4, <1>7, OperatorFields
  <2>3. k \in 1 .. nodeOperators[i].vetted
    BY <2>2
  <2>4. approved[i] = SubSeq(signingKeys[i], 1, nodeOperators[i].vetted)
    <3>1. approved = [j \in Ids |-> SubSeq(signingKeys[j], 1, nodeOperators[j].vetted)]
      BY DEF StartsFrom
    <3>2. i \in Ids
      OBVIOUS
    <3> HIDE DEF Ids
    <3> QED BY ONLY <3>1, <3>2
  <2> QED BY <1>8, <2>2, <2>3, <2>4
<1> QED BY <1>10, <1>11, <1>12, <1>13 DEF RegInv

LEMMA UpgradedRegistry ==
  ASSUME finalizeUpgrade_v2, now = 1
  PROVE  RegInv
<1>1. PICK s \in V1Storages :
        /\ nodeOperators = [i \in DOMAIN s.operators |->
                              LET vetted == VettedAfterUpgrade(s.operators[i])
                              IN  [s.operators[i] EXCEPT !.vetted = vetted, !.max = vetted]]
        /\ signingKeys = s.keys
        /\ summary = [f \in DOMAIN EmptySummary |-> Total(Counter(f))]
        /\ nonce = s.nonce + 1
        /\ approved = [i \in Ids |-> SubSeq(signingKeys[i], 1, nodeOperators[i].vetted)]
  BY DEF finalizeUpgrade_v2
<1>2. IsStorage(s)
  BY RegistryAssumption
<1> DEFINE vetted == [i \in DOMAIN s.operators |-> VettedAfterUpgrade(s.operators[i])]
<1>3. LimitsFit(s, vetted)
  <2>1. SUFFICES ASSUME NEW i \in DOMAIN s.operators
                 PROVE  LET v == VettedAfterUpgrade(s.operators[i])
                        IN  /\ v \in Nat /\ s.operators[i].deposited <= v
                            /\ v <= s.operators[i].total
                            /\ ~ s.operators[i].active => v = s.operators[i].deposited
    BY DEF LimitsFit
  <2> DEFINE op == s.operators[i]
  <2>2. op \in NodeOperator /\ op.deposited <= op.total
    BY <1>2, SeqFacts DEF IsStorage
  <2> HIDE DEF op
  <2>3. /\ VettedAfterUpgrade(op) \in Nat /\ op.deposited <= VettedAfterUpgrade(op)
        /\ VettedAfterUpgrade(op) <= op.total
        /\ ~ op.active => VettedAfterUpgrade(op) = op.deposited
    BY <2>2, OperatorFields DEF VettedAfterUpgrade, Math256_min, Math256_max
  <2> QED BY <2>3 DEF op
<1>4. StartsFrom(s, vetted)
  BY <1>1 DEF StartsFrom
<1> HIDE DEF vetted
<1>5. nonce \in Nat
  <2>1. s.nonce \in Nat
    BY <1>2 DEF IsStorage
  <2>2. nonce = s.nonce + 1
    BY <1>1
  <2> QED BY <2>1, <2>2
<1> QED BY <1>2, <1>3, <1>4, <1>5, StoredRegistry

LEMMA OperatingRegistry ==
  ASSUME inOperation, now = 1
  PROVE  RegInv
<1>1. PICK s \in Storages :
        /\ nodeOperators = [i \in DOMAIN s.operators |-> [s.operators[i] EXCEPT !.max = s.operators[i].vetted]]
        /\ signingKeys = s.keys
        /\ summary = [f \in DOMAIN EmptySummary |-> Total(Counter(f))]
        /\ nonce = s.nonce
        /\ approved = [i \in Ids |-> SubSeq(signingKeys[i], 1, nodeOperators[i].vetted)]
  BY DEF inOperation
<1>2. /\ IsStorage(s)
      /\ \A i \in DOMAIN s.operators :
           LET op == s.operators[i]
           IN  op.deposited <= op.vetted /\ op.vetted <= op.total /\ (~op.active => op.vetted = op.deposited)
  BY RegistryAssumption
<1> DEFINE vetted == [i \in DOMAIN s.operators |-> s.operators[i].vetted]
<1>3. \A i \in DOMAIN s.operators : s.operators[i] \in NodeOperator
  BY <1>2, SeqFacts DEF IsStorage
<1>4. \A op \in NodeOperator : op.vetted \in Nat
  BY OperatorFields
<1>5. LimitsFit(s, vetted)
  BY <1>2, <1>3, <1>4 DEF LimitsFit
<1>6. StartsFrom(s, vetted)
  <2>1. \A op \in NodeOperator : [op EXCEPT !.max = op.vetted] = [op EXCEPT !.vetted = op.vetted, !.max = op.vetted]
    BY DEF NodeOperator
  <2>2. \A i \in DOMAIN s.operators :
          [s.operators[i] EXCEPT !.max = s.operators[i].vetted]
            = [s.operators[i] EXCEPT !.vetted = vetted[i], !.max = vetted[i]]
    BY <1>3, <2>1
  <2> QED BY <1>1, <2>2 DEF StartsFrom
<1> HIDE DEF vetted
<1>7. nonce \in Nat
  BY <1>1, <1>2 DEF IsStorage
<1> QED BY <1>2, <1>5, <1>6, <1>7, StoredRegistry

LEMMA InitOK ==
  ASSUME Init
  PROVE  RegInv
BY FreshRegistry, UpgradedRegistry, OperatingRegistry DEF Init, RegistryInit

-----------------------------------------------------------------------------
(* The steps of the whole                                                  *)

(* The programs beside the registry pass on arguments of the kinds its     *)
(* calls declare.                                                          *)
ProgramsOK ==
  /\ buffer \in Nat
  /\ program \in [plan : Programs \cup {<<>>}, sent : Nat, runs : Int]
  /\ pending \in Seq(Transactions)

OwnersStep ==
  \E caller \in owners :
     \/ \E name, address \in Names : addNodeOperator(caller, name, address)
     \/ \E id \in Ids, limit \in Nat : setNodeOperatorStakingLimit(caller, id, limit)
     \/ \E id \in Ids, added \in Seq(SigningKeys) : addSigningKeys(caller, id, added)
     \/ \E id \in Ids, from, count \in Nat : removeSigningKeys(caller, id, from, count)

ManagerStep ==
  \/ \E id \in Ids : activateNodeOperator(id) \/ deactivateNodeOperator(id) \/ clearNodeOperatorPenalty(id)
  \/ \E id \in Ids, name \in Names : setNodeOperatorName(id, name) \/ setNodeOperatorRewardAddress(id, name)
  \/ \E range \in SUBSET Ids : invalidateReadyToDepositKeysRange(range)

ReportStep ==
  \/ \E D \in SUBSET Ids : \E report \in [D -> Nat] :
        updateStuckValidatorsCount(report) \/ updateExitedValidatorsCount(report)
  \/ \E id \in Ids, count \in Nat, other \in Nat, on \in BOOLEAN :
        \/ updateRefundedValidatorsCount(id, count)
        \/ unsafeUpdateValidatorsCount(id, count, other)
        \/ updateTargetValidatorsLimits(id, on, count)

DepositStep == \E count \in Nat : obtainDepositData(count)

(* No operator or key changes; time may pass.                              *)
IdleStep ==
  /\ UNCHANGED <<nodeOperators, signingKeys, summary, nonce, activeOperatorsCount, approved>>
  /\ now' \in {now, now + 1}

RegistryStep == OwnersStep \/ ManagerStep \/ ReportStep \/ DepositStep \/ IdleStep

(* A call: nothing is emitted when nothing changes.                        *)
CallStep == OwnersStep \/ ManagerStep \/ ReportStep \/ DepositStep \/ (IdleStep /\ UNCHANGED <<log, listening>>)

LEMMA UnchangedIsIdle ==
  ASSUME UNCHANGED registryVars PROVE IdleStep /\ UNCHANGED <<log, listening>>
BY DEF registryVars, IdleStep

LEMMA OwnersCalls ==
  ASSUME RegInv, NEW name, OwnersCall(name) PROVE CallStep
<1>1. PICK caller \in owners, id \in Ids, count \in Counts :
        \/ name = "addNodeOperator" /\ count = 0 /\ \E n \in Names : addNodeOperator(caller, n, n)
        \/ name = "setNodeOperatorStakingLimit" /\ setNodeOperatorStakingLimit(caller, id, count)
        \/ name = "addSigningKeys" /\ count = 0 /\ \E keys \in NewKeys : addSigningKeys(caller, id, keys)
        \/ name = "removeSigningKeys" /\ \E from \in 0..MaxKeys : removeSigningKeys(caller, id, from, count)
        \/ name = "setOwner" /\ count = 0 /\ \E a \in Accounts, status \in BOOLEAN : setOwner(caller, a, status)
  BY DEF OwnersCall
<1>2. count \in Nat /\ NewKeys \subseteq Seq(SigningKeys) /\ 0 .. MaxKeys \subseteq Nat
  BY OperationsAssumption
<1>3. CASE \E n \in Names : addNodeOperator(caller, n, n)
  BY <1>3 DEF CallStep, OwnersStep
<1>4. CASE setNodeOperatorStakingLimit(caller, id, count)
  BY <1>2, <1>4 DEF CallStep, OwnersStep
<1>5. CASE \E keys \in NewKeys : addSigningKeys(caller, id, keys)
  BY <1>2, <1>5 DEF CallStep, OwnersStep
<1>6. CASE \E from \in 0 .. MaxKeys : removeSigningKeys(caller, id, from, count)
  BY <1>2, <1>6 DEF CallStep, OwnersStep
<1>7. CASE \E a \in Accounts, status \in BOOLEAN : setOwner(caller, a, status)
  BY <1>7 DEF setOwner, CallStep, IdleStep
<1> QED BY <1>1, <1>3, <1>4, <1>5, <1>6, <1>7

LEMMA ManagersCalls ==
  ASSUME NEW name, ManagerCalls(name) PROVE CallStep
<1>1. PICK id \in Ids :
        \/ name = "activateNodeOperator" /\ activateNodeOperator(id)
        \/ name = "deactivateNodeOperator" /\ deactivateNodeOperator(id)
        \/ name = "setNodeOperatorName" /\ \E n \in Names : setNodeOperatorName(id, n)
        \/ name = "setNodeOperatorRewardAddress" /\ \E n \in Names : setNodeOperatorRewardAddress(id, n)
        \/ name = "invalidateReadyToDepositKeysRange" /\ \E last \in id..Len(nodeOperators) : invalidateReadyToDepositKeysRange(id..last)
        \/ name = "clearNodeOperatorPenalty" /\ clearNodeOperatorPenalty(id)
  BY DEF ManagerCalls
<1>2. CASE \E last \in id .. Len(nodeOperators) : invalidateReadyToDepositKeysRange(id .. last)
  <2>1. \A range : invalidateReadyToDepositKeysRange(range) => range \in SUBSET Ids
    BY DEF invalidateReadyToDepositKeysRange
  <2> QED BY <1>2, <2>1 DEF CallStep, ManagerStep
<1> QED BY <1>1, <1>2 DEF CallStep, ManagerStep

LEMMA RoutersCalls ==
  ASSUME NEW name, RouterCalls(name) PROVE CallStep
<1>1. Counts \subseteq Nat
  BY OperationsAssumption
<1>2. ASSUME NEW report \in Reports PROVE \E D \in SUBSET Ids : report \in [D -> Nat]
  <2>1. PICK D \in SUBSET Ids : report \in [D -> Counts]
    BY <1>2 DEF Reports
  <2> QED BY <1>1, <2>1
<1>3. CASE \E report \in Reports : updateStuckValidatorsCount(report) \/ updateExitedValidatorsCount(report)
  BY <1>2, <1>3 DEF CallStep, ReportStep
<1>4. CASE onWithdrawalCredentialsChanged
  <2>1. CASE Ids = {}
    BY <1>4, <2>1, UnchangedIsIdle DEF onWithdrawalCredentialsChanged, CallStep
  <2>2. CASE Ids # {}
    BY <1>4, <2>2 DEF onWithdrawalCredentialsChanged, CallStep, ManagerStep
  <2> QED BY <2>1, <2>2
<1>5. CASE \E count \in Counts \ {0} : obtainDepositData(count)
  BY <1>1, <1>5 DEF CallStep, DepositStep
<1>6. CASE \E id \in Ids, count \in Counts :
             \/ updateRefundedValidatorsCount(id, count)
             \/ \E stuck \in Counts : unsafeUpdateValidatorsCount(id, count, stuck)
             \/ \E on \in BOOLEAN : updateTargetValidatorsLimits(id, on, count)
  <2>1. PICK id \in Ids, count \in Counts :
             \/ updateRefundedValidatorsCount(id, count)
             \/ \E stuck \in Counts : unsafeUpdateValidatorsCount(id, count, stuck)
             \/ \E on \in BOOLEAN : updateTargetValidatorsLimits(id, on, count)
    BY <1>6
  <2>2. count \in Nat /\ Counts \subseteq Nat
    BY <1>1
  <2>3. CASE updateRefundedValidatorsCount(id, count)
    BY <2>2, <2>3 DEF CallStep, ReportStep
  <2>4. CASE \E stuck \in Counts : unsafeUpdateValidatorsCount(id, count, stuck)
    BY <2>2, <2>4 DEF CallStep, ReportStep
  <2>5. CASE \E on \in BOOLEAN : updateTargetValidatorsLimits(id, on, count)
    BY <2>2, <2>5 DEF CallStep, ReportStep
  <2> QED BY <2>1, <2>3, <2>4, <2>5
<1> QED BY <1>3, <1>4, <1>5, <1>6 DEF RouterCalls

(* What the router sizes a deposit by is a number.                         *)
LEMMA DepositsAreCounted ==
  ASSUME RegInv, buffer \in Nat
  PROVE  /\ summary.max - summary.deposited \in Nat
         /\ DepositsCount \in Nat /\ DepositsCount <= buffer
<1>1. /\ summary.max \in Int /\ summary.deposited \in Int
      /\ summary.max = SumOf(Counter("max"), Ids)
      /\ summary.deposited = SumOf(Counter("deposited"), Ids)
  BY DEF RegInv, SummaryOK, Fields
<1>2. ASSUME NEW i \in Ids
      PROVE  /\ Counter("max")[i] \in Int /\ Counter("deposited")[i] \in Int
             /\ 1 * Counter("deposited")[i] <= 1 * Counter("max")[i]
  <2>1. nodeOperators[i] \in NodeOperator /\ MaximumOK(nodeOperators[i])
    BY StoredOperator
  <2> QED BY <2>1, OperatorFields DEF Counter, MaximumOK
<1>3. 1 * SumOf(Counter("deposited"), Ids) <= 1 * SumOf(Counter("max"), Ids)
  <2>1. IsFiniteSet(Ids) /\ 1 \in Int
    BY IdsFinite DEF RegInv
  <2> QED BY ONLY <1>2, <2>1, SumScaled
<1>4. MaxDepositsPerBlock \in Nat
  BY DepositsAssumption
<1>5. summary.max - summary.deposited \in Nat
  <2> DEFINE m == summary.max
             d == summary.deposited
  <2>1. m \in Int /\ d \in Int /\ 1 * d <= 1 * m
    BY <1>1, <1>3
  <2> HIDE DEF m, d
  <2>2. m - d \in Nat
    BY <2>1
  <2> QED BY <2>2 DEF m, d
<1> QED BY <1>4, <1>5 DEF DepositsCount, Math256_min

LEMMA DepositCalls ==
  ASSUME RegInv, ProgramsOK, NEW tx \in sent, MineDeposit(tx)
  PROVE  RegistryStep /\ buffer' \in Nat
<1>1. DepositsCount \in Nat /\ DepositsCount <= buffer /\ buffer \in Nat
  BY DepositsAreCounted DEF ProgramsOK
<1>2. CASE UNCHANGED <<registryVars, securityVars>>
  BY <1>1, <1>2, UnchangedIsIdle DEF RegistryStep, securityVars
<1>3. CASE deposit
  <2>1. CASE DepositsCount = 0
    BY <1>1, <1>3, <2>1, UnchangedIsIdle DEF deposit, RegistryStep
  <2>2. CASE DepositsCount # 0
    BY <1>1, <1>3, <2>2 DEF deposit, RegistryStep, DepositStep
  <2> QED BY <2>1, <2>2
<1> QED BY <1>2, <1>3 DEF MineDeposit, depositBufferedAce

LEMMA TaskCalls ==
  ASSUME NEW tx \in Transactions, CallRegistry(tx)
  PROVE  RegistryStep
<1>1. HasArguments(tx)
  BY TasksAssumption
<1>2. \A account, status : setOwner(Deployer, account, status) => IdleStep
  BY DEF setOwner, IdleStep
<1>3. /\ \A id, name : setNodeOperatorRewardAddress(id, name) => id \in Ids
      /\ \A id, limit : setNodeOperatorStakingLimit(Deployer, id, limit) => Deployer \in owners /\ id \in Ids
      /\ \A name, address : addNodeOperator(Deployer, name, address) => Deployer \in owners
      /\ \A id, from, count : removeSigningKeys(Deployer, id, from, count) => Deployer \in owners /\ id \in Ids
      /\ \A id, keys : addSigningKeys(Deployer, id, keys) => Deployer \in owners /\ id \in Ids
  BY DEF setNodeOperatorRewardAddress, setNodeOperatorStakingLimit, addNodeOperator, removeSigningKeys, addSigningKeys
<1>4. CASE tx.function = "setNodeOperatorRewardAddress" /\ setNodeOperatorRewardAddress(tx.args[1], tx.args[2])
  BY <1>1, <1>3, <1>4 DEF HasArguments, RegistryStep, ManagerStep
<1>5. CASE tx.function = "setNodeOperatorStakingLimit" /\ setNodeOperatorStakingLimit(Deployer, tx.args[1], tx.args[2])
  BY <1>1, <1>3, <1>5 DEF HasArguments, RegistryStep, OwnersStep
<1>6. CASE tx.function = "addNodeOperator" /\ addNodeOperator(Deployer, tx.args[1], tx.args[2])
  BY <1>1, <1>3, <1>6 DEF HasArguments, RegistryStep, OwnersStep
<1>7. CASE tx.function = "setOwner" /\ setOwner(Deployer, tx.args[1], tx.args[2])
  BY <1>2, <1>7 DEF RegistryStep
<1>8. CASE tx.function = "removeSigningKeys" /\ removeSigningKeys(Deployer, tx.args[1], tx.args[2], tx.args[3])
  BY <1>1, <1>3, <1>8 DEF HasArguments, RegistryStep, OwnersStep
<1>9. CASE tx.function = "addSigningKeys" /\ addSigningKeys(Deployer, tx.args[1], tx.args[2])
  BY <1>1, <1>3, <1>9 DEF HasArguments, RegistryStep, OwnersStep
<1> QED BY <1>4, <1>5, <1>6, <1>7, <1>8, <1>9 DEF CallRegistry

(* What is sent is a transaction of the program.                           *)
LEMMA TaskSteps ==
  ASSUME RegInv, ProgramsOK, TaskStep
  PROVE  RegistryStep /\ ProgramsOK'
<1>1. buffer' = buffer
  BY DEF TaskStep, securityVars
<1>2. buffer' \in Nat
  BY <1>1 DEF ProgramsOK
<1>3. /\ program \in [plan : Programs \cup {<<>>}, sent : Nat, runs : Int]
      /\ pending \in Seq(Transactions)
  BY DEF ProgramsOK
<1>4. CASE Send
  <2>1. program.plan \in Seq(Transactions) /\ program.sent \in Nat
    <3>1. Programs \subseteq Seq(Transactions) /\ <<>> \in Seq(Transactions)
      BY TasksAssumption
    <3> QED BY <1>3, <3>1
  <2>2. program.plan[program.sent + 1] \in Transactions
    BY <1>4, <2>1, ElementOfSeq DEF Send
  <2>3. pending' \in Seq(Transactions)
    BY <1>3, <1>4, <2>2, AppendProperties DEF Send
  <2>4. program' \in [plan : Programs \cup {<<>>}, sent : Nat, runs : Int]
    BY <1>3, <1>4 DEF Send
  <2> QED BY <1>2, <1>4, <2>3, <2>4, UnchangedIsIdle DEF Send, ProgramsOK, RegistryStep
<1>5. CASE RunProgram
  <2>1. program' \in [plan : Programs \cup {<<>>}, sent : Nat, runs : Int]
    BY <1>3, <1>5 DEF RunProgram
  <2> QED BY <1>2, <1>3, <1>5, <2>1, UnchangedIsIdle DEF RunProgram, ProgramsOK, RegistryStep
<1>6. CASE Mine
  <2>1. Head(pending) \in Transactions /\ pending' \in Seq(Transactions)
    BY <1>3, <1>6, HeadTailProperties DEF Mine
  <2>2. program' = program
    BY <1>6 DEF Mine
  <2>3. CASE CallRegistry(Head(pending))
    BY <1>2, <1>3, <2>1, <2>2, <2>3, TaskCalls DEF ProgramsOK
  <2>4. CASE UNCHANGED registryVars
    BY <1>2, <1>3, <2>1, <2>2, <2>4, UnchangedIsIdle DEF ProgramsOK, RegistryStep
  <2>5. Execute(Head(pending)) => CallRegistry(Head(pending)) \/ UNCHANGED registryVars
    BY DEF Execute, SetFrameConfig, GrantPermission, DeployCatalist, SetApp
  <2> QED BY <1>6, <2>3, <2>4, <2>5 DEF Mine
<1>7. CASE MineReverted
  <2>1. pending' \in Seq(Transactions) /\ program' = program
    BY <1>3, <1>7, HeadTailProperties DEF MineReverted
  <2> QED BY <1>2, <1>3, <1>7, <2>1, UnchangedIsIdle DEF MineReverted, ProgramsOK, RegistryStep
<1> QED BY <1>4, <1>5, <1>6, <1>7 DEF TaskStep

LEMMA Steps ==
  ASSUME RegInv, ProgramsOK, [Next]_vars
  PROVE  RegistryStep /\ ProgramsOK'
<1>1. CASE Call
  <2>1. PICK name \in CallsOf[scene] :
           \/ RegistryCalls(name) /\ UNCHANGED programVars
           \/ SecurityCalls(name) /\ UNCHANGED <<registryVars, others>>
           \/ /\ PoolCalls(name)
              /\ UNCHANGED <<nodeOperators, signingKeys, summary, nonce, activeOperatorsCount, owners, now, listening, approved>>
              /\ UNCHANGED <<securityVars, depositerVars, tasksVars, imageVars, scene>>
           \/ LedgerCalls(name) /\ UNCHANGED <<registryVars, securityVars, depositerVars, appVars, tasksVars, scene>>
    BY <1>1 DEF Call
  <2>2. CASE RegistryCalls(name) /\ UNCHANGED programVars
    <3>1. RegistryStep
      BY <2>2, OwnersCalls, ManagersCalls, RoutersCalls DEF RegistryCalls, CallStep, RegistryStep
    <3>2. UNCHANGED <<buffer, program, pending>>
      BY <2>2 DEF programVars
    <3> QED BY <3>1, <3>2 DEF ProgramsOK
  <2>3. CASE SecurityCalls(name) /\ UNCHANGED <<registryVars, others>>
    <3>1. buffer' = buffer
      BY <2>3 DEF SecurityCalls, addGuardians, removeGuardian, setGuardianQuorum, pauseDeposits, unpauseDeposits,
                  setStakingModuleStatus, ForeignDeposit, PoolChanges, securityVars
    <3>2. UNCHANGED <<program, pending>>
      BY <2>3 DEF others
    <3> QED BY <2>3, <3>1, <3>2, UnchangedIsIdle DEF ProgramsOK, RegistryStep
  <2>4. CASE /\ UNCHANGED <<nodeOperators, signingKeys, summary, nonce, activeOperatorsCount, owners, now, listening, approved>>
             /\ UNCHANGED <<securityVars, tasksVars>>
    BY <2>4 DEF securityVars, tasksVars, ProgramsOK, RegistryStep, IdleStep
  <2>5. CASE UNCHANGED <<registryVars, securityVars, tasksVars>>
    BY <2>5, UnchangedIsIdle DEF securityVars, tasksVars, ProgramsOK, RegistryStep
  <2> QED BY <2>1, <2>2, <2>3, <2>4, <2>5
<1>2. CASE Tick
  BY <1>2 DEF Tick, NextBlock, programVars, ProgramsOK, RegistryStep, IdleStep
<1>3. CASE DepositerStep
  <2>1. UNCHANGED <<program, pending>>
    BY <1>3 DEF DepositerStep, tasksVars
  <2>2. CASE UNCHANGED <<registryVars, securityVars>>
    BY <2>1, <2>2, UnchangedIsIdle DEF securityVars, ProgramsOK, RegistryStep
  <2>3. CASE \E tx \in sent : MineDeposit(tx)
    BY <2>1, <2>3, DepositCalls DEF ProgramsOK
  <2> QED BY <1>3, <2>2, <2>3 DEF DepositerStep
<1>4. CASE AppStep
  BY <1>4 DEF AppStep, securityVars, tasksVars, ProgramsOK, RegistryStep, IdleStep
<1>5. CASE TaskStep
  BY <1>5, TaskSteps
<1>6. CASE ImageStep
  BY <1>6, UnchangedIsIdle DEF ImageStep, securityVars, tasksVars, ProgramsOK, RegistryStep
<1>7. CASE UNCHANGED vars
  BY <1>7, UnchangedIsIdle DEF vars, programVars, ProgramsOK, RegistryStep
<1> QED BY <1>1, <1>2, <1>3, <1>4, <1>5, <1>6, <1>7 DEF Next

LEMMA StepsKeep ==
  ASSUME RegInv, RegistryStep
  PROVE  RegInv'
<1>1. CASE OwnersStep
  <2>1. PICK caller \in owners :
           \/ \E name, address \in Names : addNodeOperator(caller, name, address)
           \/ \E id \in Ids, limit \in Nat : setNodeOperatorStakingLimit(caller, id, limit)
           \/ \E id \in Ids, added \in Seq(SigningKeys) : addSigningKeys(caller, id, added)
           \/ \E id \in Ids, from, count \in Nat : removeSigningKeys(caller, id, from, count)
    BY <1>1 DEF OwnersStep
  <2> QED BY <2>1, AddOperatorStep, LimitStep, AddKeysStep, RemoveStep
<1>2. CASE ManagerStep
  BY <1>2, ActivateStep, DeactivateStep, ClearStep, NameStep, InvalidateStep DEF ManagerStep
<1>3. CASE ReportStep
  <2>1. CASE \E D \in SUBSET Ids : \E report \in [D -> Nat] :
               updateStuckValidatorsCount(report) \/ updateExitedValidatorsCount(report)
    BY <2>1, StuckStep, ExitedStep
  <2>2. CASE \E id \in Ids, count \in Nat, other \in Nat, on \in BOOLEAN :
               \/ updateRefundedValidatorsCount(id, count)
               \/ unsafeUpdateValidatorsCount(id, count, other)
               \/ updateTargetValidatorsLimits(id, on, count)
    BY <2>2, RefundedStep, UnsafeStep, TargetStep
  <2> QED BY <1>3, <2>1, <2>2 DEF ReportStep
<1>4. CASE DepositStep
  BY <1>4, ObtainStep DEF DepositStep
<1>5. CASE IdleStep
  <2>1. nonce' \in Nat /\ now' \in Nat /\ now' >= now
    BY <1>5 DEF IdleStep, RegInv, RegistryTypeOK
  <2>2. UNCHANGED <<nodeOperators, signingKeys, summary, approved>>
    BY <1>5 DEF IdleStep
  <2> QED BY <2>1, <2>2, Untouched
<1> QED BY <1>1, <1>2, <1>3, <1>4, <1>5 DEF RegistryStep

LEMMA ProgramsInit ==
  ASSUME Init
  PROVE  ProgramsOK
<1>1. buffer \in Nat
  <2>1. buffer \in Buffers \cup {0}
    BY DEF Init
  <2> QED BY <2>1, OperationsAssumption
<1>2. PICK plan \in Programs \cup {<<>>} : program = [plan |-> plan, sent |-> 0, runs |-> 1]
  BY DEF Init, TasksInit
<1>3. pending = <<>>
  BY DEF Init, TasksInit
<1> QED BY <1>1, <1>2, <1>3 DEF ProgramsOK

LEMMA RegistryInvariant == Spec => [](RegInv /\ ProgramsOK)
<1>1. Init => RegInv /\ ProgramsOK
  BY InitOK, ProgramsInit
<1>2. RegInv /\ ProgramsOK /\ [Next]_vars => (RegInv /\ ProgramsOK)'
  BY Steps, StepsKeep
<1> QED BY <1>1, <1>2, PTL DEF Spec

(***************************************************************************)
(* The counters of every operator keep their order and the stored maximum  *)
(* is the one the penalties and the target allow, under every call of the  *)
(* owners, the manager, the router and the programs, whatever the operators*)
(* and their number; the four sums kept beside them, which every handler   *)
(* moves by differences, are the sums over the operators.                  *)
(***************************************************************************)
THEOREM CountersStayConsistent == Spec => []CountersConsistent
<1>1. ASSUME RegInv PROVE CountersConsistent
  <2>1. ASSUME NEW i \in Ids
        PROVE  LET op == nodeOperators[i]
               IN  /\ op.exited + op.stuck <= op.deposited /\ op.refunded <= op.deposited
                   /\ op.deposited <= op.max /\ op.max <= op.vetted /\ op.vetted <= op.total
                   /\ isOperatorPenalized(op) => op.max = op.deposited
                   /\ isOperatorPenaltyCleared(op) /\ ~op.targetActive => op.max = op.vetted
                   /\ op.targetActive /\ op.max > op.deposited => op.max - op.exited <= op.target
                   /\ ~op.active => op.vetted = op.deposited
    <3>1. Ordered(nodeOperators[i]) /\ MaximumOK(nodeOperators[i])
      BY <1>1 DEF RegInv, OperatorsOK
    <3> QED BY <3>1 DEF Ordered, MaximumOK
  <2>2. ASSUME NEW f \in DOMAIN summary PROVE summary[f] = Total(Counter(f))
    <3>1. f \in Fields /\ summary[f] = SumOf(Counter(f), Ids)
      BY <1>1 DEF RegInv, SummaryOK
    <3> QED BY <3>1, TotalOfCounter
  <2> QED BY <2>1, <2>2 DEF CountersConsistent
<1>2. RegInv => CountersConsistent
  BY <1>1
<1> QED BY <1>2, RegistryInvariant, PTL

(***************************************************************************)
(* The keys under an operator's limit that are not deposited yet are the   *)
(* ones its owner saw when the limit was set, through keys added, removed, *)
(* moved to the place of others and trimmed.                               *)
(***************************************************************************)
THEOREM VettedKeysAreSeen == Spec => []VettedKeysWereSeen
<1>1. RegInv => VettedKeysWereSeen
  BY DEF RegInv
<1> QED BY <1>1, RegistryInvariant, PTL

-----------------------------------------------------------------------------
(* The number of active operators, by which the arrays of an allocation    *)
(* are sized                                                               *)

Active == {i \in Ids : nodeOperators[i].active}

ActiveOK == activeOperatorsCount = Cardinality(Active)

LEMMA ActiveFinite ==
  ASSUME RegInv
  PROVE  IsFiniteSet(Active) /\ Active \subseteq Ids
<1>1. IsFiniteSet(Ids)
  BY IdsFinite DEF RegInv
<1> QED BY <1>1, FS_Subset DEF Active

LEMMA SameActive ==
  ASSUME ActiveOK, Ids' = Ids, \A i \in Ids : nodeOperators'[i].active = nodeOperators[i].active,
         activeOperatorsCount' = activeOperatorsCount
  PROVE  ActiveOK'
<1>1. Active' = Active
  BY DEF Active
<1> QED BY <1>1 DEF ActiveOK

LEMMA StoreIds ==
  ASSUME RegInv, NEW new, NEW fields, Store(new, fields)
  PROVE  /\ Ids' = Ids
         /\ \A i \in Ids : nodeOperators'[i] = IF i \in DOMAIN new THEN new[i] ELSE nodeOperators[i]
<1> DEFINE entry(i) == IF i \in DOMAIN new THEN new[i] ELSE nodeOperators[i]
           n == Len(nodeOperators)
<1>1. n \in Nat /\ Ids = 1 .. n
  BY IdsFinite DEF RegInv
<1>2. nodeOperators' = [i \in 1 .. n |-> entry(i)]
  BY <1>1 DEF Store
<1>3. \A i \in Ids : nodeOperators'[i] = entry(i)
  BY <1>1, <1>2
<1> HIDE DEF entry, n
<1>4. nodeOperators' \in [1 .. n -> {entry(i) : i \in 1 .. n}]
  BY <1>2
<1>5. Len(nodeOperators') = n
  BY <1>1, <1>4, FunctionIsSequence
<1>6. Ids' = Ids
  BY <1>1, <1>5 DEF Ids
<1> QED BY <1>3, <1>6 DEF entry

LEMMA StoreActive ==
  ASSUME RegInv, ActiveOK, NEW new, NEW fields, Store(new, fields),
         \A i \in DOMAIN new \cap Ids : new[i].active = nodeOperators[i].active,
         activeOperatorsCount' = activeOperatorsCount
  PROVE  ActiveOK'
<1>1. \A i \in Ids : nodeOperators'[i].active = nodeOperators[i].active
  BY StoreIds
<1> QED BY <1>1, StoreIds, SameActive

LEMMA OneActive ==
  ASSUME RegInv, ActiveOK, NEW id \in Ids, NEW op, NEW fields, Store(Only(id, op), fields),
         op.active = nodeOperators[id].active, activeOperatorsCount' = activeOperatorsCount
  PROVE  ActiveOK'
<1>1. DOMAIN Only(id, op) = {id} /\ Only(id, op)[id] = op
  BY DEF Only
<1> QED BY <1>1, StoreActive

(* No computation of an operator's counters touches its activity.          *)
Activity(q, op) == "active" \in DOMAIN q /\ q.active = op.active

LEMMA ActiveKept ==
  ASSUME NEW op, "active" \in DOMAIN op
  PROVE  /\ Activity(Limited(op), op)
         /\ \A v : /\ Activity(WithStuck(op, v), op)
                   /\ Activity(WithRefunded(op, v), op)
                   /\ Activity(WithExited(op, v), op)
<1>1. ASSUME NEW q, Activity(q, op) PROVE Activity(Limited(q), op)
  BY <1>1 DEF Limited, Activity
<1>2. Activity(op, op)
  BY DEF Activity
<1>3. ASSUME NEW v, NEW e
      PROVE  /\ Activity([op EXCEPT !.stuck = v, !.penaltyEnd = e], op)
             /\ Activity([op EXCEPT !.refunded = v, !.penaltyEnd = e], op)
             /\ Activity([op EXCEPT !.exited = v], op)
  BY DEF Activity
<1> QED BY <1>1, <1>2, <1>3 DEF WithStuck, WithRefunded, WithExited

LEMMA OwnersActive ==
  ASSUME RegInv, ActiveOK, OwnersStep
  PROVE  ActiveOK'
<1>0. PICK caller \in owners :
         \/ \E name, address \in Names : addNodeOperator(caller, name, address)
         \/ \E id \in Ids, limit \in Nat : setNodeOperatorStakingLimit(caller, id, limit)
         \/ \E id \in Ids, added \in Seq(SigningKeys) : addSigningKeys(caller, id, added)
         \/ \E id \in Ids, from, count \in Nat : removeSigningKeys(caller, id, from, count)
  BY DEF OwnersStep
<1>1. \A i \in Ids : "active" \in DOMAIN nodeOperators[i]
  BY StoredOperator, OperatorFields
<1>2. ASSUME UNCHANGED registryVars PROVE ActiveOK'
  BY <1>2 DEF registryVars, ActiveOK, Active, Ids
<1>3. ASSUME NEW name \in Names, NEW address \in Names, addNodeOperator(caller, name, address) PROVE ActiveOK'
  <2> DEFINE op == NewOperator(name, address)
             n == Len(nodeOperators)
  <2>1. /\ nodeOperators \in Seq(NodeOperator) /\ n \in Nat /\ Ids = 1 .. n
        /\ op \in NodeOperator /\ op.active = TRUE
    BY IdsFinite, NewOperatorOK DEF RegInv, RegistryTypeOK, NewOperator
  <2>2. nodeOperators' = Append(nodeOperators, op) /\ activeOperatorsCount' = activeOperatorsCount + 1
    BY <1>3 DEF addNodeOperator
  <2> HIDE DEF op
  <2>3. /\ Len(nodeOperators') = n + 1 /\ nodeOperators'[n + 1] = op
        /\ \A i \in 1 .. n : nodeOperators'[i] = nodeOperators[i]
    BY <2>1, <2>2, AppendProperties
  <2> HIDE DEF n
  <2>4. Ids' = 1 .. n + 1
    BY <2>3 DEF Ids
  <2>5. Active' = Active \cup {n + 1} /\ n + 1 \notin Active
    BY <2>1, <2>3, <2>4 DEF Active
  <2>6. Cardinality(Active \cup {n + 1}) = Cardinality(Active) + 1
    BY <2>5, ActiveFinite, FS_AddElement
  <2> QED BY <2>2, <2>5, <2>6 DEF ActiveOK
<1>4. ASSUME NEW id \in Ids, NEW limit \in Nat, setNodeOperatorStakingLimit(caller, id, limit) PROVE ActiveOK'
  <2> DEFINE p == [nodeOperators[id] EXCEPT !.vetted = StakingLimit(nodeOperators[id], limit)]
  <2>1. CASE UNCHANGED registryVars
    BY <1>2, <2>1
  <2>2. CASE Store(Only(id, Limited(p)), {"max"}) /\ activeOperatorsCount' = activeOperatorsCount
    <3>1. "active" \in DOMAIN p /\ p.active = nodeOperators[id].active
      BY <1>1
    <3> HIDE DEF p
    <3>2. Limited(p).active = nodeOperators[id].active
      BY <3>1, ActiveKept DEF Activity
    <3> QED BY <2>2, <3>2, OneActive
  <2> QED BY <1>4, <2>1, <2>2 DEF setNodeOperatorStakingLimit
<1>5. ASSUME NEW id \in Ids, NEW added \in Seq(SigningKeys), addSigningKeys(caller, id, added) PROVE ActiveOK'
  <2> DEFINE p == [nodeOperators[id] EXCEPT !.total = @ + Len(added)]
  <2>1. Store(Only(id, p), {"total"}) /\ activeOperatorsCount' = activeOperatorsCount
    BY <1>5 DEF addSigningKeys
  <2>2. p.active = nodeOperators[id].active
    BY <1>1
  <2> HIDE DEF p
  <2> QED BY <2>1, <2>2, OneActive
<1>6. ASSUME NEW id \in Ids, NEW from \in Nat, NEW count \in Nat, removeSigningKeys(caller, id, from, count) PROVE ActiveOK'
  <2> DEFINE p == [nodeOperators[id] EXCEPT !.total = @ - count, !.vetted = VettedAfterRemoval(nodeOperators[id], from)]
  <2>1. CASE UNCHANGED registryVars
    BY <1>2, <2>1
  <2>2. CASE Store(Only(id, Limited(p)), {"total", "max"}) /\ activeOperatorsCount' = activeOperatorsCount
    <3>1. "active" \in DOMAIN p /\ p.active = nodeOperators[id].active
      BY <1>1
    <3> HIDE DEF p
    <3>2. Limited(p).active = nodeOperators[id].active
      BY <3>1, ActiveKept DEF Activity
    <3> QED BY <2>2, <3>2, OneActive
  <2> QED BY <1>6, <2>1, <2>2 DEF removeSigningKeys
<1> QED BY <1>0, <1>3, <1>4, <1>5, <1>6

LEMMA ManagersActive ==
  ASSUME RegInv, ActiveOK, ManagerStep
  PROVE  ActiveOK'
<1>1. \A i \in Ids : "active" \in DOMAIN nodeOperators[i]
  BY StoredOperator, OperatorFields
<1>2. nodeOperators \in [Ids -> NodeOperator] /\ Ids = 1 .. Len(nodeOperators)
  BY IdsFinite DEF RegInv
<1>3. ASSUME NEW id \in Ids, activateNodeOperator(id) PROVE ActiveOK'
  <2>1. /\ nodeOperators' = [nodeOperators EXCEPT ![id].active = TRUE] /\ ~ nodeOperators[id].active
        /\ activeOperatorsCount' = activeOperatorsCount + 1
    BY <1>3 DEF activateNodeOperator
  <2>2. Ids' = Ids
    BY <1>2, <2>1 DEF Ids
  <2>3. /\ nodeOperators'[id].active = TRUE
        /\ \A i \in Ids \ {id} : nodeOperators'[i] = nodeOperators[i]
    BY <1>1, <1>2, <2>1
  <2>4. Active' = Active \cup {id} /\ id \notin Active
    BY <2>1, <2>2, <2>3 DEF Active
  <2>5. Cardinality(Active \cup {id}) = Cardinality(Active) + 1
    BY <2>4, ActiveFinite, FS_AddElement
  <2> QED BY <2>1, <2>4, <2>5 DEF ActiveOK
<1>4. ASSUME NEW id \in Ids, deactivateNodeOperator(id) PROVE ActiveOK'
  <2> DEFINE op == nodeOperators[id]
             cut == op.vetted > op.deposited
             off == [op EXCEPT !.active = FALSE]
             less == [off EXCEPT !.vetted = op.deposited]
             q == IF cut THEN Limited(less) ELSE off
  <2>1. Store(Only(id, q), {"max"}) /\ op.active /\ activeOperatorsCount' = activeOperatorsCount - 1
    BY <1>4 DEF deactivateNodeOperator
  <2>2. q.active = FALSE
    <3>1. "active" \in DOMAIN off /\ off.active = FALSE
      BY <1>1
    <3>2. "active" \in DOMAIN less /\ less.active = FALSE
      BY <3>1
    <3> HIDE DEF less, off
    <3>3. Limited(less).active = FALSE
      BY <3>2, ActiveKept DEF Activity
    <3> QED BY <3>1, <3>3
  <2> HIDE DEF q
  <2>3. DOMAIN Only(id, q) = {id} /\ Only(id, q)[id] = q
    BY DEF Only
  <2>4. /\ Ids' = Ids /\ nodeOperators'[id] = q
        /\ \A i \in Ids \ {id} : nodeOperators'[i] = nodeOperators[i]
    BY <2>1, <2>3, StoreIds
  <2>5. Active' = Active \ {id} /\ id \in Active
    BY <2>1, <2>2, <2>4 DEF Active
  <2>6. Cardinality(Active \ {id}) = Cardinality(Active) - 1
    BY <2>5, ActiveFinite, FS_RemoveElement
  <2> QED BY <2>1, <2>5, <2>6 DEF ActiveOK
<1>5. ASSUME NEW id \in Ids, clearNodeOperatorPenalty(id) PROVE ActiveOK'
  <2> DEFINE p == [nodeOperators[id] EXCEPT !.penaltyEnd = 0]
  <2>1. Store(Only(id, Limited(p)), {"max"}) /\ activeOperatorsCount' = activeOperatorsCount
    BY <1>5 DEF clearNodeOperatorPenalty
  <2>2. "active" \in DOMAIN p /\ p.active = nodeOperators[id].active
    BY <1>1
  <2> HIDE DEF p
  <2>3. Limited(p).active = nodeOperators[id].active
    BY <2>2, ActiveKept DEF Activity
  <2> QED BY <2>1, <2>3, OneActive
<1>6. ASSUME NEW id \in Ids, NEW name \in Names, setNodeOperatorName(id, name) \/ setNodeOperatorRewardAddress(id, name)
      PROVE  ActiveOK'
  <2>1. /\ \/ nodeOperators' = [nodeOperators EXCEPT ![id].name = name]
           \/ nodeOperators' = [nodeOperators EXCEPT ![id].rewardAddress = name]
        /\ activeOperatorsCount' = activeOperatorsCount
    BY <1>6 DEF setNodeOperatorName, setNodeOperatorRewardAddress
  <2>2. Ids' = Ids
    BY <1>2, <2>1 DEF Ids
  <2>3. \A i \in Ids : nodeOperators'[i].active = nodeOperators[i].active
    BY <1>1, <1>2, <2>1
  <2> QED BY <2>1, <2>2, <2>3, SameActive
<1>7. ASSUME NEW range \in SUBSET Ids, invalidateReadyToDepositKeysRange(range) PROVE ActiveOK'
  <2> DEFINE D == {i \in range : nodeOperators[i].total # nodeOperators[i].deposited}
             cut(op) == [op EXCEPT !.total = op.deposited, !.vetted = op.deposited]
             new == [i \in D |-> Limited(cut(nodeOperators[i]))]
  <2>1. CASE UNCHANGED registryVars
    BY <2>1 DEF registryVars, ActiveOK, Active, Ids
  <2>2. CASE Store(new, {"total", "max"}) /\ activeOperatorsCount' = activeOperatorsCount
    <3>1. ASSUME NEW i \in D PROVE Limited(cut(nodeOperators[i])).active = nodeOperators[i].active
      <4> DEFINE p == cut(nodeOperators[i])
      <4>1. "active" \in DOMAIN p /\ p.active = nodeOperators[i].active
        BY <1>1
      <4> HIDE DEF p
      <4>2. Limited(p).active = nodeOperators[i].active
        BY <4>1, ActiveKept DEF Activity
      <4> QED BY <4>2 DEF p
    <3>2. \A i \in DOMAIN new \cap Ids : new[i].active = nodeOperators[i].active
      BY <3>1
    <3> HIDE DEF new
    <3> QED BY <2>2, <3>2, StoreActive
  <2> QED BY <1>7, <2>1, <2>2 DEF invalidateReadyToDepositKeysRange
<1> QED BY <1>3, <1>4, <1>5, <1>6, <1>7 DEF ManagerStep

LEMMA ReportsActive ==
  ASSUME RegInv, ActiveOK, ReportStep
  PROVE  ActiveOK'
<1>1. \A i \in Ids : "active" \in DOMAIN nodeOperators[i]
  BY StoredOperator, OperatorFields
<1>2. ASSUME NEW D \in SUBSET Ids, NEW report \in [D -> Nat], updateStuckValidatorsCount(report) PROVE ActiveOK'
  <2> DEFINE new == [i \in D |-> WithStuck(nodeOperators[i], report[i])]
  <2>1. Store(new, {"max"}) /\ activeOperatorsCount' = activeOperatorsCount
    BY <1>2 DEF updateStuckValidatorsCount
  <2>2. \A i \in DOMAIN new \cap Ids : new[i].active = nodeOperators[i].active
    BY <1>1, ActiveKept DEF Activity
  <2> HIDE DEF new
  <2> QED BY <2>1, <2>2, StoreActive
<1>3. ASSUME NEW D \in SUBSET Ids, NEW report \in [D -> Nat], updateExitedValidatorsCount(report) PROVE ActiveOK'
  <2> DEFINE new == [i \in D |-> WithExited(nodeOperators[i], report[i])]
  <2>1. Store(new, {"exited", "max"}) /\ activeOperatorsCount' = activeOperatorsCount
    BY <1>3 DEF updateExitedValidatorsCount
  <2>2. \A i \in DOMAIN new \cap Ids : new[i].active = nodeOperators[i].active
    BY <1>1, ActiveKept DEF Activity
  <2> HIDE DEF new
  <2> QED BY <2>1, <2>2, StoreActive
<1>4. ASSUME NEW id \in Ids, NEW count, updateRefundedValidatorsCount(id, count) PROVE ActiveOK'
  <2> DEFINE q == WithRefunded(nodeOperators[id], count)
  <2>1. Store(Only(id, q), {"max"}) /\ activeOperatorsCount' = activeOperatorsCount
    BY <1>4 DEF updateRefundedValidatorsCount
  <2>2. q.active = nodeOperators[id].active
    BY <1>1, ActiveKept DEF Activity
  <2> HIDE DEF q
  <2> QED BY <2>1, <2>2, OneActive
<1>5. ASSUME NEW id \in Ids, NEW count, NEW other, unsafeUpdateValidatorsCount(id, count, other) PROVE ActiveOK'
  <2> DEFINE first == WithStuck(nodeOperators[id], other)
             q == WithExited(first, count)
  <2>1. Store(Only(id, q), {"exited", "max"}) /\ activeOperatorsCount' = activeOperatorsCount
    BY <1>5 DEF unsafeUpdateValidatorsCount
  <2>2. "active" \in DOMAIN first /\ first.active = nodeOperators[id].active
    BY <1>1, ActiveKept DEF Activity
  <2> HIDE DEF first
  <2>3. q.active = nodeOperators[id].active
    BY <2>2, ActiveKept DEF Activity
  <2> HIDE DEF q
  <2> QED BY <2>1, <2>3, OneActive
<1>6. ASSUME NEW id \in Ids, NEW count, NEW on, updateTargetValidatorsLimits(id, on, count) PROVE ActiveOK'
  <2> DEFINE p == [nodeOperators[id] EXCEPT !.targetActive = on, !.target = IF on THEN count ELSE 0]
  <2>1. Store(Only(id, Limited(p)), {"max"}) /\ activeOperatorsCount' = activeOperatorsCount
    BY <1>6 DEF updateTargetValidatorsLimits
  <2>2. "active" \in DOMAIN p /\ p.active = nodeOperators[id].active
    BY <1>1
  <2> HIDE DEF p
  <2>3. Limited(p).active = nodeOperators[id].active
    BY <2>2, ActiveKept DEF Activity
  <2> QED BY <2>1, <2>3, OneActive
<1> QED BY <1>2, <1>3, <1>4, <1>5, <1>6 DEF ReportStep

LEMMA StepsActive ==
  ASSUME RegInv, ActiveOK, RegistryStep
  PROVE  ActiveOK'
<1>1. CASE DepositStep
  <2>1. PICK count \in Nat : obtainDepositData(count)
    BY <1>1 DEF DepositStep
  <2> DEFINE after == DepositedAfter(getSigningKeysAllocationData(count))
             used  == {i \in Depositable : after[i] # nodeOperators[i].deposited}
             new == [i \in used |-> Limited([nodeOperators[i] EXCEPT !.deposited = after[i]])]
  <2>2. Store(new, {"deposited", "max"}) /\ activeOperatorsCount' = activeOperatorsCount
    BY <2>1 DEF obtainDepositData
  <2> HIDE DEF after
  <2>3. ASSUME NEW i \in used PROVE Limited([nodeOperators[i] EXCEPT !.deposited = after[i]]).active = nodeOperators[i].active
    <3> DEFINE p == [nodeOperators[i] EXCEPT !.deposited = after[i]]
    <3>1. "active" \in DOMAIN nodeOperators[i]
      BY StoredOperator, OperatorFields DEF Depositable
    <3>2. "active" \in DOMAIN p /\ p.active = nodeOperators[i].active
      BY <3>1
    <3> HIDE DEF p
    <3>3. Limited(p).active = nodeOperators[i].active
      BY <3>2, ActiveKept DEF Activity
    <3> QED BY <3>3 DEF p
  <2>4. \A i \in DOMAIN new \cap Ids : new[i].active = nodeOperators[i].active
    BY <2>3
  <2> HIDE DEF new
  <2> QED BY <2>2, <2>4, StoreActive
<1>2. CASE IdleStep
  BY <1>2 DEF IdleStep, ActiveOK, Active, Ids
<1> QED BY <1>1, <1>2, OwnersActive, ManagersActive, ReportsActive DEF RegistryStep

LEMMA ActiveInit ==
  ASSUME Init
  PROVE  ActiveOK
<1>1. CASE initialize
  <2>1. Active = {} /\ activeOperatorsCount = 0
    BY <1>1 DEF initialize, Active, Ids
  <2> QED BY <2>1, FS_EmptySet DEF ActiveOK
<1>2. CASE finalizeUpgrade_v2
  BY <1>2 DEF finalizeUpgrade_v2, ActiveOK, Active
<1>3. CASE inOperation
  BY <1>3 DEF inOperation, ActiveOK, Active
<1> QED BY <1>1, <1>2, <1>3 DEF Init, RegistryInit

(* The sum by which deposits are sized is the room of the operators with   *)
(* keys to deposit.                                                        *)
LEMMA RoomIsDepositable ==
  ASSUME RegInv
  PROVE  summary.max - summary.deposited
           = SumOf([i \in Depositable |-> Counter("max")[i] - Counter("deposited")[i]], Depositable)
<1> DEFINE f == Counter("deposited")
           g == Counter("max")
           m == summary.max
           d == summary.deposited
           R == SumOf([i \in Depositable |-> g[i] - f[i]], Depositable)
<1>1. /\ m = SumOf(g, Ids) /\ d = SumOf(f, Ids)
  BY DEF RegInv, SummaryOK, Fields
<1>2. IsFiniteSet(Ids) /\ IsFiniteSet(Depositable) /\ Depositable \in SUBSET Ids
  BY IdsFinite, DepositableFacts DEF RegInv
<1>3. \A i \in Ids : f[i] \in Int /\ g[i] \in Int
  BY StoredOperator, OperatorFields DEF Counter
<1>4. \A i \in Ids \ Depositable : g[i] = f[i]
  BY DEF Counter, Depositable
<1> HIDE DEF f, g
<1>5. SumOf(g, Ids) = SumOf(f, Ids) + R
  BY ONLY <1>2, <1>3, <1>4, SumShift DEF R
<1>6. SumOf(f, Ids) \in Int
  BY ONLY <1>2, <1>3, SumType
<1>7. R \in Int
  <2>1. \A i \in Depositable : [j \in Depositable |-> g[j] - f[j]][i] \in Int
    BY <1>2, <1>3
  <2> QED BY ONLY <1>2, <2>1, SumType DEF R
<1> HIDE DEF R, m, d
<1>8. m - d = R
  BY ONLY <1>1, <1>5, <1>6, <1>7
<1> QED BY <1>8 DEF m, d, R, f, g

(***************************************************************************)
(* A deposit sized by the summary is always served: for any number of      *)
(* deposits up to what the summary shows, the arrays have room, the        *)
(* allocation gives out exactly that number, no operator passes its        *)
(* maximum, and one that receives ends at most one validator above any     *)
(* that still has room, whatever the operators, their counters and their   *)
(* number.                                                                 *)
(***************************************************************************)
THEOREM DepositsAreAlwaysServed == Spec => []DepositsAreServed
<1>1. ASSUME RegInv, ActiveOK PROVE DepositsAreServed
  <2> DEFINE b == [i \in Depositable |-> nodeOperators[i].deposited - nodeOperators[i].exited]
             c == [i \in Depositable |-> nodeOperators[i].max - nodeOperators[i].exited]
             room == [i \in Depositable |-> Counter("max")[i] - Counter("deposited")[i]]
             free == summary.max - summary.deposited
  <2>1. /\ Depositable \in SUBSET Ids /\ Numbers(Depositable) /\ IsFiniteSet(Depositable)
        /\ b \in [Depositable -> Nat] /\ c \in [Depositable -> Nat]
        /\ \A i \in Depositable : b[i] <= c[i]
        /\ \A i \in Depositable : nodeOperators[i].active = TRUE
    BY <1>1, DepositableFacts
  <2>2. \A i \in Depositable : /\ nodeOperators[i].exited \in Nat /\ nodeOperators[i].deposited \in Nat
                               /\ nodeOperators[i].max \in Nat
    BY <1>1, <2>1, StoredOperator, OperatorFields
  <2>3. /\ \A i \in Depositable : b[i] = nodeOperators[i].deposited - nodeOperators[i].exited
        /\ \A i \in Depositable : c[i] = nodeOperators[i].max - nodeOperators[i].exited
    OBVIOUS
  <2>4. \A i \in Depositable : room[i] = c[i] - b[i]
    BY <2>1, <2>2 DEF Counter
  <2>5. free = SumOf(room, Depositable) /\ free \in Int
    BY <1>1, RoomIsDepositable DEF RegInv, SummaryOK, Fields
  <2>6. Cardinality(Depositable) <= activeOperatorsCount
    <3>1. Depositable \subseteq Active
      BY <2>1 DEF Active
    <3> QED BY <1>1, <3>1, ActiveFinite, FS_Subset DEF ActiveOK
  <2>7. \A count : getSigningKeysAllocationData(count) = allocate(b, c, count)
    BY DEF getSigningKeysAllocationData
  <2> HIDE DEF b, c, room, free
  <2>8. ASSUME NEW count \in 1 .. free
        PROVE  LET after == getSigningKeysAllocationData(count).buckets
                   grows == {i \in Depositable : nodeOperators[i].exited + after[i] > nodeOperators[i].deposited}
               IN  /\ CanObtain(count)
                   /\ \A i \in Depositable : nodeOperators[i].exited + after[i] <= nodeOperators[i].max
                   /\ \A i \in grows, j \in Depositable :
                        nodeOperators[j].exited + after[j] < nodeOperators[j].max => after[i] <= after[j] + 1
    <3> DEFINE r == allocate(b, c, count)
               after == r.buckets
    <3>1. count \in Nat /\ count <= SumOf(room, Depositable)
      BY <2>5
    <3>2. /\ r.allocated = count /\ after \in [Depositable -> Nat]
          /\ \A i \in Depositable : b[i] <= after[i] /\ after[i] <= c[i]
          /\ \A i, j \in Depositable : after[i] > b[i] /\ after[j] < c[j] => after[i] <= after[j] + 1
      BY ONLY <2>1, <2>4, <3>1, AllocationServes
    <3>3. getSigningKeysAllocationData(count) = r
      BY <2>7
    <3> HIDE DEF r
    <3>4. CanObtain(count)
      BY <2>6, <3>2, <3>3 DEF CanObtain
    <3>5. \A i \in Depositable : nodeOperators[i].exited + after[i] <= nodeOperators[i].max
      BY <2>2, <2>3, <3>2
    <3>6. ASSUME NEW i \in Depositable, nodeOperators[i].exited + after[i] > nodeOperators[i].deposited,
                 NEW j \in Depositable, nodeOperators[j].exited + after[j] < nodeOperators[j].max
          PROVE  after[i] <= after[j] + 1
      <4>1. after[i] > b[i] /\ after[j] < c[j]
        BY <2>2, <2>3, <3>2, <3>6
      <4> QED BY <3>2, <4>1
    <3> QED BY <3>3, <3>4, <3>5, <3>6
  <2> QED BY <2>8 DEF DepositsAreServed, free
<1>2. RegInv /\ ProgramsOK /\ ActiveOK => DepositsAreServed
  BY <1>1
<1>3. Init => RegInv /\ ProgramsOK /\ ActiveOK
  BY InitOK, ProgramsInit, ActiveInit
<1>4. RegInv /\ ProgramsOK /\ ActiveOK /\ [Next]_vars => (RegInv /\ ProgramsOK /\ ActiveOK)'
  BY Steps, StepsKeep, StepsActive
<1> QED BY <1>2, <1>3, <1>4, PTL DEF Spec

-----------------------------------------------------------------------------
(* Attestations                                                            *)

(* The keys an attestation was made for are those on offer now.            *)
OnOffer(seen) ==
  \A i \in Ids : LET op == nodeOperators[i]
                 IN  op.deposited < op.vetted => seen[i] = SubSeq(signingKeys[i], op.deposited + 1, op.vetted)

Attested(n, seen) == n \in Nat /\ n <= nonce /\ (n = nonce => OnOffer(seen))

AttestationsOK ==
  /\ \A tx \in sent : Attested(tx.nonce, tx.seen)
  /\ {"at", "nonce", "seen"} \subseteq DOMAIN depositer
  /\ depositer.at \in {"block", "root"} => Attested(depositer.nonce, depositer.seen)

(* A step that leaves the nonce leaves what is on offer.                   *)
Quiet ==
  /\ nonce' = nonce
  /\ \A i \in Ids' :
       \/ nodeOperators'[i].deposited = nodeOperators'[i].vetted
       \/ /\ i \in Ids /\ signingKeys'[i] = signingKeys[i]
          /\ nodeOperators'[i].deposited = nodeOperators[i].deposited
          /\ nodeOperators'[i].vetted = nodeOperators[i].vetted

NonceRises == nonce' = nonce + 1

LEMMA NonceFollows ==
  ASSUME RegInv, RegistryStep
  PROVE  NonceRises \/ Quiet
<1>1. ASSUME Ids' = Ids, UNCHANGED <<signingKeys, nonce>>,
             \A i \in Ids : /\ nodeOperators'[i].deposited = nodeOperators[i].deposited
                            /\ nodeOperators'[i].vetted = nodeOperators[i].vetted
      PROVE  Quiet
  BY <1>1 DEF Quiet
<1>2. ASSUME UNCHANGED <<nodeOperators, signingKeys, nonce>> PROVE Quiet
  BY <1>1, <1>2 DEF Ids
<1>3. ASSUME UNCHANGED registryVars PROVE Quiet
  BY <1>2, <1>3 DEF registryVars
<1>4. nodeOperators \in [Ids -> NodeOperator] /\ Ids = 1 .. Len(nodeOperators)
  BY IdsFinite DEF RegInv
<1>5. \A i \in Ids : /\ nodeOperators[i] \in NodeOperator
                     /\ DOMAIN nodeOperators[i] = DOMAIN nodeOperators[i] \cup {"deposited", "vetted"}
  BY StoredOperator, OperatorFields
<1>6. ASSUME NEW name \in Names, NEW address \in Names, NEW caller, addNodeOperator(caller, name, address) PROVE Quiet
  <2> DEFINE op == NewOperator(name, address)
             n == Len(nodeOperators)
  <2>1. /\ nodeOperators \in Seq(NodeOperator) /\ signingKeys \in Seq(Seq(SigningKeys)) /\ Len(signingKeys) = n
        /\ n \in Nat /\ op \in NodeOperator /\ op.deposited = 0 /\ op.vetted = 0 /\ <<>> \in Seq(SigningKeys)
    BY IdsFinite, NewOperatorOK DEF RegInv, RegistryTypeOK
  <2>2. /\ nodeOperators' = Append(nodeOperators, op) /\ signingKeys' = Append(signingKeys, <<>>)
        /\ nonce' = nonce
    BY <1>6 DEF addNodeOperator
  <2> HIDE DEF op
  <2>3. /\ Len(nodeOperators') = n + 1 /\ nodeOperators'[n + 1] = op
        /\ \A i \in 1 .. n : nodeOperators'[i] = nodeOperators[i]
    BY <2>1, <2>2, AppendProperties
  <2>4. \A i \in 1 .. n : signingKeys'[i] = signingKeys[i]
    BY <2>1, <2>2, AppendProperties
  <2>5. Ids' = 1 .. n + 1 /\ Ids = 1 .. n
    BY <2>3, <1>4 DEF Ids
  <2> HIDE DEF n
  <2> QED BY <2>1, <2>2, <2>3, <2>4, <2>5 DEF Quiet
<1>7. ASSUME NEW id \in Ids, NEW name, setNodeOperatorName(id, name) \/ setNodeOperatorRewardAddress(id, name)
      PROVE  Quiet
  <2>1. /\ \/ nodeOperators' = [nodeOperators EXCEPT ![id].name = name]
           \/ nodeOperators' = [nodeOperators EXCEPT ![id].rewardAddress = name]
        /\ UNCHANGED <<signingKeys, nonce>>
    BY <1>7 DEF setNodeOperatorName, setNodeOperatorRewardAddress
  <2>2. Ids' = Ids
    BY <1>4, <2>1 DEF Ids
  <2>3. \A i \in Ids : /\ nodeOperators'[i].deposited = nodeOperators[i].deposited
                       /\ nodeOperators'[i].vetted = nodeOperators[i].vetted
    BY <1>4, <1>5, <2>1
  <2> QED BY <1>1, <2>1, <2>2, <2>3
<1>8. ASSUME NEW id \in Ids, NEW count \in Nat, updateRefundedValidatorsCount(id, count) PROVE Quiet
  <2> DEFINE op == nodeOperators[id]
             q == WithRefunded(op, count)
  <2>1. /\ Store(Only(id, q), {"max"}) /\ UNCHANGED <<signingKeys, nonce>>
        /\ count = op.refunded \/ count <= op.deposited
    BY <1>8 DEF updateRefundedValidatorsCount
  <2>2. op \in NodeOperator /\ Ordered(op) /\ MaximumOK(op)
    BY StoredOperator
  <2> HIDE DEF op
  <2>3. \A f \in DOMAIN op \ {"max", "refunded", "penaltyEnd"} : q[f] = op[f]
    BY <2>1, <2>2, WithRefundedOK
  <2>4. q.deposited = op.deposited /\ q.vetted = op.vetted
    BY <2>2, <2>3, OperatorFields
  <2> HIDE DEF q
  <2>5. DOMAIN Only(id, q) = {id} /\ Only(id, q)[id] = q
    BY DEF Only
  <2>6. Ids' = Ids /\ \A i \in Ids : nodeOperators'[i] = IF i \in {id} THEN q ELSE nodeOperators[i]
    BY <2>1, <2>5, StoreIds
  <2> QED BY <1>1, <2>1, <2>4, <2>6 DEF op
<1>9. CASE OwnersStep
  <2>1. PICK caller \in owners :
           \/ \E name, address \in Names : addNodeOperator(caller, name, address)
           \/ \E id \in Ids, limit \in Nat : setNodeOperatorStakingLimit(caller, id, limit)
           \/ \E id \in Ids, added \in Seq(SigningKeys) : addSigningKeys(caller, id, added)
           \/ \E id \in Ids, from, count \in Nat : removeSigningKeys(caller, id, from, count)
    BY <1>9 DEF OwnersStep
  <2>2. ASSUME NEW id \in Ids, NEW limit \in Nat, setNodeOperatorStakingLimit(caller, id, limit)
        PROVE  NonceRises \/ Quiet
    BY <1>3, <2>2 DEF setNodeOperatorStakingLimit, increaseValidatorsKeysNonce, NonceRises
  <2>3. ASSUME NEW id \in Ids, NEW added \in Seq(SigningKeys), addSigningKeys(caller, id, added)
        PROVE  NonceRises
    BY <2>3 DEF addSigningKeys, increaseValidatorsKeysNonce, NonceRises
  <2>4. ASSUME NEW id \in Ids, NEW from \in Nat, NEW count \in Nat, removeSigningKeys(caller, id, from, count)
        PROVE  NonceRises \/ Quiet
    BY <1>3, <2>4 DEF removeSigningKeys, increaseValidatorsKeysNonce, NonceRises
  <2> QED BY <1>6, <2>1, <2>2, <2>3, <2>4
<1>10. CASE ManagerStep
  <2>1. ASSUME NEW id \in Ids, activateNodeOperator(id) \/ deactivateNodeOperator(id) \/ clearNodeOperatorPenalty(id)
        PROVE  NonceRises
    BY <2>1 DEF activateNodeOperator, deactivateNodeOperator, clearNodeOperatorPenalty, increaseValidatorsKeysNonce, NonceRises
  <2>2. ASSUME NEW range \in SUBSET Ids, invalidateReadyToDepositKeysRange(range)
        PROVE  NonceRises \/ Quiet
    BY <1>3, <2>2 DEF invalidateReadyToDepositKeysRange, increaseValidatorsKeysNonce, NonceRises
  <2> QED BY <1>7, <1>10, <2>1, <2>2 DEF ManagerStep
<1>11. CASE ReportStep
  <2>1. ASSUME NEW report, updateStuckValidatorsCount(report) \/ updateExitedValidatorsCount(report)
        PROVE  NonceRises
    BY <2>1 DEF updateStuckValidatorsCount, updateExitedValidatorsCount, increaseValidatorsKeysNonce, NonceRises
  <2>2. ASSUME NEW id, NEW count, NEW other, NEW on,
               unsafeUpdateValidatorsCount(id, count, other) \/ updateTargetValidatorsLimits(id, on, count)
        PROVE  NonceRises
    BY <2>2 DEF unsafeUpdateValidatorsCount, updateTargetValidatorsLimits, increaseValidatorsKeysNonce, NonceRises
  <2> QED BY <1>8, <1>11, <2>1, <2>2 DEF ReportStep
<1>12. CASE DepositStep
  BY <1>12 DEF DepositStep, obtainDepositData, increaseValidatorsKeysNonce, NonceRises
<1>13. CASE IdleStep
  BY <1>2, <1>13 DEF IdleStep
<1> QED BY <1>9, <1>10, <1>11, <1>12, <1>13 DEF RegistryStep

(* So an attestation stays good while its nonce is current.                *)
LEMMA AttestedStays ==
  ASSUME RegInv, RegistryStep, NEW n, NEW seen, Attested(n, seen)
  PROVE  n \in Nat /\ n <= nonce' /\ (n = nonce' => OnOffer(seen)')
<1>1. nonce \in Nat
  BY DEF RegInv, RegistryTypeOK
<1>2. CASE NonceRises
  BY <1>1, <1>2 DEF NonceRises, Attested
<1>3. CASE Quiet
  <2>1. OnOffer(seen) => OnOffer(seen)'
    <3>1. SUFFICES ASSUME OnOffer(seen), NEW i \in Ids', nodeOperators'[i].deposited < nodeOperators'[i].vetted
                   PROVE  seen[i] = SubSeq(signingKeys'[i], nodeOperators'[i].deposited + 1, nodeOperators'[i].vetted)
      BY DEF OnOffer
    <3>2. nodeOperators'[i].deposited \in Nat
      <4>1. nodeOperators' \in Seq(NodeOperator) /\ Ids' = 1 .. Len(nodeOperators')
        BY StepsKeep DEF RegInv, RegistryTypeOK, Ids
      <4>2. nodeOperators'[i] \in NodeOperator
        BY <4>1, ElementOfSeq
      <4> QED BY <4>2, OperatorFields
    <3> QED BY <1>3, <3>1, <3>2 DEF OnOffer, Quiet
  <2> QED BY <1>1, <1>3, <2>1 DEF Quiet, Attested
<1> QED BY <1>2, <1>3, NonceFollows

(* Nothing else touches the depositer and its transactions.                *)
LEMMA DepositersVariables ==
  ASSUME [Next]_vars, ~ DepositerStep
  PROVE  UNCHANGED depositerVars
<1>1. CASE Call
  <2>1. PICK name \in CallsOf[scene] :
           \/ RegistryCalls(name) /\ UNCHANGED programVars
           \/ SecurityCalls(name) /\ UNCHANGED <<registryVars, others>>
           \/ /\ PoolCalls(name)
              /\ UNCHANGED <<nodeOperators, signingKeys, summary, nonce, activeOperatorsCount, owners, now, listening, approved>>
              /\ UNCHANGED <<securityVars, depositerVars, tasksVars, imageVars, scene>>
           \/ LedgerCalls(name) /\ UNCHANGED <<registryVars, securityVars, depositerVars, appVars, tasksVars, scene>>
    BY <1>1 DEF Call
  <2> QED BY <2>1 DEF programVars, others, depositerVars
<1>2. CASE Tick \/ AppStep \/ TaskStep \/ ImageStep \/ UNCHANGED vars
  BY <1>2 DEF Tick, AppStep, TaskStep, ImageStep, vars, programVars, depositerVars
<1> QED BY <1>1, <1>2 DEF Next

(* What a step does to the depositer and its transactions.                 *)
LEMMA AttestationsStay ==
  ASSUME RegInv, ProgramsOK, AttestationsOK, [Next]_vars
  PROVE  AttestationsOK'
<1>1. RegistryStep
  BY Steps
<1>2. \A n, seen : Attested(n, seen) => Attested(n, seen)'
  <2>1. SUFFICES ASSUME NEW n, NEW seen, Attested(n, seen)
                 PROVE  n \in Nat /\ n <= nonce' /\ (n = nonce' => OnOffer(seen)')
    BY DEF Attested
  <2> QED BY <1>1, <2>1, AttestedStays
<1>3. ASSUME NEW tx \in sent PROVE Attested(tx.nonce, tx.seen)'
  BY <1>2 DEF AttestationsOK
<1>4. ASSUME depositer' = depositer, depositer.at \in {"block", "root"}
      PROVE  Attested(depositer.nonce, depositer.seen)'
  BY <1>2, <1>4 DEF AttestationsOK
<1>5. ASSUME sent' \subseteq sent, depositer' = depositer PROVE AttestationsOK'
  <2>1. \A tx \in sent' : Attested(tx.nonce, tx.seen)'
    BY <1>3, <1>5
  <2>2. {"at", "nonce", "seen"} \subseteq DOMAIN depositer'
    BY <1>5 DEF AttestationsOK
  <2>3. depositer'.at \in {"block", "root"} => Attested(depositer.nonce, depositer.seen)'
    BY <1>4, <1>5
  <2> QED BY <2>1, <2>2, <2>3 DEF AttestationsOK
<1>6. CASE UNCHANGED depositerVars
  BY <1>5, <1>6 DEF depositerVars
<1>7. ASSUME UNCHANGED registryVars PROVE \A n, seen : Attested(n, seen)' <=> Attested(n, seen)
  BY <1>7 DEF registryVars, Attested, OnOffer, Ids
<1>8. CASE UNCHANGED registryVars /\ ReadNonce
  <2>1. /\ depositer' = [depositer EXCEPT !.at = "block", !.nonce = nonce, !.seen = KeysOnOffer]
        /\ sent' = sent
    BY <1>8 DEF ReadNonce
  <2>2. {"at", "nonce", "seen"} \subseteq DOMAIN depositer
    BY DEF AttestationsOK
  <2>3. /\ depositer'.nonce = nonce /\ depositer'.seen = KeysOnOffer
        /\ {"at", "nonce", "seen"} \subseteq DOMAIN depositer'
    BY <2>1, <2>2
  <2>4. Attested(nonce, KeysOnOffer)
    <3>1. nonce \in Nat
      BY DEF RegInv, RegistryTypeOK
    <3>2. \A i \in Ids : KeysOnOffer[i] = SubSeq(signingKeys[i], nodeOperators[i].deposited + 1, nodeOperators[i].vetted)
      BY DEF KeysOnOffer
    <3>3. OnOffer(KeysOnOffer)
      BY <3>2 DEF OnOffer
    <3> QED BY <3>1, <3>3 DEF Attested
  <2>5. Attested(depositer.nonce, depositer.seen)'
    BY <1>7, <1>8, <2>3, <2>4
  <2>6. \A tx \in sent' : Attested(tx.nonce, tx.seen)'
    BY <1>3, <2>1
  <2> QED BY <2>3, <2>5, <2>6 DEF AttestationsOK
<1>9. CASE UNCHANGED registryVars /\ ReadLatestBlock
  <2>1. /\ depositer' = [depositer EXCEPT !.at = "root", !.block = now - 1]
        /\ sent' = sent /\ depositer.at = "block"
    BY <1>9 DEF ReadLatestBlock
  <2>2. {"at", "nonce", "seen"} \subseteq DOMAIN depositer /\ Attested(depositer.nonce, depositer.seen)
    BY <2>1 DEF AttestationsOK
  <2>3. /\ depositer'.nonce = depositer.nonce /\ depositer'.seen = depositer.seen
        /\ {"at", "nonce", "seen"} \subseteq DOMAIN depositer'
    BY <2>1, <2>2
  <2>5. Attested(depositer.nonce, depositer.seen)'
    BY <1>7, <1>9, <2>2, <2>3
  <2>6. \A tx \in sent' : Attested(tx.nonce, tx.seen)'
    BY <1>3, <2>1
  <2> QED BY <2>3, <2>5, <2>6 DEF AttestationsOK
<1>10. CASE UNCHANGED registryVars /\ ReadRootAndSend
  <2> DEFINE tx == [nonce |-> depositer.nonce, block |-> depositer.block, root |-> depositRoot,
                    signers |-> {Deployer}, seen |-> depositer.seen]
  <2>1. /\ depositer' = [depositer EXCEPT !.at = "done", !.nonce = 0, !.block = 0, !.seen = <<>>]
        /\ sent' = sent \cup {tx} /\ depositer.at = "root"
    BY <1>10 DEF ReadRootAndSend
  <2>2. {"at", "nonce", "seen"} \subseteq DOMAIN depositer /\ Attested(depositer.nonce, depositer.seen)
    BY <2>1 DEF AttestationsOK
  <2>3. depositer'.at = "done" /\ {"at", "nonce", "seen"} \subseteq DOMAIN depositer'
    BY <2>1, <2>2
  <2>4. tx.nonce = depositer.nonce /\ tx.seen = depositer.seen
    OBVIOUS
  <2> HIDE DEF tx
  <2>5. ASSUME NEW t \in sent' PROVE Attested(t.nonce, t.seen)'
    BY <1>3, <1>7, <1>10, <2>1, <2>2, <2>4
  <2> QED BY <2>3, <2>5 DEF AttestationsOK
<1>11. CASE UNCHANGED registryVars /\ RunDepositerAgain
  <2>1. /\ depositer' = [at |-> "nonce", runs |-> depositer.runs + 1, nonce |-> 0, block |-> 0, seen |-> <<>>]
        /\ sent' = sent
    BY <1>11 DEF RunDepositerAgain
  <2>2. depositer'.at = "nonce" /\ {"at", "nonce", "seen"} \subseteq DOMAIN depositer'
    BY <2>1
  <2>3. \A tx \in sent' : Attested(tx.nonce, tx.seen)'
    BY <1>3, <2>1
  <2> QED BY <2>2, <2>3 DEF AttestationsOK
<1>12. CASE DepositerStep
  <2>1. CASE \E tx \in sent : MineDeposit(tx)
    BY <1>5, <2>1 DEF MineDeposit
  <2> QED BY <1>8, <1>9, <1>10, <1>11, <1>12, <2>1 DEF DepositerStep
<1>13. [Next]_vars /\ ~ DepositerStep => UNCHANGED depositerVars
  BY DepositersVariables
<1> QED BY <1>6, <1>12, <1>13
LEMMA PrefixOfOffer ==
  ASSUME NEW S, NEW s \in Seq(S), NEW d \in Nat, NEW e \in Nat, NEW v \in Nat,
         d < e, e <= v, v <= Len(s)
  PROVE  IsPrefix(SubSeq(s, d + 1, e), SubSeq(s, d + 1, v))
<1> DEFINE a == SubSeq(s, d + 1, e)
           b == SubSeq(s, d + 1, v)
<1>1. Len(s) \in Nat /\ \A i \in 1 .. Len(s) : s[i] \in S
  BY SeqFacts
<1>2. a \in Seq(S) /\ Len(a) = e - d
  <2>1. \A i \in d + 1 .. e : s[i] \in S
    BY <1>1
  <2> QED BY <2>1, SubSeqProperties
<1>3. Len(b) = v - d
  <2>1. \A i \in d + 1 .. v : s[i] \in S
    BY <1>1
  <2> QED BY <2>1, SubSeqProperties
<1>4. SubSeq(a, 1, Len(a)) = a
  BY <1>2, SubSeqFull
<1>5. SubSeq(b, 1, e - d) = SubSeq(s, d + 1, e)
  <2> DEFINE i == d + 1
             n == e - d
  <2>1. /\ i \in 1 .. Len(s) /\ v \in 1 .. Len(s) /\ 1 \in 1 .. v - i + 1 /\ n \in 1 .. v - i + 1
        /\ i + 1 - 1 = d + 1 /\ i + n - 1 = e
    BY <1>1
  <2> HIDE DEF i, n
  <2>2. SubSeq(SubSeq(s, i, v), 1, n) = SubSeq(s, i + 1 - 1, i + n - 1)
    BY <2>1, SubSeqOfSubSeq
  <2> QED BY <2>1, <2>2 DEF i, n
<1> HIDE DEF a, b
<1>6. IsPrefix(a, b)
  <2>1. SubSeq(b, 1, Len(a)) = a
    BY <1>2, <1>5 DEF a
  <2> QED BY <1>2, <1>3, <1>4, <2>1 DEF IsPrefix
<1> QED BY <1>6 DEF a, b

(* An accepted deposit takes keys that are on offer.                       *)
LEMMA DepositTakes ==
  ASSUME RegInv, NEW count \in Nat, obtainDepositData(count), NEW i \in Ids,
         nodeOperators'[i].deposited > nodeOperators[i].deposited
  PROVE  /\ nodeOperators[i].deposited \in Nat /\ nodeOperators'[i].deposited \in Nat
         /\ nodeOperators[i].vetted \in Nat
         /\ nodeOperators'[i].deposited <= nodeOperators[i].vetted
<1> DEFINE after == DepositedAfter(getSigningKeysAllocationData(count))
           used  == {j \in Depositable : after[j] # nodeOperators[j].deposited}
           p == [nodeOperators[i] EXCEPT !.deposited = after[i]]
           new == [j \in used |-> Limited([nodeOperators[j] EXCEPT !.deposited = after[j]])]
<1>1. Store(new, {"deposited", "max"})
  BY DEF obtainDepositData
<1> HIDE DEF after
<1>2. Ids' = Ids /\ nodeOperators'[i] = IF i \in DOMAIN new THEN new[i] ELSE nodeOperators[i]
  <2> HIDE DEF new
  <2> QED BY <1>1, StoreIds
<1>3. nodeOperators[i] \in NodeOperator
  BY StoredOperator
<1>4. nodeOperators'[i].vetted = nodeOperators[i].vetted
  <2>1. "vetted" \in DOMAIN p /\ p.vetted = nodeOperators[i].vetted
    BY <1>3, OperatorFields
  <2>2. i \in used => new[i] = Limited(p)
    OBVIOUS
  <2>3. DOMAIN new = used
    OBVIOUS
  <2> HIDE DEF p, new, used
  <2>4. Limited(p).vetted = p.vetted
    BY <2>1 DEF Limited
  <2> QED BY <1>2, <2>1, <2>2, <2>3, <2>4
<1>5. nodeOperators'[i] \in NodeOperator /\ Ordered(nodeOperators'[i])
  <2>1. RegInv'
    BY ObtainStep
  <2>2. /\ nodeOperators' \in Seq(NodeOperator) /\ Ids' = 1 .. Len(nodeOperators')
        /\ \A j \in Ids' : Ordered(nodeOperators'[j])
    BY <2>1 DEF RegInv, RegistryTypeOK, OperatorsOK, Ordered, Ids
  <2> QED BY <1>2, <2>2, ElementOfSeq
<1> QED BY <1>3, <1>4, <1>5, OperatorFields DEF Ordered

(***************************************************************************)
(* Whatever happens between the reads of the depositer and the block that  *)
(* takes its transaction, the deposit takes keys that were on offer, in the*)
(* same order, when it read the nonce: each call that changes the keys or  *)
(* their approval raises the nonce, so that the transaction reverts.       *)
(***************************************************************************)
THEOREM DepositsAreAttested == Spec => AttestedKeysDeposited
<1> DEFINE Step == \A tx \in sent \ sent' : \A i \in Ids :
                     LET before == nodeOperators[i].deposited
                     IN  nodeOperators'[i].deposited > before
                           => IsPrefix(SubSeq(signingKeys[i], before + 1, nodeOperators'[i].deposited), tx.seen[i])
           Inv == RegInv /\ ProgramsOK /\ AttestationsOK
<1>1. ASSUME Inv, [Next]_vars PROVE Step
  <2>1. SUFFICES ASSUME NEW tx \in sent \ sent', NEW i \in Ids,
                        nodeOperators'[i].deposited > nodeOperators[i].deposited
                 PROVE  IsPrefix(SubSeq(signingKeys[i], nodeOperators[i].deposited + 1, nodeOperators'[i].deposited),
                                 tx.seen[i])
    OBVIOUS
  <2>2. DepositerStep
    BY <1>1, DepositersVariables DEF depositerVars
  <2>3. MineDeposit(tx)
    <3>1. PICK t \in sent : MineDeposit(t)
      BY <2>2 DEF DepositerStep, ReadNonce, ReadLatestBlock, ReadRootAndSend, RunDepositerAgain
    <3>2. t = tx
      BY <3>1 DEF MineDeposit
    <3> QED BY <3>1, <3>2
  <2>4. nodeOperators[i].deposited \in Nat
    BY <1>1, StoredOperator, OperatorFields
  <2>5. Accepts(tx) /\ DepositsCount # 0 /\ obtainDepositData(DepositsCount)
    <3>1. nodeOperators' # nodeOperators
      BY <2>1, <2>4
    <3> QED BY <2>3, <3>1 DEF MineDeposit, depositBufferedAce, deposit, registryVars
  <2>6. DepositsCount \in Nat
    BY <1>1, DepositsAreCounted DEF ProgramsOK
  <2>7. /\ nodeOperators[i].deposited \in Nat /\ nodeOperators'[i].deposited \in Nat
        /\ nodeOperators[i].vetted \in Nat
        /\ nodeOperators'[i].deposited <= nodeOperators[i].vetted
    BY <1>1, <2>1, <2>5, <2>6, DepositTakes
  <2>8. tx.seen[i] = SubSeq(signingKeys[i], nodeOperators[i].deposited + 1, nodeOperators[i].vetted)
    <3>1. Attested(tx.nonce, tx.seen) /\ tx.nonce = nonce
      BY <1>1, <2>1, <2>5 DEF AttestationsOK, Accepts
    <3> QED BY <2>1, <2>7, <3>1 DEF Attested, OnOffer
  <2>9. signingKeys[i] \in Seq(SigningKeys) /\ nodeOperators[i].vetted <= Len(signingKeys[i])
    <3>1. /\ signingKeys[i] \in Seq(SigningKeys) /\ Len(signingKeys[i]) = nodeOperators[i].total
      BY <1>1, StoredKeys
    <3>2. nodeOperators[i] \in NodeOperator /\ Ordered(nodeOperators[i])
      BY <1>1, StoredOperator
    <3> QED BY <3>1, <3>2 DEF Ordered
  <2> QED BY <2>1, <2>7, <2>8, <2>9, PrefixOfOffer
<1>2. Inv /\ [Next]_vars => Step
  BY <1>1
<1>3. Init => Inv
  <2>1. ASSUME Init PROVE AttestationsOK
    <3>1. sent = {} /\ depositer = [at |-> "nonce", runs |-> 1, nonce |-> 0, block |-> 0, seen |-> <<>>]
      BY <2>1 DEF Init, DepositerInit
    <3> QED BY <3>1 DEF AttestationsOK
  <2> QED BY <2>1, InitOK, ProgramsInit
<1>4. Inv /\ [Next]_vars => Inv'
  BY Steps, StepsKeep, AttestationsStay
<1>5. AttestedKeysDeposited <=> [][Step]_<<registryVars, depositerVars>>
  BY DEF AttestedKeysDeposited
<1> HIDE DEF Step, Inv
<1>6. [Next]_vars /\ Step => [Step]_<<registryVars, depositerVars>>
  OBVIOUS
<1> QED BY <1>2, <1>3, <1>4, <1>5, <1>6, PTL DEF Spec

-----------------------------------------------------------------------------
(* The keys of the file                                                    *)

(* The file from where the task starts to the end of part m.               *)
Upto(start, size, m) == SubSeq(File, start + 1, Math256_min(start + size * m, Len(File)))

(* The transactions of an add-keys program are the parts of the file.      *)
PartsOfFile(plan, start, size) ==
  \A k \in DOMAIN plan : /\ plan[k].function = "addSigningKeys"
                         /\ plan[k].args[2] = Spliced(start + size * (k - 1), size)
                         /\ plan[k].args[2] # <<>>

LEMMA NextPart ==
  ASSUME NEW start \in Nat, NEW size \in Nat, NEW m \in Nat, Spliced(start + size * m, size) # <<>>
  PROVE  /\ start + size * m < Len(File)
         /\ Upto(start, size, m) \o Spliced(start + size * m, size) = Upto(start, size, m + 1)
<1> DEFINE at == start + size * m
<1>1. size * m \in Nat /\ size * (m + 1) = size * m + size
  OBVIOUS
<1>2. at \in Nat /\ start <= at /\ start + size * (m + 1) = at + size
  BY <1>1
<1>3. File \in Seq(SigningKeys) /\ Len(File) \in Nat
  BY FileAssumption
<1>4. Upto(start, size, m) = SubSeq(File, start + 1, Math256_min(at, Len(File)))
  BY DEF Upto
<1>5. Upto(start, size, m + 1) = SubSeq(File, start + 1, Math256_min(at + size, Len(File)))
  BY <1>2 DEF Upto
<1>6. Spliced(at, size) # <<>>
  OBVIOUS
<1> HIDE DEF at
<1> DEFINE last == Math256_min(at + size, Len(File))
<1>7. Spliced(at, size) = SubSeq(File, at + 1, last)
  BY DEF Spliced
<1>8. last \in Nat /\ last <= Len(File) /\ last <= at + size
  BY <1>2, <1>3 DEF Math256_min
<1>9. at + 1 <= last
  BY <1>2, <1>6, <1>7, <1>8, SubSeqEmpty
<1>10. at < Len(File) /\ Math256_min(at, Len(File)) = at
  BY <1>2, <1>3, <1>8, <1>9 DEF Math256_min
<1>11. SubSeq(File, start + 1, at) \o SubSeq(File, at + 1, last) = SubSeq(File, start + 1, last)
  <2>1. start + 1 \in 1 .. Len(File) + 1 /\ at \in (start + 1) - 1 .. Len(File) /\ last \in at .. Len(File)
    BY <1>2, <1>3, <1>8, <1>9, <1>10
  <2> HIDE DEF last
  <2> QED BY ONLY <1>3, <2>1, ConcatAdjacentSubSeq
<1> QED BY <1>4, <1>5, <1>7, <1>10, <1>11 DEF at

(* A program that adds keys takes the parts of the file in their order, up *)
(* to the first empty one.                                                 *)
LEMMA FileInParts ==
  ASSUME NEW plan \in Programs, AddsKeys(plan)
  PROVE  \E start, size \in Nat : PartsOfFile(plan, start, size)
<1>1. PICK start, count \in 0 .. Len(File) : plan = addKeys(plan[1].args[1], start, count, Len(plan))
  BY FileAssumption
<1> DEFINE operator == plan[1].args[1]
           size     == IF count = 0 THEN Len(File) ELSE count
           part     == [i \in 1 .. Len(plan) |-> SpliceOf(start, size, i - 1)]
           first    == {i \in 1 .. Len(plan) : part[i] = <<>>}
           last     == IF first = {} THEN Len(plan) ELSE Min(first) - 1
<1>2. plan = [i \in 1 .. last |-> Registry("addSigningKeys", <<operator, part[i]>>)]
  BY <1>1 DEF addKeys
<1>3. Len(File) \in Nat /\ start \in Nat /\ count \in Nat /\ size \in Nat
  BY FileAssumption
<1>4. Len(plan) \in Nat
  BY TasksAssumption
<1>5. last \in Int /\ last <= Len(plan) /\ \A i \in 1 .. last : i \notin first
  <2>1. CASE first = {}
    <3> HIDE DEF first
    <3> QED BY <1>4, <2>1
  <2>2. CASE first # {}
    <3>1. first \in SUBSET Nat
      BY <1>4
    <3>2. Min(first) \in first /\ \A i \in first : Min(first) <= i
      BY <2>2, <3>1, MinFacts
    <3>3. Min(first) \in 1 .. Len(plan)
      BY <3>2
    <3> HIDE DEF first
    <3> QED BY <1>4, <2>2, <3>1, <3>2, <3>3
  <2> QED BY <2>1, <2>2
<1>6. ASSUME NEW k \in DOMAIN plan
      PROVE  /\ plan[k].function = "addSigningKeys"
             /\ plan[k].args[2] = Spliced(start + size * (k - 1), size)
             /\ plan[k].args[2] # <<>>
  <2>1. k \in 1 .. last /\ plan[k] = Registry("addSigningKeys", <<operator, part[k]>>)
    BY <1>2
  <2>2. k \in 1 .. Len(plan) /\ k \notin first
    <3>1. k \in 1 .. last
      BY <2>1
    <3> HIDE DEF last, first, part
    <3> QED BY <1>4, <1>5, <3>1
  <2>3. part[k] = Spliced(start + size * (k - 1), size) /\ part[k] # <<>>
    BY <2>2 DEF SpliceOf
  <2>4. plan[k].function = "addSigningKeys" /\ plan[k].args[2] = part[k]
    BY <2>1 DEF Registry, Transaction
  <2> HIDE DEF part
  <2> QED BY <2>3, <2>4
<1> QED BY <1>3, <1>6 DEF PartsOfFile

(* In the first run, what is mined or waits is what was sent, in order;    *)
(* as long as nothing reverted the keys added are the parts mined.         *)
Mined1 == program.sent - Len(pending)

MinedParts(plan, m, added) ==
  IF AddsKeys(plan)
  THEN \E start, size \in Nat : PartsOfFile(plan, start, size) /\ added = Upto(start, size, m)
  ELSE added = <<>>

FirstRunOK ==
  /\ Len(pending) <= program.sent /\ program.sent <= Len(program.plan)
  /\ \A k \in 1 .. Len(pending) : pending[k] = program.plan[Mined1 + k]
  /\ outcome.reverts = 0 => MinedParts(program.plan, Mined1, outcome.added)

FileInv ==
  /\ program.runs >= 1
  /\ outcome \in [reverts : Nat, added : Seq(SigningKeys)]
  /\ program.runs = 1 => FirstRunOK

LEMMA PlanFacts ==
  ASSUME ProgramsOK
  PROVE  /\ program.plan \in Seq(Transactions) /\ Len(program.plan) \in Nat
         /\ DOMAIN program.plan = 1 .. Len(program.plan)
         /\ program.sent \in Nat /\ program.runs \in Int
         /\ pending \in Seq(Transactions) /\ Len(pending) \in Nat
         /\ program.plan \in Programs \cup {<<>>}
<1>1. Programs \subseteq Seq(Transactions) /\ <<>> \in Seq(Transactions)
  BY TasksAssumption
<1>2. program.plan \in Seq(Transactions) /\ pending \in Seq(Transactions)
  BY <1>1 DEF ProgramsOK
<1> QED BY <1>2, LenProperties DEF ProgramsOK

LEMMA EmptyPart == ASSUME NEW start \in Nat, NEW size \in Nat PROVE Upto(start, size, 0) = <<>>
<1>1. start + size * 0 = start /\ Len(File) \in Nat
  BY FileAssumption
<1>2. Upto(start, size, 0) = SubSeq(File, start + 1, Math256_min(start, Len(File)))
  BY <1>1 DEF Upto
<1>3. Math256_min(start, Len(File)) \in Int /\ Math256_min(start, Len(File)) < start + 1
  BY <1>1 DEF Math256_min
<1> QED BY <1>2, <1>3, SubSeqEmpty

LEMMA NothingMined ==
  ASSUME NEW plan \in Programs \cup {<<>>}
  PROVE  MinedParts(plan, 0, <<>>)
<1>1. CASE AddsKeys(plan)
  <2>1. plan \in Programs
    BY <1>1 DEF AddsKeys
  <2>2. PICK start, size \in Nat : PartsOfFile(plan, start, size)
    BY <1>1, <2>1, FileInParts
  <2> QED BY <1>1, <2>2, EmptyPart DEF MinedParts
<1>2. CASE ~ AddsKeys(plan)
  BY <1>2 DEF MinedParts
<1> QED BY <1>1, <1>2

LEMMA FileInit ==
  ASSUME Init
  PROVE  FileInv
<1>1. PICK plan \in Programs \cup {<<>>} : program = [plan |-> plan, sent |-> 0, runs |-> 1]
  BY DEF Init, TasksInit
<1>2. pending = <<>> /\ outcome = [reverts |-> 0, added |-> <<>>] /\ Len(pending) = 0
  BY DEF Init, TasksInit
<1>3. plan \in Seq(Transactions) /\ Len(plan) \in Nat
  <2>1. Programs \subseteq Seq(Transactions) /\ <<>> \in Seq(Transactions)
    BY TasksAssumption
  <2>2. plan \in Seq(Transactions)
    BY <1>1, <2>1
  <2> QED BY <2>2, LenProperties
<1>4. Mined1 = 0
  BY <1>1, <1>2 DEF Mined1
<1>5. MinedParts(plan, 0, <<>>)
  BY NothingMined
<1> QED BY <1>1, <1>2, <1>3, <1>4, <1>5 DEF FileInv, FirstRunOK

(* The head of what waits is mined and goes through.                       *)
LEMMA MinedOne ==
  ASSUME ProgramsOK, FileInv, program.runs = 1, Mine
  PROVE  FileInv'
<1>1. /\ pending # <<>> /\ pending' = Tail(pending) /\ program' = program
      /\ Mined(Head(pending))
  BY DEF Mine
<1> DEFINE tx == Head(pending)
<1>2. /\ program.plan \in Seq(Transactions) /\ Len(program.plan) \in Nat
      /\ DOMAIN program.plan = 1 .. Len(program.plan)
      /\ program.sent \in Nat /\ pending \in Seq(Transactions) /\ Len(pending) \in Nat
      /\ program.plan \in Programs \cup {<<>>}
  BY PlanFacts
<1>3. /\ Len(pending) > 0 /\ tx = pending[1] /\ tx \in Transactions
      /\ Tail(pending) \in Seq(Transactions) /\ Len(Tail(pending)) = Len(pending) - 1
      /\ \A k \in 1 .. Len(pending) - 1 : Tail(pending)[k] = pending[k + 1]
  <2>1. Len(pending) > 0
    BY <1>1, <1>2, EmptySeq
  <2> QED BY <1>1, <1>2, <2>1, HeadTailProperties
<1>4. /\ Len(pending) <= program.sent /\ program.sent <= Len(program.plan)
      /\ \A k \in 1 .. Len(pending) : pending[k] = program.plan[Mined1 + k]
      /\ outcome.reverts = 0 => MinedParts(program.plan, Mined1, outcome.added)
      /\ outcome \in [reverts : Nat, added : Seq(SigningKeys)]
  BY DEF FileInv, FirstRunOK
<1>5. Mined1 \in Nat /\ Mined1' = Mined1 + 1 /\ Mined1 + 1 <= Len(program.plan) /\ Mined1 + 1 \in DOMAIN program.plan
  BY <1>1, <1>2, <1>3, <1>4 DEF Mined1
<1>6. tx = program.plan[Mined1 + 1]
  BY <1>3, <1>4
<1>7. \A k \in 1 .. Len(pending') : pending'[k] = program'.plan[Mined1' + k]
  <2>1. ASSUME NEW k \in 1 .. Len(pending) - 1
        PROVE  Tail(pending)[k] = program.plan[Mined1 + 1 + k]
    <3>1. k + 1 \in 1 .. Len(pending) /\ Mined1 + (k + 1) = Mined1 + 1 + k
      BY <1>2, <1>5
    <3> QED BY <1>3, <1>4, <3>1
  <2> QED BY <1>1, <1>3, <1>5, <2>1
<1>8. /\ outcome'.reverts = outcome.reverts
      /\ outcome' \in [reverts : Nat, added : Seq(SigningKeys)]
      /\ tx.function = "addSigningKeys" => outcome'.added = outcome.added \o tx.args[2]
      /\ tx.function # "addSigningKeys" => outcome'.added = outcome.added
  <2>1. tx.function = "addSigningKeys" => tx.args[2] \in Seq(SigningKeys)
    BY <1>3, TasksAssumption DEF HasArguments
  <2>2. CASE tx.function = "addSigningKeys"
    <3>1. outcome' = [outcome EXCEPT !.added = @ \o tx.args[2]]
      BY <1>1, <2>2 DEF Mined
    <3>2. outcome.added \o tx.args[2] \in Seq(SigningKeys)
      BY <1>4, <2>1, <2>2, ConcatProperties
    <3> QED BY <1>4, <2>2, <3>1, <3>2
  <2>3. CASE tx.function # "addSigningKeys"
    BY <1>1, <1>4, <2>3 DEF Mined
  <2> QED BY <2>2, <2>3
<1>9. outcome'.reverts = 0 => MinedParts(program.plan, Mined1 + 1, outcome'.added)
  <2> SUFFICES ASSUME outcome.reverts = 0 PROVE MinedParts(program.plan, Mined1 + 1, outcome'.added)
    BY <1>8
  <2>1. CASE AddsKeys(program.plan)
    <3>1. PICK start, size \in Nat :
             PartsOfFile(program.plan, start, size) /\ outcome.added = Upto(start, size, Mined1)
      BY <1>4, <2>1 DEF MinedParts
    <3>2. /\ tx.function = "addSigningKeys"
          /\ tx.args[2] = Spliced(start + size * Mined1, size) /\ tx.args[2] # <<>>
      <4>1. (Mined1 + 1) - 1 = Mined1
        BY <1>5
      <4> QED BY <1>5, <1>6, <3>1, <4>1 DEF PartsOfFile
    <3>3. outcome'.added = Upto(start, size, Mined1 + 1)
      <4>1. outcome'.added = Upto(start, size, Mined1) \o Spliced(start + size * Mined1, size)
        BY <1>8, <3>1, <3>2
      <4>2. Spliced(start + size * Mined1, size) # <<>>
        BY <3>2
      <4> QED BY <1>5, <4>1, <4>2, NextPart
    <3> QED BY <2>1, <3>1, <3>3 DEF MinedParts
  <2>2. CASE ~ AddsKeys(program.plan)
    <3>1. tx.function # "addSigningKeys"
      BY <1>5, <1>6, <2>2 DEF AddsKeys
    <3> QED BY <1>4, <1>8, <2>2, <3>1 DEF MinedParts
  <2> QED BY <2>1, <2>2
<1>10. Len(pending') <= program'.sent /\ program'.sent <= Len(program'.plan)
  BY <1>1, <1>2, <1>3, <1>4
<1> QED BY <1>1, <1>5, <1>7, <1>8, <1>9, <1>10 DEF FileInv, FirstRunOK

LEMMA SentOne ==
  ASSUME ProgramsOK, FileInv, program.runs = 1, Send
  PROVE  FileInv'
<1>1. /\ program.sent < Len(program.plan)
      /\ pending' = Append(pending, program.plan[program.sent + 1])
      /\ program' = [program EXCEPT !.sent = @ + 1] /\ outcome' = outcome
  BY DEF Send
<1>2. /\ program.plan \in Seq(Transactions) /\ Len(program.plan) \in Nat
      /\ DOMAIN program.plan = 1 .. Len(program.plan)
      /\ program.sent \in Nat /\ pending \in Seq(Transactions) /\ Len(pending) \in Nat
  BY PlanFacts
<1>3. program'.sent = program.sent + 1 /\ program'.plan = program.plan /\ program'.runs = program.runs
  BY <1>1 DEF ProgramsOK
<1>4. /\ Len(pending') = Len(pending) + 1 /\ pending'[Len(pending) + 1] = program.plan[program.sent + 1]
      /\ \A k \in 1 .. Len(pending) : pending'[k] = pending[k]
  <2>1. program.plan[program.sent + 1] \in Transactions
    BY <1>1, <1>2, ElementOfSeq
  <2> QED BY <1>1, <1>2, <2>1, AppendProperties
<1>5. FirstRunOK
  BY DEF FileInv
<1>6. Mined1' = Mined1 /\ Mined1 + (Len(pending) + 1) = program.sent + 1
  BY <1>2, <1>3, <1>4 DEF Mined1
<1>7. \A k \in 1 .. Len(pending') : pending'[k] = program'.plan[Mined1' + k]
  <2>1. ASSUME NEW k \in 1 .. Len(pending) + 1 PROVE pending'[k] = program.plan[Mined1 + k]
    <3>1. CASE k = Len(pending) + 1
      BY <1>4, <1>6, <3>1
    <3>2. CASE k \in 1 .. Len(pending)
      BY <1>4, <1>5, <3>2 DEF FirstRunOK
    <3> QED BY <1>2, <3>1, <3>2
  <2> QED BY <1>3, <1>4, <1>6, <2>1
<1> QED BY <1>1, <1>2, <1>3, <1>4, <1>5, <1>6, <1>7 DEF FileInv, FirstRunOK

LEMMA RevertedOne ==
  ASSUME ProgramsOK, FileInv, program.runs = 1, MineReverted
  PROVE  FileInv'
<1>1. /\ pending # <<>> /\ pending' = Tail(pending) /\ program' = program
      /\ outcome' = [outcome EXCEPT !.reverts = @ + 1]
  BY DEF MineReverted
<1>2. /\ program.sent \in Nat /\ pending \in Seq(Transactions) /\ Len(pending) \in Nat
  BY PlanFacts
<1>3. /\ Len(pending) > 0 /\ Len(Tail(pending)) = Len(pending) - 1
      /\ \A k \in 1 .. Len(pending) - 1 : Tail(pending)[k] = pending[k + 1]
  <2>1. Len(pending) > 0
    BY <1>1, <1>2, EmptySeq
  <2> QED BY <1>1, <1>2, <2>1, HeadTailProperties
<1>4. FirstRunOK /\ outcome \in [reverts : Nat, added : Seq(SigningKeys)]
  BY DEF FileInv
<1>5. outcome' \in [reverts : Nat, added : Seq(SigningKeys)] /\ outcome'.reverts # 0
  BY <1>1, <1>4
<1>6. Mined1' = Mined1 + 1 /\ Mined1 \in Nat
  BY <1>1, <1>2, <1>3, <1>4 DEF Mined1, FirstRunOK
<1>7. \A k \in 1 .. Len(pending') : pending'[k] = program'.plan[Mined1' + k]
  <2>1. ASSUME NEW k \in 1 .. Len(pending) - 1
        PROVE  Tail(pending)[k] = program.plan[Mined1 + 1 + k]
    <3>1. k + 1 \in 1 .. Len(pending) /\ Mined1 + (k + 1) = Mined1 + 1 + k
      BY <1>2, <1>6
    <3> QED BY <1>3, <1>4, <3>1 DEF FirstRunOK
  <2> QED BY <1>1, <1>3, <1>6, <2>1
<1>8. Len(pending') <= program'.sent /\ program'.sent <= Len(program'.plan)
  BY <1>1, <1>2, <1>3, <1>4 DEF FirstRunOK
<1> QED BY <1>1, <1>5, <1>7, <1>8 DEF FileInv, FirstRunOK

(* A later run, and what others do.                                        *)
LEMMA LaterRuns ==
  ASSUME ProgramsOK, FileInv, program.runs # 1, TaskStep
  PROVE  FileInv'
<1>1. program.runs \in Int /\ program.runs >= 1 /\ outcome \in [reverts : Nat, added : Seq(SigningKeys)]
  BY PlanFacts DEF FileInv
<1>2. CASE Send
  BY <1>1, <1>2 DEF Send, FileInv, ProgramsOK
<1>3. CASE Mine
  <2>1. Head(pending) \in Transactions /\ program' = program /\ Mined(Head(pending))
    BY <1>3, PlanFacts, HeadTailProperties DEF Mine
  <2>2. Head(pending).function = "addSigningKeys" => outcome.added \o Head(pending).args[2] \in Seq(SigningKeys)
    BY <1>1, <2>1, TasksAssumption, ConcatProperties DEF HasArguments
  <2>3. outcome' \in [reverts : Nat, added : Seq(SigningKeys)]
    BY <1>1, <2>1, <2>2 DEF Mined
  <2> QED BY <1>1, <2>1, <2>3 DEF FileInv
<1>4. CASE MineReverted
  BY <1>1, <1>4 DEF MineReverted, FileInv
<1>5. CASE RunProgram
  BY <1>1, <1>5 DEF RunProgram, FileInv
<1> QED BY <1>2, <1>3, <1>4, <1>5 DEF TaskStep

LEMMA FileSteps ==
  ASSUME ProgramsOK, FileInv, [Next]_vars
  PROVE  FileInv'
<1>1. CASE UNCHANGED tasksVars
  <2>1. UNCHANGED <<program, pending, outcome>>
    BY <1>1 DEF tasksVars
  <2> QED BY <2>1 DEF FileInv, FirstRunOK, Mined1
<1>2. CASE TaskStep
  <2>1. CASE program.runs # 1
    BY <1>2, <2>1, LaterRuns
  <2>2. CASE program.runs = 1 /\ RunProgram
    <3>1. program'.runs = 2 /\ outcome' = outcome
      BY <2>2 DEF RunProgram
    <3> QED BY <3>1 DEF FileInv
  <2> QED BY <1>2, <2>1, <2>2, SentOne, MinedOne, RevertedOne DEF TaskStep
<1>3. TaskStep \/ UNCHANGED tasksVars
  <2>1. CASE Call
    <3>1. PICK name \in CallsOf[scene] :
             \/ RegistryCalls(name) /\ UNCHANGED programVars
             \/ SecurityCalls(name) /\ UNCHANGED <<registryVars, others>>
             \/ /\ PoolCalls(name)
                /\ UNCHANGED <<nodeOperators, signingKeys, summary, nonce, activeOperatorsCount, owners, now, listening, approved>>
                /\ UNCHANGED <<securityVars, depositerVars, tasksVars, imageVars, scene>>
             \/ LedgerCalls(name) /\ UNCHANGED <<registryVars, securityVars, depositerVars, appVars, tasksVars, scene>>
      BY <2>1 DEF Call
    <3> QED BY <3>1 DEF programVars, others, tasksVars
  <2>2. CASE Tick \/ AppStep \/ DepositerStep \/ ImageStep \/ UNCHANGED vars
    BY <2>2 DEF Tick, AppStep, DepositerStep, ImageStep, vars, programVars, tasksVars
  <2> QED BY <2>1, <2>2 DEF Next
<1> QED BY <1>1, <1>2, <1>3

(* The keys of one run of add-keys are a stretch of the file from where    *)
(* its first part begins.                                                  *)
LEMMA StretchOfFile ==
  ASSUME NEW start \in Nat, NEW size \in Nat, NEW m \in Nat, Upto(start, size, m) # <<>>
  PROVE  start + 1 \in DOMAIN File /\ IsPrefix(Upto(start, size, m), SubSeq(File, start + 1, Len(File)))
<1> DEFINE last == Math256_min(start + size * m, Len(File))
           rest == SubSeq(File, start + 1, Len(File))
           s    == Upto(start, size, m)
<1>1. File \in Seq(SigningKeys) /\ Len(File) \in Nat /\ DOMAIN File = 1 .. Len(File)
  BY FileAssumption, LenProperties
<1>2. last \in Nat /\ last <= Len(File) /\ s = SubSeq(File, start + 1, last)
  <2>1. size * m \in Nat
    OBVIOUS
  <2>2. s = SubSeq(File, start + 1, last)
    BY DEF Upto
  <2> QED BY <1>1, <2>1, <2>2 DEF Math256_min
<1> HIDE DEF last, s
<1>3. start + 1 <= last
  BY <1>2, SubSeqEmpty DEF s
<1>4. start + 1 \in DOMAIN File
  BY <1>1, <1>2, <1>3
<1>5. s \in Seq(SigningKeys) /\ Len(s) = last - start
  <2>1. \A i \in start + 1 .. last : File[i] \in SigningKeys
    BY <1>1, <1>2, ElementOfSeq
  <2> QED BY <1>2, <1>3, <2>1, SubSeqProperties
<1>6. rest \in Seq(SigningKeys) /\ Len(rest) = Len(File) - start
  <2>1. \A i \in start + 1 .. Len(File) : File[i] \in SigningKeys
    BY <1>1, ElementOfSeq
  <2>2. Len(File) \in Int /\ start + 1 \in Int /\ start + 1 <= Len(File)
    BY <1>1, <1>2, <1>3
  <2> QED BY <2>1, <2>2, SubSeqProperties
<1>7. SubSeq(s, 1, Len(s)) = s
  BY <1>5, SubSeqFull
<1>8. SubSeq(rest, 1, last - start) = SubSeq(File, start + 1, last)
  <2>1. /\ start + 1 \in 1 .. Len(File) /\ Len(File) \in 1 .. Len(File)
        /\ 1 \in 1 .. Len(File) - (start + 1) + 1 /\ last - start \in 1 .. Len(File) - (start + 1) + 1
        /\ (start + 1) + 1 - 1 = start + 1 /\ (start + 1) + (last - start) - 1 = last
    BY <1>1, <1>2, <1>3
  <2> DEFINE l == Len(File)
             x == start + 1
             y == last - start
  <2>2. File \in Seq(SigningKeys) /\ SubSeq(File, x, l) \in Seq(SigningKeys) /\ l = Len(File)
    BY ONLY <1>1, <1>6
  <2>3. x \in 1 .. l /\ l \in 1 .. l /\ 1 \in 1 .. l - x + 1 /\ y \in 1 .. l - x + 1
    BY ONLY <2>1
  <2>4. x + 1 - 1 = start + 1 /\ x + y - 1 = last
    BY ONLY <2>1
  <2> HIDE DEF l, x, y
  <2>5. SubSeq(SubSeq(File, x, l), 1, y) = SubSeq(File, x + 1 - 1, x + y - 1)
    BY ONLY <2>2, <2>3, SubSeqOfSubSeq
  <2>6. SubSeq(SubSeq(File, x, l), 1, y) = SubSeq(File, start + 1, last)
    BY ONLY <2>4, <2>5
  <2> QED BY ONLY <2>6 DEF l, x, y
<1>9. IsPrefix(s, rest)
  <2>1. Len(s) <= Len(rest)
    <3> HIDE DEF rest
    <3> QED BY <1>1, <1>2, <1>5, <1>6
  <2>2. SubSeq(s, 1, Len(s)) = SubSeq(rest, 1, Len(s))
    BY <1>2, <1>5, <1>7, <1>8
  <2> HIDE DEF rest
  <2> QED BY <2>1, <2>2 DEF IsPrefix
<1> QED BY <1>4, <1>9 DEF s

(***************************************************************************)
(* One run of add-keys without a revert puts a stretch of the file on      *)
(* chain, in order and from the first key asked for, wherever it dies and  *)
(* whoever else changes the operators: whatever the file, the beginning,   *)
(* the size of the parts and their number.                                 *)
(***************************************************************************)
THEOREM FileIsAddedOnce == Spec => []FileKeysAddedOnce
<1>1. ASSUME ProgramsOK, FileInv PROVE FileKeysAddedOnce
  <2> SUFFICES ASSUME program.runs = 1, outcome.reverts = 0, outcome.added # <<>>
               PROVE  LET plan  == program.plan
                          keys  == [k \in DOMAIN plan |-> IF plan[k].function = "addSigningKeys" THEN plan[k].args[2] ELSE <<>>]
                          start == {i \in DOMAIN File : keys # <<>> /\ keys[1] # <<>> /\ File[i] = keys[1][1]}
                      IN  \E i \in start : IsPrefix(outcome.added, SubSeq(File, i, Len(File)))
    BY DEF FileKeysAddedOnce
  <2> DEFINE plan == program.plan
             keys == [k \in DOMAIN plan |-> IF plan[k].function = "addSigningKeys" THEN plan[k].args[2] ELSE <<>>]
  <2>1. FirstRunOK /\ MinedParts(plan, Mined1, outcome.added)
    BY <1>1 DEF FileInv, FirstRunOK
  <2>2. PICK start, size \in Nat : PartsOfFile(plan, start, size) /\ outcome.added = Upto(start, size, Mined1)
    BY <2>1 DEF MinedParts
  <2>3. Mined1 \in Nat /\ Mined1 <= Len(plan) /\ Len(plan) \in Nat /\ DOMAIN plan = 1 .. Len(plan)
    BY <1>1, <2>1, PlanFacts DEF FirstRunOK, Mined1
  <2>4. Mined1 # 0
    BY <2>2, EmptyPart
  <2>5. 1 \in DOMAIN plan
    BY <2>3, <2>4
  <2>6. plan[1].function = "addSigningKeys" /\ plan[1].args[2] = Spliced(start, size) /\ plan[1].args[2] # <<>>
    <3>1. start + size * (1 - 1) = start
      OBVIOUS
    <3> QED BY <2>2, <2>5, <3>1 DEF PartsOfFile
  <2>7. keys # <<>> /\ keys[1] = Spliced(start, size) /\ keys[1] # <<>>
    <3>1. DOMAIN keys # {} /\ keys[1] = Spliced(start, size)
      BY <2>5, <2>6
    <3> QED BY <2>6, <3>1
  <2>8. start + 1 \in DOMAIN File /\ IsPrefix(outcome.added, SubSeq(File, start + 1, Len(File)))
    BY <2>2, <2>3, StretchOfFile
  <2>9. Spliced(start, size)[1] = File[start + 1]
    <3>1. File \in Seq(SigningKeys) /\ Len(File) \in Nat
      BY FileAssumption
    <3> DEFINE last == Math256_min(start + size, Len(File))
    <3>2. last \in Nat /\ last <= Len(File) /\ Spliced(start, size) = SubSeq(File, start + 1, last)
      BY <3>1 DEF Math256_min, Spliced
    <3> HIDE DEF last
    <3>3. start + 1 <= last
      BY <2>6, <3>2, SubSeqEmpty
    <3>4. \A i \in start + 1 .. last : File[i] \in SigningKeys
      BY <3>1, <3>2, ElementOfSeq
    <3>5. SubSeq(File, start + 1, last)[1] = File[(start + 1) + 1 - 1]
      <4>1. 1 \in 1 .. last - (start + 1) + 1
        BY <3>2, <3>3
      <4> QED BY <3>2, <3>4, <4>1, SubSeqProperties
    <3>6. (start + 1) + 1 - 1 = start + 1
      OBVIOUS
    <3> QED BY <3>2, <3>5, <3>6
  <2> HIDE DEF keys
  <2> QED BY <2>7, <2>8, <2>9 DEF keys
<1>2. ProgramsOK /\ FileInv => FileKeysAddedOnce
  BY <1>1
<1>3. Init => FileInv
  BY FileInit
<1>4. ProgramsOK /\ FileInv /\ [Next]_vars => FileInv'
  BY FileSteps
<1> QED BY <1>2, <1>3, <1>4, RegistryInvariant, PTL DEF Spec

-----------------------------------------------------------------------------
(* The image of the shares                                                 *)

Logged == [name : {"TransferShares"}, from : Addresses, to : Addresses, amount : Nat, block : Nat]
          \cup [name : {"SharesBurnt", "TokenRebased"}, block : Nat]

(* What the transfers that getLogs returns move to an account.             *)
Replay(logs, a) == SumOf([k \in DOMAIN logs |-> Moved(logs[k], a)], Transfers(logs))

(* The shares of an account at the end of block ToBlock are what the       *)
(* transfers up to it moved to it, those of the burner at most: burning    *)
(* emits no transfer.                                                      *)
LedgerOK ==
  /\ lastBlock \in Nat
  /\ lastBlock <= ToBlock => shares = atToBlock
  /\ events \in Seq(Logged)
  /\ atToBlock \in [Addresses -> Int]
  /\ \A a \in Holders \cup {Treasury} : atToBlock[a] = Replay(events, a)
  /\ atToBlock[Burner] <= Replay(events, Burner)

ImageInv == LedgerOK /\ {"at", "image", "truth"} \subseteq DOMAIN job /\ ImageIsExact

LEMMA LogFacts ==
  ASSUME NEW es \in Seq(Logged)
  PROVE  /\ Len(es) \in Nat /\ DOMAIN es = 1 .. Len(es) /\ IsFiniteSet(DOMAIN es)
         /\ Transfers(es) \in SUBSET DOMAIN es /\ IsFiniteSet(Transfers(es))
         /\ \A k \in DOMAIN es : es[k] \in Logged
         /\ \A k \in Transfers(es) :
              /\ es[k].from \in Addresses /\ es[k].to \in Addresses
              /\ \A a : Moved(es[k], a) \in Int
<1>1. Len(es) \in Nat /\ DOMAIN es = 1 .. Len(es) /\ \A k \in DOMAIN es : es[k] \in Logged
  BY LenProperties, ElementOfSeq
<1>2. IsFiniteSet(DOMAIN es)
  BY <1>1, FS_Interval
<1>3. Transfers(es) \in SUBSET DOMAIN es
  BY DEF Transfers, getLogs
<1>4. IsFiniteSet(Transfers(es))
  BY <1>2, <1>3, FS_Subset
<1>5. ASSUME NEW k \in Transfers(es)
      PROVE  /\ es[k].from \in Addresses /\ es[k].to \in Addresses
             /\ \A a : Moved(es[k], a) \in Int
  <2>1. es[k] \in [name : {"TransferShares"}, from : Addresses, to : Addresses, amount : Nat, block : Nat]
    BY <1>1, <1>3 DEF Transfers, Logged
  <2> QED BY <2>1 DEF Moved
<1> QED BY <1>1, <1>2, <1>3, <1>4, <1>5

(* Whether getLogs returns it, and what it moves is shares.                *)
IsRead(e) == e.block <= ToBlock /\ e.name = "TransferShares"

(* One more event moves what it moves.                                     *)
LEMMA OneMoreLogged ==
  ASSUME NEW es \in Seq(Logged), NEW e \in Logged, NEW a
  PROVE  /\ Append(es, e) \in Seq(Logged)
         /\ Replay(es, a) \in Int
         /\ Replay(Append(es, e), a) = Replay(es, a) + (IF IsRead(e) THEN Moved(e, a) ELSE 0)
<1> DEFINE n  == Len(es) + 1
           es2 == Append(es, e)
           f  == [k \in DOMAIN es |-> Moved(es[k], a)]
           g  == [k \in DOMAIN es2 |-> Moved(es2[k], a)]
           T  == Transfers(es)
           T2 == Transfers(es2)
<1>1. /\ es2 \in Seq(Logged) /\ Len(es2) = n /\ es2[n] = e
      /\ \A k \in 1 .. Len(es) : es2[k] = es[k]
  BY AppendProperties
<1>2. /\ Len(es) \in Nat /\ DOMAIN es = 1 .. Len(es) /\ T \in SUBSET DOMAIN es /\ IsFiniteSet(T)
      /\ \A k \in T : Moved(es[k], a) \in Int
  BY LogFacts
<1>3. DOMAIN es2 = 1 .. n /\ IsFiniteSet(T2) /\ T2 \in SUBSET DOMAIN es2 /\ \A k \in T2 : Moved(es2[k], a) \in Int
  BY <1>1, LogFacts
<1>4. n \in DOMAIN es2 /\ n \notin DOMAIN es /\ DOMAIN es \subseteq DOMAIN es2 /\ \A k \in DOMAIN es2 : k = n \/ k \in DOMAIN es
  BY <1>2, <1>3
<1> HIDE DEF n, es2
<1>5. SumOf(g, T) = SumOf(f, T) /\ SumOf(f, T) \in Int
  <2>1. \A k \in T : f[k] \in Int /\ g[k] = f[k]
    BY <1>1, <1>2, <1>4
  <2> HIDE DEF f, g, T
  <2> QED BY <1>2, <2>1, SumCongruent, SumType
<1>6. \A k \in T2 : g[k] \in Int
  BY <1>3
<1>7. CASE IsRead(e)
  <2>1. n \in T2 /\ T2 \ {n} = T
    BY <1>1, <1>2, <1>4, <1>7 DEF Transfers, getLogs, IsRead
  <2>2. g[n] = Moved(e, a)
    BY <1>1, <1>4
  <2>3. SumOf(g, T2) = g[n] + SumOf(g, T2 \ {n})
    <3> HIDE DEF g, T2
    <3> QED BY <1>3, <1>6, <2>1, SumStep
  <2>4. g[n] \in Int
    BY <1>6, <2>1
  <2>5. SumOf(g, T2) = SumOf(f, T) + Moved(e, a)
    <3> HIDE DEF g, f, T2, T
    <3>1. SumOf(g, T2) = g[n] + SumOf(f, T)
      BY <1>5, <2>1, <2>3
    <3> QED BY <1>5, <2>2, <2>4, <3>1
  <2> QED BY <1>1, <1>5, <1>7, <2>5 DEF Replay, es2
<1>8. CASE ~IsRead(e)
  <2>1. T2 = T
    BY <1>1, <1>2, <1>4, <1>8 DEF Transfers, getLogs, IsRead
  <2>2. SumOf(g, T2) = SumOf(f, T) + 0
    <3> HIDE DEF g, f, T2, T
    <3> QED BY <1>5, <2>1
  <2> QED BY <1>1, <1>5, <1>8, <2>2 DEF Replay, es2
<1> QED BY <1>7, <1>8

LEMMA ReplayOfNone == ASSUME NEW a PROVE <<>> \in Seq(Logged) /\ Replay(<<>>, a) = 0
<1>1. <<>> \in Seq(Logged) /\ Transfers(<<>>) = {}
  BY DEF Transfers, getLogs
<1> QED BY <1>1, SumEmpty DEF Replay

LEMMA AddressFacts ==
  /\ Holders \cup {Treasury, Burner} \subseteq Addresses
  /\ \A a \in Holders \cup {Treasury} : a \notin {ZeroAddress, InitialTokenHolder, WithdrawalQueue, Burner}
  /\ Burner \notin {ZeroAddress, InitialTokenHolder, WithdrawalQueue}
  /\ ZeroAddress \in Addresses /\ InitialTokenHolder \in Addresses /\ WithdrawalQueue \in Addresses
  /\ Treasury \notin Holders
BY HoldersAssumption DEF Addresses, Contracts, Treasury, Burner, ZeroAddress, InitialTokenHolder, WithdrawalQueue

(* A transfer of shares that somebody had.                                 *)
LEMMA TransferLogged ==
  ASSUME NEW from \in Addresses, NEW to \in Addresses, NEW amount \in Nat, NEW block \in Nat
  PROVE  LET e == TransferSharesEvent(from, to, amount, block)
         IN  /\ e \in Logged /\ (IsRead(e) <=> block <= ToBlock)
             /\ \A a : Moved(e, a) = (IF to = a THEN amount ELSE 0) - (IF from = a THEN amount ELSE 0)
BY DEF TransferSharesEvent, Logged, Moved, IsRead

(* Blocks only follow one another.                                         *)
LEMMA BlockFacts ==
  ASSUME LedgerOK, InBlock
  PROVE  /\ lastBlock' \in Nat
         /\ lastBlock' <= ToBlock =>
              /\ atToBlock' = shares' /\ shares \in [Addresses -> Int]
              /\ \A a \in Holders \cup {Treasury} : shares[a] = Replay(events, a)
              /\ shares[Burner] <= Replay(events, Burner)
         /\ ~(lastBlock' <= ToBlock) => atToBlock' = atToBlock
BY BlocksAssumption DEF LedgerOK, InBlock

(* A call after block ToBlock adds events that nobody reads.               *)
LEMMA LateStep ==
  ASSUME LedgerOK, InBlock, ~(lastBlock' <= ToBlock), events' \in Seq(Logged),
         \A a \in Holders \cup {Treasury, Burner} : Replay(events', a) = Replay(events, a)
  PROVE  LedgerOK'
BY BlockFacts DEF LedgerOK

LEMMA MintStep ==
  ASSUME LedgerOK, NEW recipient \in Holders, NEW amount \in Nat, mintShares(recipient, amount)
  PROVE  LedgerOK'
<1> DEFINE e == TransferSharesEvent(ZeroAddress, recipient, amount, lastBlock')
<1>0. InBlock /\ lastBlock' \in Nat
  BY BlockFacts DEF mintShares
<1>1. /\ shares' = [shares EXCEPT ![recipient] = @ + amount]
      /\ events' = Append(events, e)
  BY DEF mintShares
<1>2. /\ e \in Logged /\ (IsRead(e) <=> lastBlock' <= ToBlock)
      /\ \A a : Moved(e, a) = (IF recipient = a THEN amount ELSE 0) - (IF ZeroAddress = a THEN amount ELSE 0)
  BY <1>0, AddressFacts, TransferLogged
<1> HIDE DEF e
<1>3. /\ events' \in Seq(Logged)
      /\ \A a : /\ Replay(events, a) \in Int
                /\ Replay(events', a) = Replay(events, a) + (IF lastBlock' <= ToBlock THEN Moved(e, a) ELSE 0)
  BY <1>1, <1>2, OneMoreLogged DEF LedgerOK
<1>l. CASE ~(lastBlock' <= ToBlock)
  BY <1>0, <1>3, <1>l, LateStep
<1>s. SUFFICES ASSUME lastBlock' <= ToBlock PROVE LedgerOK'
  BY <1>l
<1>p. /\ atToBlock' = shares' /\ shares \in [Addresses -> Int]
      /\ \A a \in Holders \cup {Treasury} : shares[a] = Replay(events, a)
      /\ shares[Burner] <= Replay(events, Burner)
  BY <1>0, <1>s, BlockFacts
<1>4. /\ shares' \in [Addresses -> Int]
      /\ \A a \in Addresses : shares'[a] = IF a = recipient THEN shares[a] + amount ELSE shares[a]
  BY <1>1, <1>p, AddressFacts
<1>5. ASSUME NEW a \in Holders \cup {Treasury} PROVE shares'[a] = Replay(events', a)
  <2>1. shares[a] = Replay(events, a) /\ shares[a] \in Int
    BY <1>3, <1>p
  <2> QED BY <1>2, <1>3, <1>4, <1>s, <2>1, AddressFacts
<1>6. shares'[Burner] <= Replay(events', Burner)
  <2>1. shares[Burner] \in Int /\ shares[Burner] <= Replay(events, Burner) /\ Replay(events, Burner) \in Int
    BY <1>3, <1>p, AddressFacts
  <2>2. recipient # Burner /\ Burner # ZeroAddress /\ Burner \in Addresses
    BY AddressFacts
  <2>3. shares'[Burner] = shares[Burner] /\ Moved(e, Burner) = 0
    BY <1>2, <1>4, <2>2
  <2> QED BY <1>3, <1>s, <2>1, <2>3
<1> QED BY <1>0, <1>3, <1>4, <1>5, <1>6, <1>p DEF LedgerOK

LEMMA TransferStep ==
  ASSUME LedgerOK, NEW from \in Holders \cup {WithdrawalQueue}, NEW to \in Addresses, to # ZeroAddress,
         NEW amount \in Nat, transferShares(from, to, amount)
  PROVE  LedgerOK'
<1> DEFINE e == TransferSharesEvent(from, to, amount, lastBlock')
<1>0. InBlock /\ lastBlock' \in Nat
  BY BlockFacts DEF transferShares
<1>1. /\ shares' = [[shares EXCEPT ![from] = @ - amount] EXCEPT ![to] = @ + amount]
      /\ events' = Append(events, e)
  BY DEF transferShares
<1>2. from \in Addresses /\ from # Burner /\ from # Treasury
  BY AddressFacts DEF Treasury, WithdrawalQueue, Burner
<1>3. /\ e \in Logged /\ (IsRead(e) <=> lastBlock' <= ToBlock)
      /\ \A a : Moved(e, a) = (IF to = a THEN amount ELSE 0) - (IF from = a THEN amount ELSE 0)
  BY <1>0, <1>2, TransferLogged
<1> HIDE DEF e
<1>4. /\ events' \in Seq(Logged)
      /\ \A a : /\ Replay(events, a) \in Int
                /\ Replay(events', a) = Replay(events, a) + (IF lastBlock' <= ToBlock THEN Moved(e, a) ELSE 0)
  BY <1>1, <1>3, OneMoreLogged DEF LedgerOK
<1>l. CASE ~(lastBlock' <= ToBlock)
  BY <1>0, <1>4, <1>l, LateStep
<1>s. SUFFICES ASSUME lastBlock' <= ToBlock PROVE LedgerOK'
  BY <1>l
<1>p. /\ atToBlock' = shares' /\ shares \in [Addresses -> Int]
      /\ \A a \in Holders \cup {Treasury} : shares[a] = Replay(events, a)
      /\ shares[Burner] <= Replay(events, Burner)
  BY <1>0, <1>s, BlockFacts
<1>5. /\ shares' \in [Addresses -> Int]
      /\ \A a \in Addresses : shares'[a] = shares[a] + Moved(e, a)
  <2> DEFINE given == [shares EXCEPT ![from] = @ - amount]
  <2>1. shares \in [Addresses -> Int]
    BY <1>p
  <2>2. /\ given \in [Addresses -> Int]
        /\ \A a \in Addresses : given[a] = shares[a] - (IF from = a THEN amount ELSE 0)
    BY <1>2, <2>1
  <2>3. shares' = [given EXCEPT ![to] = @ + amount]
    BY <1>1
  <2> HIDE DEF given
  <2>4. /\ shares' \in [Addresses -> Int]
        /\ \A a \in Addresses : shares'[a] = given[a] + (IF to = a THEN amount ELSE 0)
    BY <2>2, <2>3
  <2>5. ASSUME NEW a \in Addresses PROVE shares'[a] = shares[a] + Moved(e, a)
    <3>1. shares[a] \in Int
      BY <2>1
    <3>2. shares'[a] = shares[a] - (IF from = a THEN amount ELSE 0) + (IF to = a THEN amount ELSE 0)
      BY <2>2, <2>4
    <3>3. Moved(e, a) = (IF to = a THEN amount ELSE 0) - (IF from = a THEN amount ELSE 0)
      BY <1>3
    <3> QED BY <3>1, <3>2, <3>3
  <2> QED BY <2>4, <2>5
<1>6. \A a \in Addresses : shares[a] \in Int /\ Moved(e, a) \in Int
  BY <1>3, <1>p
<1>7. ASSUME NEW a \in Holders \cup {Treasury} PROVE shares'[a] = Replay(events', a)
  BY <1>4, <1>5, <1>p, <1>s, AddressFacts
<1>8. shares'[Burner] <= Replay(events', Burner)
  <2>1. shares[Burner] <= Replay(events, Burner) /\ Burner \in Addresses
    BY <1>p, AddressFacts
  <2> QED BY <1>4, <1>5, <1>6, <1>s, <2>1
<1> QED BY <1>0, <1>4, <1>5, <1>7, <1>8, <1>p DEF LedgerOK

LEMMA RebaseStep ==
  ASSUME LedgerOK, NEW burnt \in Nat, NEW fee \in Nat, reportRebase(burnt, fee)
  PROVE  LedgerOK'
<1> DEFINE e  == TransferSharesEvent(ZeroAddress, Treasury, fee, lastBlock')
           b  == OtherEvent("SharesBurnt", lastBlock')
           es == IF burnt > 0 THEN Append(events, b) ELSE events
           o  == OtherEvent("TokenRebased", lastBlock')
<1>0. InBlock /\ lastBlock' \in Nat
  BY BlockFacts DEF reportRebase
<1>1. /\ shares' = [shares EXCEPT ![Burner] = @ - burnt, ![Treasury] = @ + fee]
      /\ events' = Append(Append(es, e), o)
  <2>1. events \in Seq(Logged)
    BY DEF LedgerOK
  <2>2. events' = events \o (IF burnt > 0 THEN <<b>> ELSE <<>>) \o <<e, o>>
    BY DEF reportRebase
  <2>3. b \in Logged /\ o \in Logged /\ e \in Logged
    BY <1>0, AddressFacts, TransferLogged DEF OtherEvent, Logged
  <2>4. events \o (IF burnt > 0 THEN <<b>> ELSE <<>>) = es
    <3>1. CASE burnt > 0
      BY <2>1, <2>3, <3>1, AppendIsConcat
    <3>2. CASE ~(burnt > 0)
      BY <2>1, <3>2, ConcatEmptySeq
    <3> QED BY <3>1, <3>2
  <2>5. es \in Seq(Logged)
    BY <2>1, <2>3, AppendProperties
  <2> HIDE DEF b, e, o, es
  <2>6. es \o <<e, o>> = Append(Append(es, e), o)
    BY <2>3, <2>5
  <2> QED BY <2>2, <2>4, <2>6 DEF reportRebase
<1>2. /\ e \in Logged /\ (IsRead(e) <=> lastBlock' <= ToBlock)
      /\ \A a : Moved(e, a) = (IF Treasury = a THEN fee ELSE 0) - (IF ZeroAddress = a THEN fee ELSE 0)
  BY <1>0, AddressFacts, TransferLogged
<1>3. b \in Logged /\ ~IsRead(b) /\ o \in Logged /\ ~IsRead(o)
  BY <1>0 DEF OtherEvent, Logged, IsRead
<1>4. es \in Seq(Logged) /\ \A a : Replay(events, a) \in Int /\ Replay(es, a) = Replay(events, a)
  <2>1. events \in Seq(Logged)
    BY DEF LedgerOK
  <2>2. \A a : /\ Replay(events, a) \in Int
               /\ Replay(Append(events, b), a) = Replay(events, a) + 0
    BY <1>3, <2>1, OneMoreLogged
  <2>3. Append(events, b) \in Seq(Logged)
    BY <1>3, <2>1, AppendProperties
  <2> QED BY <2>1, <2>2, <2>3
<1> HIDE DEF b, e, es, o
<1>5. /\ Append(es, e) \in Seq(Logged)
      /\ \A a : Replay(Append(es, e), a) \in Int 
              /\ Replay(Append(es, e), a) = Replay(events, a) + (IF lastBlock' <= ToBlock THEN Moved(e, a) ELSE 0)
  <2>1. Append(es, e) \in Seq(Logged)
    BY <1>2, <1>4, AppendProperties
  <2> QED BY <1>2, <1>4, <2>1, OneMoreLogged
<1>6. /\ events' \in Seq(Logged)
      /\ \A a : Replay(events', a) = Replay(events, a) + (IF lastBlock' <= ToBlock THEN Moved(e, a) ELSE 0)
  <2>1. events' \in Seq(Logged)
    BY <1>1, <1>3, <1>5, AppendProperties
  <2>2. \A a : Replay(events', a) = Replay(Append(es, e), a) + 0
    BY <1>1, <1>3, <1>5, OneMoreLogged
  <2> QED BY <1>5, <2>1, <2>2
<1>l. CASE ~(lastBlock' <= ToBlock)
  BY <1>0, <1>4, <1>6, <1>l, LateStep
<1>s. SUFFICES ASSUME lastBlock' <= ToBlock PROVE LedgerOK'
  BY <1>l
<1>p. /\ atToBlock' = shares' /\ shares \in [Addresses -> Int]
      /\ \A a \in Holders \cup {Treasury} : shares[a] = Replay(events, a)
      /\ shares[Burner] <= Replay(events, Burner)
  BY <1>0, <1>s, BlockFacts
<1>7. /\ shares' \in [Addresses -> Int]
      /\ \A a \in Addresses : shares'[a] = IF a = Burner THEN shares[a] - burnt
                                           ELSE IF a = Treasury THEN shares[a] + fee ELSE shares[a]
  <2>1. Burner # Treasury
    BY DEF Burner, Treasury
  <2> QED BY <1>1, <1>p, <2>1, AddressFacts
<1>8. ASSUME NEW a \in Holders \cup {Treasury} PROVE shares'[a] = Replay(events', a)
  <2>1. shares[a] = Replay(events, a) /\ shares[a] \in Int /\ a \in Addresses /\ a # Burner /\ a # ZeroAddress
    BY <1>4, <1>p, AddressFacts
  <2> QED BY <1>2, <1>6, <1>7, <1>s, <2>1
<1>9. shares'[Burner] <= Replay(events', Burner)
  <2>1. /\ shares[Burner] <= Replay(events, Burner) /\ shares[Burner] \in Int /\ Replay(events, Burner) \in Int
        /\ Burner \in Addresses /\ Burner # ZeroAddress /\ Burner # Treasury
    BY <1>4, <1>p, AddressFacts DEF Burner, Treasury
  <2>2. Moved(e, Burner) = 0 /\ shares'[Burner] = shares[Burner] - burnt
    BY <1>2, <1>7, <2>1
  <2> QED BY <1>6, <1>s, <2>1, <2>2
<1> QED BY <1>0, <1>6, <1>7, <1>8, <1>9, <1>p DEF LedgerOK

(* The image holds for every account what its transfers moved to it.       *)
LEMMA ImageFacts ==
  ASSUME LedgerOK
  PROVE  /\ \A a \in Holders \cup {Treasury} :
              atToBlock[a] = IF a \in DOMAIN Image(events) THEN Image(events)[a] ELSE 0
         /\ Burner \in DOMAIN Image(events) => Image(events)[Burner] >= atToBlock[Burner]
<1> DEFINE T == Transfers(events)
<1>1. events \in Seq(Logged)
  BY DEF LedgerOK
<1>2. /\ IsFiniteSet(T) /\ T \in SUBSET DOMAIN events
      /\ \A k \in T : \A a : Moved(events[k], a) \in Int
  BY <1>1, LogFacts
<1>3. DOMAIN Replayed(events) = Touched(events)
  BY DEF Replayed
<1>4. DOMAIN Image(events) = Touched(events) \ ({ZeroAddress, InitialTokenHolder} \cup LoaderAddresses)
  BY <1>3 DEF Image
<1>5. ASSUME NEW a \in DOMAIN Image(events) PROVE Image(events)[a] = Replay(events, a)
  <2> DEFINE f == [k \in DOMAIN events |-> Moved(events[k], a)]
  <2>1. a \in Touched(events)
    BY <1>4
  <2>2. Image(events)[a] = Replayed(events)[a]
    BY <1>4 DEF Image
  <2>3. Replayed(events)[a] = SumOf([k \in T |-> Moved(events[k], a)], T)
    BY <2>1 DEF Replayed, SumOf
  <2>5. SumOf([k \in T |-> Moved(events[k], a)], T) = SumOf(f, T)
    <3>1. \A k \in T : [j \in T |-> Moved(events[j], a)][k] = f[k]
      BY <1>2
    <3> HIDE DEF f, T
    <3> QED BY <1>2, <3>1, SumCongruent
  <2> QED BY <2>2, <2>3, <2>5 DEF Replay
<1>6. ASSUME NEW a, a \notin Touched(events) PROVE Replay(events, a) = 0
  <2> DEFINE f == [k \in DOMAIN events |-> Moved(events[k], a)]
  <2>1. \A k \in T : f[k] = 0 /\ f[k] \in Int
    <3>1. \A k \in T : events[k].to # a /\ events[k].from # a
      BY <1>6 DEF Touched
    <3>2. \A k \in T : Moved(events[k], a) = 0
      BY <3>1 DEF Moved
    <3> QED BY <1>2, <3>2
  <2>2. SumOf(f, T) = SumOf(f, {})
    <3> HIDE DEF f, T
    <3>1. {} \in SUBSET T /\ \A k \in T \ {} : f[k] = 0
      BY <2>1
    <3> QED BY <1>2, <2>1, <3>1, SumSupport
  <2> QED BY <2>2, SumEmpty DEF Replay
<1>7. ASSUME NEW a \in Holders \cup {Treasury, Burner}
      PROVE  a \in DOMAIN Image(events) <=> a \in Touched(events)
  BY <1>4, AddressFacts DEF LoaderAddresses
<1>8. \A a \in Holders \cup {Treasury} : atToBlock[a] = IF a \in DOMAIN Image(events) THEN Image(events)[a] ELSE 0
  BY <1>5, <1>6, <1>7 DEF LedgerOK
<1>9. Burner \in DOMAIN Image(events) => Image(events)[Burner] >= atToBlock[Burner]
  <2>1. atToBlock[Burner] \in Int /\ atToBlock[Burner] <= Replay(events, Burner) /\ Replay(events, Burner) \in Int
    <3>1. OtherEvent("TokenRebased", 0) \in Logged
      BY DEF OtherEvent, Logged
    <3> QED BY <1>1, <3>1, AddressFacts, OneMoreLogged DEF LedgerOK
  <2> QED BY <1>5, <2>1
<1> QED BY <1>8, <1>9

LEMMA ImageInit0 ==
  ASSUME Init
  PROVE  ImageInv
<1> DEFINE e == TransferSharesEvent(ZeroAddress, InitialTokenHolder, 1, 0)
<1>1. /\ shares = [a \in Addresses |-> IF a = InitialTokenHolder THEN 1 ELSE 0]
      /\ events = <<e>> /\ lastBlock = 0 /\ atToBlock = shares
      /\ {"at", "image", "truth"} \subseteq DOMAIN job /\ job.at = "waiting"
  BY DEF Init, ImageInit, NewJob
<1>2. /\ e \in Logged /\ IsRead(e)
      /\ \A a : Moved(e, a) = (IF InitialTokenHolder = a THEN 1 ELSE 0) - (IF ZeroAddress = a THEN 1 ELSE 0)
  <2>1. 0 <= ToBlock
    BY BlocksAssumption
  <2> QED BY <2>1, AddressFacts, TransferLogged
<1> HIDE DEF e
<1>3. events = Append(<<>>, e)
  BY <1>1
<1>4. /\ events \in Seq(Logged)
      /\ \A a : Replay(events, a) = 0 + Moved(e, a)
  <2>1. ASSUME NEW a PROVE Replay(events, a) = 0 + Moved(e, a)
    <3>1. <<>> \in Seq(Logged) /\ Replay(<<>>, a) = 0
      BY ReplayOfNone
    <3> QED BY <1>2, <1>3, <3>1, OneMoreLogged
  <2>2. events \in Seq(Logged)
    BY <1>2, <1>3, ReplayOfNone, AppendProperties
  <2> QED BY <2>1, <2>2
<1>5. \A a \in Holders \cup {Treasury, Burner} : shares[a] = 0 /\ Moved(e, a) = 0
  BY <1>1, <1>2, AddressFacts
<1>6. LedgerOK
  BY <1>1, <1>4, <1>5 DEF LedgerOK
<1> QED BY <1>1, <1>6 DEF ImageInv, ImageIsExact

(* The ledger moves under an image that was taken.                         *)
LEMMA LedgerSteps ==
  ASSUME LedgerOK, NEW name, LedgerCalls(name)
  PROVE  LedgerOK' /\ job' = job
<1>1. 1 \in Nat /\ 0 .. 1 \subseteq Nat
  OBVIOUS
<1>2. CASE \E a \in Holders : mintShares(a, 1)
  BY <1>1, <1>2, MintStep DEF mintShares
<1>3. CASE \E a \in Holders, b \in Holders \cup {WithdrawalQueue} : transferShares(a, b, 1)
  <2>1. PICK a \in Holders, b \in Holders \cup {WithdrawalQueue} : transferShares(a, b, 1)
    BY <1>3
  <2>2. b \in Addresses /\ b # ZeroAddress
    BY AddressFacts DEF WithdrawalQueue, ZeroAddress
  <2> QED BY <1>1, <2>1, <2>2, TransferStep DEF transferShares
<1>4. CASE transferShares(WithdrawalQueue, Burner, 1)
  <2>1. Burner \in Addresses /\ Burner # ZeroAddress
    BY AddressFacts
  <2> QED BY <1>1, <1>4, <2>1, TransferStep DEF transferShares
<1>5. CASE \E burnt \in 0 .. 1 : reportRebase(burnt, 1)
  BY <1>1, <1>5, RebaseStep DEF reportRebase
<1> QED BY <1>2, <1>3, <1>4, <1>5 DEF LedgerCalls

LEMMA ImageSteps ==
  ASSUME ImageInv, [Next]_vars
  PROVE  ImageInv'
<1>1. CASE UNCHANGED imageVars
  BY <1>1 DEF imageVars, ledgerVars, ImageInv, LedgerOK, ImageIsExact
<1>2. CASE \E name : LedgerCalls(name)
  <2>1. LedgerOK' /\ job' = job
    BY <1>2, LedgerSteps DEF ImageInv
  <2> QED BY <2>1 DEF ImageInv, ImageIsExact
<1>3. CASE ImageStep
  <2>1. UNCHANGED ledgerVars
    BY <1>3 DEF ImageStep, LookForReport, ReadLogs, ReadTotalPooledAce, SaveImage, sharesImage, JobRestarts
  <2>2. LedgerOK'
    BY <2>1 DEF ImageInv, LedgerOK, ledgerVars
  <2>3. CASE LookForReport \/ SaveImage \/ sharesImage
    BY <2>2, <2>3 DEF LookForReport, SaveImage, sharesImage, ImageInv, ImageIsExact
  <2>4. CASE ReadLogs
    <3>1. /\ DOMAIN job' = DOMAIN job
          /\ job'.image = Image(events) /\ job'.truth = atToBlock
      BY <2>4 DEF ReadLogs, ImageInv
    <3>2. /\ \A a \in Holders \cup {Treasury} :
               job'.truth[a] = IF a \in DOMAIN job'.image THEN job'.image[a] ELSE 0
          /\ Burner \in DOMAIN job'.image => job'.image[Burner] >= job'.truth[Burner]
      BY <3>1, ImageFacts DEF ImageInv
    <3> QED BY <2>2, <3>1, <3>2 DEF ImageInv, ImageIsExact
  <2>5. CASE ReadTotalPooledAce
    BY <2>2, <2>5 DEF ReadTotalPooledAce, ImageInv, ImageIsExact
  <2>6. CASE JobRestarts
    <3>1. {"at", "image", "truth"} \subseteq DOMAIN job' /\ job'.at = "waiting"
      BY <2>6 DEF JobRestarts, NewJob
    <3> QED BY <2>2, <3>1 DEF ImageInv, ImageIsExact
  <2> QED BY <1>3, <2>3, <2>4, <2>5, <2>6 DEF ImageStep
<1>4. ImageStep \/ (\E name : LedgerCalls(name)) \/ UNCHANGED imageVars
  <2>1. CASE Call
    <3>1. PICK name \in CallsOf[scene] :
             \/ RegistryCalls(name) /\ UNCHANGED programVars
             \/ SecurityCalls(name) /\ UNCHANGED <<registryVars, others>>
             \/ /\ PoolCalls(name)
                /\ UNCHANGED <<nodeOperators, signingKeys, summary, nonce, activeOperatorsCount, owners, now, listening, approved>>
                /\ UNCHANGED <<securityVars, depositerVars, tasksVars, imageVars, scene>>
             \/ LedgerCalls(name) /\ UNCHANGED <<registryVars, securityVars, depositerVars, appVars, tasksVars, scene>>
      BY <2>1 DEF Call
    <3> QED BY <3>1 DEF programVars, others, imageVars
  <2>2. CASE Tick \/ AppStep \/ DepositerStep \/ TaskStep \/ UNCHANGED vars
    BY <2>2 DEF Tick, AppStep, DepositerStep, TaskStep, vars, programVars, imageVars
  <2> QED BY <2>1, <2>2 DEF Next
<1> QED BY <1>1, <1>2, <1>3, <1>4

(***************************************************************************)
(* An image has for every user and the treasury the shares they had when   *)
(* the events were read or, after block ToBlock, at the end of that block: *)
(* whatever was minted, sent, to oneself too, or burnt before, however     *)
(* many accounts there are, and whatever the block written in the          *)
(* programs.  The burner's are not less than it had.                       *)
(***************************************************************************)
THEOREM ImagesAreExact == Spec => []ImageIsExact
<1>1. Init => ImageInv
  BY ImageInit0
<1>2. ImageInv /\ [Next]_vars => ImageInv'
  BY ImageSteps
<1>3. ImageInv => ImageIsExact
  BY DEF ImageInv
<1> QED BY <1>1, <1>2, <1>3, PTL DEF Spec


-----------------------------------------------------------------------------
(* The caches of the applications *)

(* The events that make an application read a variable again, for the      *)
(* variables whose changes are all announced.                              *)
SummaryNews == {"VettedSigningKeysCountChanged", "DepositedSigningKeysCountChanged",
                "ExitedSigningKeysCountChanged", "TotalSigningKeysCountChanged",
                "StuckValidatorsCountChanged", "RefundedValidatorsCountChanged"}
OperatorsNews == {"NodeOperatorAdded", "NodeOperatorActiveSet", "NodeOperatorNameSet",
                  "NodeOperatorRewardAddressSet", "NodeOperatorTotalKeysTrimmed"}

News(of, key) ==
  CASE of = "registry" /\ key = "stakingModuleSummary" -> SummaryNews
    [] of = "registry" /\ key = "nonce" -> {"KeysOpIndexSet", "NonceChanged"}
    [] of = "registry" /\ key = "nodeOperators" -> OperatorsNews
    [] of = "pool" /\ key = "isStopped" -> {"Resumed", "Stopped"}
    [] of = "pool" /\ key = "totalELRewardsCollected" -> {"ELRewardsReceived"}
    [] OTHER -> {}

Tracked(of) == IF of = "registry" THEN {"stakingModuleSummary", "nonce", "nodeOperators"}
                                  ELSE {"isStopped", "totalELRewardsCollected"}

LEMMA RefreshedOfRegistry ==
  ASSUME app.of = "registry", NEW event
  PROVE  /\ Refreshed(event) = IF event \in SummaryNews THEN "stakingModuleSummary"
                             ELSE IF event \in {"KeysOpIndexSet", "NonceChanged"} THEN "nonce"
                             ELSE IF event \in OperatorsNews THEN "nodeOperators" ELSE ""
<1> DEFINE I == {i \in 1 .. Len(registryVariables) : event \in registryVariables[i].updateEvents}
           k == IF I # {} THEN Min(I) ELSE 0
<1>1. /\ Len(registryVariables) = 3
      /\ registryVariables[1].key = "stakingModuleSummary" /\ registryVariables[1].updateEvents = SummaryNews
      /\ registryVariables[2].key = "nonce" /\ registryVariables[2].updateEvents = {"KeysOpIndexSet", "NonceChanged"}
      /\ registryVariables[3].key = "nodeOperators" /\ registryVariables[3].updateEvents = OperatorsNews
  BY DEF registryVariables, Variable, SummaryNews, OperatorsNews
<1>2. Refreshed(event) = IF k = 0 THEN "" ELSE registryVariables[k].key
  BY DEF Refreshed, SelectInSeq, Variables
<1>3. I = {i \in 1 .. 3 : event \in registryVariables[i].updateEvents}
  BY <1>1
<1>4. CASE event \in SummaryNews
  <2>1. I = {1}
    BY <1>1, <1>3, <1>4 DEF SummaryNews, OperatorsNews
  <2>2. k = 1
    BY <2>1 DEF Min
  <2> HIDE DEF k, I
  <2> QED BY <1>1, <1>2, <1>4, <2>2
<1>5. CASE event \in {"KeysOpIndexSet", "NonceChanged"}
  <2>1. I = {2}
    BY <1>1, <1>3, <1>5 DEF SummaryNews, OperatorsNews
  <2>2. k = 2
    BY <2>1 DEF Min
  <2> HIDE DEF k, I
  <2> QED BY <1>1, <1>2, <1>5, <2>2 DEF SummaryNews
<1>6. CASE event \in OperatorsNews
  <2>1. I = {3}
    BY <1>1, <1>3, <1>6 DEF SummaryNews, OperatorsNews
  <2>2. k = 3
    BY <2>1 DEF Min
  <2> HIDE DEF k, I
  <2> QED BY <1>1, <1>2, <1>6, <2>2 DEF SummaryNews, OperatorsNews
<1>7. CASE event \notin SummaryNews \cup OperatorsNews \cup {"KeysOpIndexSet", "NonceChanged"}
  <2>1. I = {}
    BY <1>1, <1>3, <1>7
  <2> QED BY <1>2, <1>7, <2>1
<1> QED BY <1>4, <1>5, <1>6, <1>7

LEMMA RefreshedOfPool ==
  ASSUME app.of = "pool", NEW event
  PROVE  Refreshed(event) = IF event \in {"Resumed", "Stopped"} THEN "isStopped"
                            ELSE IF event = "Unbuffered" THEN "bufferedEther"
                            ELSE IF event = "ELRewardsReceived" THEN "totalELRewardsCollected"
                            ELSE IF event \in {"CLValidatorsUpdated", "DepositedValidatorsChanged"} THEN "beaconStat"
                            ELSE IF event \in {"StakingPaused", "StakingResumed", "StakingLimitSet", "StakingLimitRemoved"}
                            THEN "stakeLimitFullInfo" ELSE ""
<1> DEFINE I == {i \in 1 .. Len(poolVariables) : event \in poolVariables[i].updateEvents}
           k == IF I # {} THEN Min(I) ELSE 0
<1>1. /\ Len(poolVariables) = 5
      /\ poolVariables[1].key = "isStopped" /\ poolVariables[2].key = "bufferedEther"
      /\ poolVariables[3].key = "totalELRewardsCollected" /\ poolVariables[4].key = "beaconStat"
      /\ poolVariables[5].key = "stakeLimitFullInfo"
      /\ poolVariables[1].updateEvents = {"Resumed", "Stopped"} /\ poolVariables[2].updateEvents = {"Unbuffered"}
      /\ poolVariables[3].updateEvents = {"ELRewardsReceived"}
      /\ poolVariables[4].updateEvents = {"CLValidatorsUpdated", "DepositedValidatorsChanged"}
      /\ poolVariables[5].updateEvents = {"StakingPaused", "StakingResumed", "StakingLimitSet", "StakingLimitRemoved"}
  BY DEF poolVariables, Variable
<1>2. Refreshed(event) = IF k = 0 THEN "" ELSE poolVariables[k].key
  BY DEF Refreshed, SelectInSeq, Variables
<1>3. I = {i \in 1 .. 5 : event \in poolVariables[i].updateEvents}
  BY <1>1
<1>4. ASSUME NEW j \in 1 .. 5, I = {j} PROVE Refreshed(event) = poolVariables[j].key
  <2>1. k = j /\ j # 0
    BY <1>4 DEF Min
  <2> HIDE DEF k
  <2>2. Refreshed(event) = poolVariables[k].key
    BY <1>2, <2>1
  <2> QED BY <2>1, <2>2
<1>5. CASE event \in {"Resumed", "Stopped"}
  <2>1. I = {1}
    BY <1>1, <1>3, <1>5
  <2> HIDE DEF I
  <2> QED BY <1>1, <1>4, <1>5, <2>1
<1>6. CASE event = "Unbuffered"
  <2>1. I = {2}
    BY <1>1, <1>3, <1>6
  <2> HIDE DEF I
  <2> QED BY <1>1, <1>4, <1>6, <2>1
<1>7. CASE event = "ELRewardsReceived"
  <2>1. I = {3}
    BY <1>1, <1>3, <1>7
  <2> HIDE DEF I
  <2> QED BY <1>1, <1>4, <1>7, <2>1
<1>8. CASE event \in {"CLValidatorsUpdated", "DepositedValidatorsChanged"}
  <2>1. I = {4}
    BY <1>1, <1>3, <1>8
  <2> HIDE DEF I
  <2> QED BY <1>1, <1>4, <1>8, <2>1
<1>9. CASE event \in {"StakingPaused", "StakingResumed", "StakingLimitSet", "StakingLimitRemoved"}
  <2>1. I = {5}
    BY <1>1, <1>3, <1>9
  <2> HIDE DEF I
  <2> QED BY <1>1, <1>4, <1>9, <2>1
<1>10. CASE event \notin {"Resumed", "Stopped", "Unbuffered", "ELRewardsReceived", "CLValidatorsUpdated",
                         "DepositedValidatorsChanged", "StakingPaused", "StakingResumed", "StakingLimitSet",
                         "StakingLimitRemoved"}
  <2>1. I = {}
    BY <1>1, <1>3, <1>10
  <2> QED BY <1>2, <1>10, <2>1
<1> QED BY <1>5, <1>6, <1>7, <1>8, <1>9, <1>10

(* What another application shows and this one does not.                   *)
Foreign(of) == IF of = "registry" THEN {"isStopped", "totalELRewardsCollected"}
                                  ELSE {"stakingModuleSummary", "nonce", "nodeOperators"}

(* A variable that is tracked is refreshed by the events listed, and no    *)
(* mark and no missing event refreshes any.                                *)
LEMMA RefreshedIsNews ==
  ASSUME app.of \in {"registry", "pool"}, NEW event
  PROVE  /\ \A key \in Tracked(app.of) : Refreshed(event) = key <=> event \in News(app.of, key)
         /\ Refreshed(event) # "" => event # "" /\ event \notin Marks
         /\ Refreshed(event) \notin Foreign(app.of) \cup {"isSyncing"}
         /\ app.of = "registry" => Refreshed(event) \in {"", "stakingModuleSummary", "nonce", "nodeOperators"}
<1>1. CASE app.of = "registry"
  <2>1. Refreshed(event) = IF event \in SummaryNews THEN "stakingModuleSummary"
                           ELSE IF event \in {"KeysOpIndexSet", "NonceChanged"} THEN "nonce"
                           ELSE IF event \in OperatorsNews THEN "nodeOperators" ELSE ""
    BY <1>1, RefreshedOfRegistry
  <2>2. /\ News(app.of, "stakingModuleSummary") = SummaryNews /\ News(app.of, "nodeOperators") = OperatorsNews
        /\ News(app.of, "nonce") = {"KeysOpIndexSet", "NonceChanged"}
    BY <1>1 DEF News
  <2>3. /\ \A e \in SummaryNews : e \notin OperatorsNews /\ e \notin {"KeysOpIndexSet", "NonceChanged", ""} \cup Marks
        /\ \A e \in OperatorsNews : e \notin {"KeysOpIndexSet", "NonceChanged", ""} \cup Marks
        /\ \A e \in {"KeysOpIndexSet", "NonceChanged"} : e \notin {""} \cup Marks
    BY DEF SummaryNews, OperatorsNews, Marks
  <2>4. /\ Refreshed(event) = "stakingModuleSummary" <=> event \in SummaryNews
        /\ Refreshed(event) = "nonce" <=> event \in {"KeysOpIndexSet", "NonceChanged"}
        /\ Refreshed(event) = "nodeOperators" <=> event \in OperatorsNews
    BY <2>1, <2>3
  <2>5. Refreshed(event) \in {"", "stakingModuleSummary", "nonce", "nodeOperators"}
    BY <2>1
  <2> QED BY <1>1, <2>2, <2>3, <2>4, <2>5 DEF Tracked, Foreign
<1>2. CASE app.of = "pool"
  <2>1. /\ News(app.of, "isStopped") = {"Resumed", "Stopped"}
        /\ News(app.of, "totalELRewardsCollected") = {"ELRewardsReceived"}
    BY <1>2 DEF News
  <2>2. /\ Refreshed(event) = "isStopped" <=> event \in {"Resumed", "Stopped"}
        /\ Refreshed(event) = "totalELRewardsCollected" <=> event = "ELRewardsReceived"
        /\ Refreshed(event) \in {"", "isStopped", "bufferedEther", "totalELRewardsCollected", "beaconStat", "stakeLimitFullInfo"}
    BY <1>2, RefreshedOfPool
  <2>3. Refreshed(event) # "" => event # "" /\ event \notin Marks
    BY <1>2, RefreshedOfPool DEF Marks
  <2> QED BY <1>2, <2>1, <2>2, <2>3 DEF Tracked, Foreign
<1> QED BY <1>1, <1>2

(* The events an application may be sent.                                   *)
Emitted == {"CLValidatorsUpdated", "DepositedSigningKeysCountChanged",
            "DepositedValidatorsChanged", "ELRewardsReceived", "ExitedSigningKeysCountChanged",
            "KeysOpIndexSet", "NodeOperatorActiveSet", "NodeOperatorAdded", "NodeOperatorNameSet",
            "NodeOperatorRewardAddressSet", "NodeOperatorTotalKeysTrimmed", "NonceChanged",
            "Resumed", "SigningKeyRemoved", "StakingPaused", "StakingResumed", "Stopped",
            "StuckPenaltyStateChanged", "Submitted", "TargetValidatorsCountChanged",
            "TotalSigningKeysCountChanged", "Unbuffered", "VettedSigningKeysCountChanged"}

Events == Emitted \cup Marks

(* One of some events is among those emitted.                              *)
Says(sequence, news) == \E k \in DOMAIN sequence : sequence[k] \in news

LEMMA SaysFacts ==
  ASSUME NEW s \in Seq(Events), NEW t \in Seq(Events)
  PROVE  /\ s \o t \in Seq(Events)
         /\ \A news : Says(s, news) \/ Says(t, news) => Says(s \o t, news)
<1> DEFINE u == s \o t
<1>1. /\ u \in Seq(Events) /\ Len(u) = Len(s) + Len(t)
      /\ \A k \in 1 .. Len(s) : u[k] = s[k]
      /\ \A k \in 1 .. Len(t) : u[Len(s) + k] = t[k]
  BY ConcatProperties
<1> HIDE DEF u
<1>2. /\ Len(s) \in Nat /\ Len(t) \in Nat /\ DOMAIN s = 1 .. Len(s) /\ DOMAIN t = 1 .. Len(t)
      /\ DOMAIN u = 1 .. Len(s) + Len(t)
  BY <1>1, SeqFacts
<1>3. ASSUME NEW news, NEW k \in DOMAIN s, s[k] \in news PROVE Says(u, news)
  <2>1. k \in DOMAIN u /\ u[k] = s[k]
    BY <1>1, <1>2
  <2> QED BY <1>3, <2>1 DEF Says
<1>4. ASSUME NEW news, NEW k \in DOMAIN t, t[k] \in news PROVE Says(u, news)
  <2>1. Len(s) + k \in DOMAIN u /\ u[Len(s) + k] = t[k]
    BY <1>1, <1>2
  <2> QED BY <1>4, <2>1 DEF Says
<1>5. ASSUME NEW news, Says(s, news) \/ Says(t, news) PROVE Says(u, news)
  BY <1>3, <1>4, <1>5 DEF Says
<1>6. u \in Seq(Events) /\ \A news : Says(s, news) \/ Says(t, news) => Says(u, news)
  BY <1>1, <1>5
<1> QED BY <1>6 DEF u

LEMMA NoEvent == <<>> \in Seq(Events)
OBVIOUS

LEMMA OneEvent ==
  ASSUME NEW event \in Events
  PROVE  /\ <<event>> \in Seq(Events)
         /\ \A news : event \in news => Says(<<event>>, news)
<1>1. <<event>> \in Seq(Events)
  OBVIOUS
<1>2. DOMAIN <<event>> = {1} /\ <<event>>[1] = event
  OBVIOUS
<1> QED BY <1>1, <1>2 DEF Says

LEMMA SomeEvents ==
  ASSUME NEW n \in Nat, NEW event \in Events
  PROVE  /\ [k \in 1 .. n |-> event] \in Seq(Events)
         /\ \A news : event \in news /\ n # 0 => Says([k \in 1 .. n |-> event], news)
<1>1. [k \in 1 .. n |-> event] \in [1 .. n -> Events]
  OBVIOUS
<1>2. [k \in 1 .. n |-> event] \in Seq(Events)
  BY <1>1, FunctionIsSequence
<1>3. n # 0 => 1 \in 1 .. n
  OBVIOUS
<1> QED BY <1>2, <1>3 DEF Says

-----------------------------------------------------------------------------
(* What an application shows, what it was answered and what it will hear   *)

Alike(a, op) == a.active = op.active /\ a.name = op.name /\ a.rewardAddress = op.rewardAddress

(* News of a change of the variable waits to be handled.                   *)
Coming(key) == Says(log, News(app.of, key))

Current(key, value) == value = Undefined \/ Announced(key, value) \/ Coming(key)

AppScene == scene \in {"registryApp", "poolApp"}

(* Everything emitted reaches the application.                             *)
Hears ==
  /\ listening /\ log \in Seq(Events)
  /\ {"isStopped", "totalELRewardsCollected"} \subseteq DOMAIN pool

(* Where the application is, and what it waits for there.                  *)
Control ==
  /\ {"of", "at", "key", "event", "failures", "sessions", "asked", "answers", "state"} \subseteq DOMAIN app
  /\ app.of = IF scene = "poolApp" THEN "pool" ELSE "registry"
  /\ app.at = "ready" => app.asked = {} /\ app.answers = NoAnswers
  /\ app.at = "fetching" =>
       /\ app.event \in Events /\ app.key \notin Foreign(app.of) \cup {"", "isSyncing"}
       /\ \A key \in Tracked(app.of) : app.key = key => app.event \in News(app.of, key)
       /\ View(app.key) \in app.asked \cup DOMAIN app.answers
  /\ app.at # "fetching" => app.event = "" /\ app.key = ""
  /\ app.of = "pool" /\ app.at = "init" =>
       \A v \in poolViews : View(v) \in app.asked \cup DOMAIN app.answers

(* The details of an operator are asked for, or were answered as they are. *)
DetailsOK ==
  \A i \in Ids : \/ Operator(i) \in app.asked
                 \/ /\ Operator(i) \in DOMAIN app.answers
                    /\ \/ app.answers[Operator(i)] = Undefined
                       \/ Alike(app.answers[Operator(i)], nodeOperators[i])

AnswersOK ==
  /\ \A key \in Tracked(app.of) \ {"nodeOperators"} :
       View(key) \in DOMAIN app.answers => Current(key, app.answers[View(key)])
  /\ app.of = "registry" /\ View("nodeOperators") \in DOMAIN app.answers =>
       \/ app.answers[View("nodeOperators")] = Undefined
       \/ Coming("nodeOperators")
       \/ app.answers[View("nodeOperators")] = Len(nodeOperators) /\ DetailsOK

ShownOK ==
  /\ DOMAIN app.state \cap Foreign(app.of) = {}
  /\ \A key \in DOMAIN app.state \cap Tracked(app.of) : Current(key, app.state[key]) \/ app.key = key

AppInv == IF AppScene THEN Hears /\ Control /\ AnswersOK /\ ShownOK ELSE app.at = "init"

(* A script that shows nothing else than what is current, or about to be.  *)
LEMMA AppInvIsEnough ==
  ASSUME AppInv PROVE CacheIsFreshOrPending
<1>1. SUFFICES ASSUME app.at \in {"ready", "fetching"}, NEW key \in DOMAIN app.state
               PROVE  \/ app.state[key] = Undefined \/ Announced(key, app.state[key])
                      \/ app.key = key
                      \/ \E k \in DOMAIN log : Refreshed(log[k]) = key
  BY DEF CacheIsFreshOrPending
<1>2. AppScene /\ Control /\ ShownOK
  BY <1>1 DEF AppInv
<1>3. app.of \in {"registry", "pool"}
  BY <1>2 DEF Control
<1>4. CASE key \in Tracked(app.of)
  <2>1. Current(key, app.state[key]) \/ app.key = key
    BY <1>1, <1>2, <1>4 DEF ShownOK
  <2>2. CASE Coming(key)
    <3>1. PICK k \in DOMAIN log : log[k] \in News(app.of, key)
      BY <2>2 DEF Coming, Says
    <3>2. Refreshed(log[k]) = key
      BY <1>3, <1>4, <3>1, RefreshedIsNews
    <3> QED BY <3>2
  <2> QED BY <2>1, <2>2 DEF Current
<1>5. CASE key \notin Tracked(app.of)
  <2>1. key \notin Foreign(app.of)
    BY <1>1, <1>2 DEF ShownOK
  <2>2. key \notin {"nonce", "stakingModuleSummary", "nodeOperators", "isStopped", "totalELRewardsCollected"}
    BY <1>3, <1>5, <2>1 DEF Tracked, Foreign
  <2>3. Announced(key, app.state[key])
    BY <2>2 DEF Announced
  <2> QED BY <2>3
<1> QED BY <1>4, <1>5

LEMMA AppInvInit ==
  ASSUME Init PROVE AppInv
<1>1. CASE AppScene
  <2> DEFINE of == IF scene = "poolApp" THEN "pool" ELSE "registry"
  <2>1. /\ listening /\ log = Session(<<>>)
    BY <1>1 DEF Init, AppScene
  <2>2. AppStart(of)
    BY DEF Init
  <2>3. log \in Seq(Events)
    <3>1. /\ <<"SYNC_STATUS_SYNCING">> \in Seq(Events) /\ <<"SYNC_STATUS_SYNCED">> \in Seq(Events)
          /\ <<>> \in Seq(Events)
      <4>1. "SYNC_STATUS_SYNCING" \in Events /\ "SYNC_STATUS_SYNCED" \in Events
        BY DEF Events, Marks
      <4> QED BY <4>1, NoEvent, OneEvent
    <3>2. <<"SYNC_STATUS_SYNCING">> \o <<>> \in Seq(Events)
      BY <3>1, SaysFacts
    <3> QED BY <2>1, <3>1, <3>2, SaysFacts DEF Session
  <2>4. Hears
    BY <2>1, <2>2, <2>3 DEF Hears, AppStart
  <2>5. /\ app.of = of /\ app.at = "init" /\ app.key = "" /\ app.event = "" /\ app.answers = <<>> /\ app.state = <<>>
        /\ app.asked = {View(v) : v \in IF of = "registry" THEN registryViews ELSE poolViews}
        /\ DOMAIN app = {"of", "at", "key", "event", "failures", "sessions", "asked", "answers", "state"}
    BY <2>2 DEF AppStart, NoAnswers
  <2>6. Control
    BY <2>5 DEF Control
  <2>7. AnswersOK /\ ShownOK
    <3>0. DOMAIN <<>> = {}
      OBVIOUS
    <3>1. DOMAIN app.answers = {} /\ DOMAIN app.state = {}
      BY <2>5, <3>0
    <3> QED BY <3>1 DEF AnswersOK, ShownOK
  <2> QED BY <1>1, <2>4, <2>6, <2>7 DEF AppInv
<1>2. CASE ~ AppScene
  BY <1>2 DEF Init, AppStart, AppInv
<1> QED BY <1>1, <1>2

(* What a step of the contracts leaves as the applications know it.        *)
Kept(key) ==
  CASE key = "nonce" -> nonce' = nonce
    [] key = "stakingModuleSummary" -> summary'.exited = summary.exited /\ summary'.deposited = summary.deposited
    [] key = "nodeOperators" -> /\ Len(nodeOperators') = Len(nodeOperators)
                                /\ \A i \in Ids : Alike(nodeOperators'[i], nodeOperators[i])
    [] key \in {"isStopped", "totalELRewardsCollected"} -> pool'[key] = pool[key]

(* And what it leaves not, its events tell.                                *)
Announces(of, events0) ==
  \A key \in Tracked(of) : Kept(key) \/ Says(events0, News(of, key))

LEMMA KeptIsAnnounced ==
  ASSUME NEW of \in {"registry", "pool"}, NEW key \in Tracked(of), Kept(key), NEW value, Announced(key, value)
  PROVE  Announced(key, value)'
<1>1. key \in {"nonce", "stakingModuleSummary", "nodeOperators", "isStopped", "totalELRewardsCollected"}
  BY DEF Tracked
<1>2. CASE key = "nodeOperators"
  <2>1. /\ Len(nodeOperators') = Len(nodeOperators) /\ Ids' = Ids
        /\ \A i \in Ids : Alike(nodeOperators'[i], nodeOperators[i])
    BY <1>2 DEF Kept, Ids
  <2>2. /\ Len(value) = Len(nodeOperators)
        /\ \A i \in Ids : value[i] # Undefined => Alike(value[i], nodeOperators[i])
    BY <1>2 DEF Announced, Alike
  <2>3. /\ Len(value) = Len(nodeOperators')
        /\ \A i \in Ids' : value[i] # Undefined => Alike(value[i], nodeOperators'[i])
    BY <2>1, <2>2 DEF Alike
  <2> QED BY <1>2, <2>3 DEF Announced, Alike
<1>3. CASE key = "nonce"
  BY <1>3 DEF Announced, Kept
<1>4. CASE key = "stakingModuleSummary"
  BY <1>4 DEF Announced, Kept
<1>5. CASE key \in {"isStopped", "totalELRewardsCollected"}
  BY <1>5 DEF Announced, Kept
<1> QED BY <1>1, <1>2, <1>3, <1>4, <1>5

(* A step of the contracts, whatever the application is doing.             *)
LEMMA WorldKeeps ==
  ASSUME AppInv, AppScene, UNCHANGED <<app, scene, listening>>, DOMAIN pool' = DOMAIN pool,
         NEW events0 \in Seq(Events), log' = log \o events0,
         Announces("registry", events0), Announces("pool", events0)
  PROVE  AppInv'
<1>0. Hears /\ Control /\ AnswersOK /\ ShownOK
  BY DEF AppInv
<1>1. AppScene' /\ Hears'
  BY <1>0, SaysFacts DEF AppScene, Hears
<1>2. app.of \in {"registry", "pool"} /\ app' = app /\ scene' = scene
  BY <1>0 DEF Control
<1>3. Control'
  <2>1. /\ {"of", "at", "key", "event", "failures", "sessions", "asked", "answers", "state"} \subseteq DOMAIN app'
        /\ app'.of = IF scene' = "poolApp" THEN "pool" ELSE "registry"
        /\ app'.at = "ready" => app'.asked = {} /\ app'.answers = NoAnswers
        /\ app'.at # "fetching" => app'.event = "" /\ app'.key = ""
    BY <1>0, <1>2 DEF Control
  <2>2. app'.at = "fetching" =>
          /\ app'.event \in Events /\ app'.key \notin Foreign(app'.of) \cup {"", "isSyncing"}
          /\ \A key \in Tracked(app'.of) : app'.key = key => app'.event \in News(app'.of, key)
          /\ View(app'.key) \in app'.asked \cup DOMAIN app'.answers
    BY <1>0, <1>2 DEF Control
  <2>3. app'.of = "pool" /\ app'.at = "init" =>
          \A v \in poolViews : View(v) \in app'.asked \cup DOMAIN app'.answers
    BY <1>0, <1>2 DEF Control
  <2>4. NoAnswers' = NoAnswers /\ poolViews' = poolViews /\ \A v : View(v)' = View(v)
    BY DEF NoAnswers, View
  <2> QED BY <2>1, <2>2, <2>3, <2>4 DEF Control, NoAnswers, View
<1>4. ASSUME NEW key \in Tracked(app.of), Coming(key) PROVE Coming(key)'
  BY <1>0, <1>2, <1>4, SaysFacts DEF Hears, Coming
<1>5. ASSUME NEW key \in Tracked(app.of), ~ Kept(key) PROVE Coming(key)'
  <2>1. Says(events0, News(app.of, key))
    BY <1>2, <1>5 DEF Announces
  <2> QED BY <1>0, <1>2, <2>1, SaysFacts DEF Hears, Coming
<1>6. ASSUME NEW key \in Tracked(app.of), NEW value, Current(key, value) PROVE Current(key, value)'
  <2>1. CASE value = Undefined \/ Coming(key) \/ ~ Kept(key)
    BY <1>4, <1>5, <2>1 DEF Current
  <2>2. CASE Announced(key, value) /\ Kept(key)
    BY <1>2, <2>2, KeptIsAnnounced DEF Current
  <2> QED BY <1>6, <2>1, <2>2 DEF Current
<1>7. ASSUME NEW key \in Tracked(app.of) \ {"nodeOperators"}, View(key) \in DOMAIN app.answers
      PROVE  Current(key, app.answers[View(key)])'
  <2> DEFINE v == app.answers[View(key)]
  <2>1. Current(key, v)
    BY <1>0, <1>7 DEF AnswersOK
  <2>2. v' = v
    BY <1>2 DEF View
  <2> QED BY <1>6, <2>1, <2>2
<1>8. ASSUME app.of = "registry", View("nodeOperators") \in DOMAIN app.answers
      PROVE  \/ app.answers[View("nodeOperators")] = Undefined
             \/ Coming("nodeOperators")'
             \/ app.answers[View("nodeOperators")] = Len(nodeOperators)' /\ DetailsOK'
  <2>1. CASE ~ Kept("nodeOperators") \/ Coming("nodeOperators")
    BY <1>4, <1>5, <1>8, <2>1 DEF Tracked
  <2>2. CASE Kept("nodeOperators") /\ app.answers[View("nodeOperators")] = Len(nodeOperators) /\ DetailsOK
    <3>1. /\ Len(nodeOperators') = Len(nodeOperators) /\ Ids' = Ids
          /\ \A i \in Ids : Alike(nodeOperators'[i], nodeOperators[i])
      BY <2>2 DEF Kept, Ids
    <3>2. DetailsOK'
      BY <1>2, <2>2, <3>1 DEF DetailsOK, Alike, Operator
    <3> QED BY <2>2, <3>1, <3>2
  <2> QED BY <1>0, <1>8, <2>1, <2>2 DEF AnswersOK
<1>9. AnswersOK'
  BY <1>2, <1>7, <1>8 DEF AnswersOK, View
<1>10. ASSUME NEW key \in DOMAIN app.state \cap Tracked(app.of)
       PROVE  (Current(key, app.state[key]) \/ app.key = key)'
  <2> DEFINE v == app.state[key]
  <2>1. Current(key, v) \/ app.key = key
    BY <1>0 DEF ShownOK
  <2>2. v' = v
    BY <1>2
  <2> QED BY <1>2, <1>6, <2>1, <2>2
<1>11. ShownOK'
  BY <1>0, <1>2, <1>10 DEF ShownOK
<1> QED BY <1>1, <1>3, <1>9, <1>11 DEF AppInv

-----------------------------------------------------------------------------
(* Sequences of events put together, and what is left without the marks    *)

(* The function FlattenSeq is defined by, up to `n` sequences.             *)
Flattens(flat, seqs, n) ==
  flat = [i \in 1 .. n |-> IF i = 1 THEN seqs[i] ELSE flat[i - 1] \o seqs[i]]

LEMMA FlattensExists ==
  ASSUME NEW seqs, NEW n \in Nat
  PROVE  \E flat : Flattens(flat, seqs, n)
<1> DEFINE P == {m \in 0 .. n : \E flat : Flattens(flat, seqs, m)}
           next(s, i) == s \o seqs[i]
<1>1. 0 \in P
  <2> DEFINE f == [i \in 1 .. 0 |-> seqs]
  <2>1. f = [i \in 1 .. 0 |-> IF i = 1 THEN seqs[i] ELSE next(f[i - 1], i)]
    OBVIOUS
  <2> HIDE DEF f
  <2>2. Flattens(f, seqs, 0)
    BY <2>1 DEF Flattens
  <2> QED BY <2>2
<1>2. ASSUME NEW m \in 1 .. n, m - 1 \in P
      PROVE  m \in P
  <2>1. PICK g : Flattens(g, seqs, m - 1)
    BY <1>2
  <2> HIDE DEF next
  <2>2. /\ DOMAIN g = 1 .. m - 1
        /\ \A i \in 1 .. m - 1 : g[i] = IF i = 1 THEN seqs[i] ELSE next(g[i - 1], i)
    <3>1. g = [i \in 1 .. m - 1 |-> IF i = 1 THEN seqs[i] ELSE next(g[i - 1], i)]
      BY <2>1 DEF Flattens, next
    <3> QED BY <3>1
  <2> DEFINE f == [i \in 1 .. m |-> IF i # m THEN g[i] ELSE IF m = 1 THEN seqs[m] ELSE next(g[m - 1], m)]
  <2>3. \A i \in 1 .. m : f[i] = IF i = 1 THEN seqs[i] ELSE next(f[i - 1], i)
    <3>1. SUFFICES ASSUME NEW i \in 1 .. m PROVE f[i] = IF i = 1 THEN seqs[i] ELSE next(f[i - 1], i)
      OBVIOUS
    <3>2. CASE i = m
      <4>1. m # 1 => m - 1 \in 1 .. m /\ m - 1 # m
        OBVIOUS
      <4>2. /\ f[m] = IF m = 1 THEN seqs[m] ELSE next(g[m - 1], m)
            /\ m # 1 => f[m - 1] = g[m - 1]
        BY <4>1
      <4> HIDE DEF f
      <4> QED BY <3>2, <4>2
    <3>3. CASE i # m
      <4>1. i \in 1 .. m - 1 /\ (i # 1 => i - 1 \in 1 .. m /\ i - 1 # m)
        BY <3>3
      <4>2. f[i] = g[i] /\ (i # 1 => f[i - 1] = g[i - 1])
        BY <4>1, <3>3
      <4> HIDE DEF f
      <4> QED BY <2>2, <4>1, <4>2
    <3> QED BY <3>2, <3>3
  <2>4. f = [i \in 1 .. m |-> f[i]]
    OBVIOUS
  <2> HIDE DEF f
  <2>5. f = [i \in 1 .. m |-> IF i = 1 THEN seqs[i] ELSE next(f[i - 1], i)]
    BY <2>3, <2>4
  <2>6. Flattens(f, seqs, m)
    BY <2>5 DEF Flattens, next
  <2> QED BY <2>6
<1> HIDE DEF P
<1>3. n \in P
  BY <1>1, <1>2, UpTo
<1> QED BY <1>3 DEF P

LEMMA FlattenFacts ==
  ASSUME NEW S, NEW seqs \in Seq(Seq(S))
  PROVE  FlattenSeq(seqs) \in Seq(S)
<1> DEFINE n == Len(seqs)
           flat == CHOOSE f : Flattens(f, seqs, n)
<1>1. n \in Nat /\ \A i \in 1 .. n : seqs[i] \in Seq(S)
  BY SeqFacts
<1>2. FlattenSeq(seqs) = IF n = 0 THEN seqs ELSE flat[n]
  BY DEF FlattenSeq, Flattens
<1>3. Flattens(flat, seqs, n)
  BY <1>1, FlattensExists
<1> HIDE DEF flat
<1>4. n = 0 => seqs \in Seq(S)
  <2>1. n = 0 => seqs = <<>>
    BY EmptySeq
  <2> QED BY <2>1, EmptySeq
<1> HIDE DEF n
<1> DEFINE P == {m \in 0 .. n : m = 0 \/ flat[m] \in Seq(S)}
<1>5. 0 \in P
  BY <1>1
<1>6. ASSUME NEW m \in 1 .. n, m - 1 \in P PROVE m \in P
  <2>1. flat[m] = IF m = 1 THEN seqs[m] ELSE flat[m - 1] \o seqs[m]
    BY <1>3 DEF Flattens
  <2>2. m # 1 => flat[m - 1] \in Seq(S)
    BY <1>6
  <2>3. seqs[m] \in Seq(S)
    BY <1>1
  <2>4. flat[m] \in Seq(S)
    BY <2>1, <2>2, <2>3, ConcatProperties
  <2> QED BY <1>1, <2>4
<1> HIDE DEF P
<1>7. n \in P
  <2>1. n \in Nat /\ n \in 0 .. n
    BY <1>1
  <2>2. \A k \in 0 .. n : k \in P
    BY ONLY <2>1, <1>5, <1>6, UpTo
  <2> QED BY <2>1, <2>2
<1>8. n = 0 \/ flat[n] \in Seq(S)
  BY <1>7 DEF P
<1> QED BY <1>2, <1>4, <1>8

(* The function WithoutMarks is defined by, up to `n` events.              *)
Unmarks(left, sequence, n) ==
  left = [k \in 0 .. n |-> IF k = 0 THEN <<>>
                           ELSE IF sequence[k] \in Marks THEN left[k - 1] ELSE Append(left[k - 1], sequence[k])]

LEMMA UnmarksExists ==
  ASSUME NEW sequence, NEW n \in Nat
  PROVE  \E left : Unmarks(left, sequence, n)
<1> DEFINE P == {m \in 0 .. n : \E left : Unmarks(left, sequence, m)}
           next(s, k) == IF sequence[k] \in Marks THEN s ELSE Append(s, sequence[k])
<1>1. 0 \in P
  <2> DEFINE f == [k \in 0 .. 0 |-> <<>>]
  <2>1. f = [k \in 0 .. 0 |-> IF k = 0 THEN <<>> ELSE next(f[k - 1], k)]
    OBVIOUS
  <2> HIDE DEF f
  <2>2. Unmarks(f, sequence, 0)
    BY <2>1 DEF Unmarks
  <2> QED BY <2>2
<1>2. ASSUME NEW m \in 1 .. n, m - 1 \in P
      PROVE  m \in P
  <2>1. PICK g : Unmarks(g, sequence, m - 1)
    BY <1>2
  <2> HIDE DEF next
  <2>2. /\ DOMAIN g = 0 .. m - 1
        /\ \A k \in 0 .. m - 1 : g[k] = IF k = 0 THEN <<>> ELSE next(g[k - 1], k)
    <3>1. g = [k \in 0 .. m - 1 |-> IF k = 0 THEN <<>> ELSE next(g[k - 1], k)]
      BY <2>1 DEF Unmarks, next
    <3> QED BY <3>1
  <2> DEFINE f == [k \in 0 .. m |-> IF k = m THEN next(g[m - 1], m) ELSE g[k]]
  <2>3. \A k \in 0 .. m : f[k] = IF k = 0 THEN <<>> ELSE next(f[k - 1], k)
    <3>1. SUFFICES ASSUME NEW k \in 0 .. m PROVE f[k] = IF k = 0 THEN <<>> ELSE next(f[k - 1], k)
      OBVIOUS
    <3>2. CASE k = m
      <4>1. m - 1 \in 0 .. m /\ m - 1 # m /\ m # 0
        OBVIOUS
      <4>2. f[m - 1] = g[m - 1] /\ f[m] = next(g[m - 1], m)
        BY <4>1
      <4> HIDE DEF f
      <4> QED BY <3>2, <4>1, <4>2
    <3>3. CASE k # m
      <4>1. k \in 0 .. m - 1 /\ (k # 0 => k - 1 \in 0 .. m /\ k - 1 # m)
        BY <3>3
      <4>2. f[k] = g[k] /\ (k # 0 => f[k - 1] = g[k - 1])
        BY <4>1, <3>3
      <4> HIDE DEF f
      <4> QED BY <2>2, <4>1, <4>2
    <3> QED BY <3>2, <3>3
  <2>4. f = [k \in 0 .. m |-> f[k]]
    OBVIOUS
  <2> HIDE DEF f
  <2>5. f = [k \in 0 .. m |-> IF k = 0 THEN <<>> ELSE next(f[k - 1], k)]
    BY <2>3, <2>4
  <2>6. Unmarks(f, sequence, m)
    BY <2>5 DEF Unmarks, next
  <2> QED BY <2>6
<1> HIDE DEF P
<1>3. n \in P
  BY <1>1, <1>2, UpTo
<1> QED BY <1>3 DEF P

(* Leaving out the marks loses no other event.                             *)
LEMMA UnmarkedFacts ==
  ASSUME NEW sequence \in Seq(Events)
  PROVE  /\ WithoutMarks(sequence) \in Seq(Events)
         /\ \A news : Says(sequence, news) /\ news \cap Marks = {} => Says(WithoutMarks(sequence), news)
<1> DEFINE n == Len(sequence)
           left == CHOOSE l : Unmarks(l, sequence, n)
<1>1. n \in Nat /\ DOMAIN sequence = 1 .. n /\ \A k \in 1 .. n : sequence[k] \in Events
  BY SeqFacts
<1>2. WithoutMarks(sequence) = left[n]
  BY DEF WithoutMarks, Unmarks
<1>3. Unmarks(left, sequence, n)
  BY <1>1, UnmarksExists
<1> HIDE DEF left, n
<1> DEFINE held(s, m) == \A k \in 1 .. m : sequence[k] \notin Marks => \E j \in DOMAIN s : s[j] = sequence[k]
           P == {m \in 0 .. n : left[m] \in Seq(Events) /\ held(left[m], m)}
<1>4. 0 \in P
  <2>1. left[0] = <<>>
    BY <1>1, <1>3 DEF Unmarks
  <2>2. left[0] \in Seq(Events) /\ held(left[0], 0)
    BY <2>1, NoEvent
  <2> QED BY <1>1, <2>2
<1>5. ASSUME NEW m \in 1 .. n, m - 1 \in P PROVE m \in P
  <2> DEFINE s == left[m - 1]
             t == left[m]
  <2>1. t = IF sequence[m] \in Marks THEN s ELSE Append(s, sequence[m])
    <3>1. m \in 0 .. n /\ m # 0
      BY <1>1
    <3> QED BY <1>3, <3>1 DEF Unmarks
  <2>2. s \in Seq(Events) /\ held(s, m - 1)
    BY <1>5
  <2> HIDE DEF s, t
  <2>3. sequence[m] \in Events
    BY <1>1
  <2>4. t \in Seq(Events) /\ held(t, m)
    <3>1. CASE sequence[m] \in Marks
      <4>1. \A k \in 1 .. m : k = m \/ k \in 1 .. m - 1
        OBVIOUS
      <4> QED BY <2>1, <2>2, <3>1, <4>1
    <3>2. CASE sequence[m] \notin Marks
      <4>1. /\ t \in Seq(Events) /\ Len(t) = Len(s) + 1 /\ t[Len(s) + 1] = sequence[m]
            /\ \A j \in 1 .. Len(s) : t[j] = s[j]
        BY <2>1, <2>2, <2>3, <3>2, AppendProperties
      <4>2. Len(s) \in Nat /\ DOMAIN s = 1 .. Len(s) /\ DOMAIN t = 1 .. Len(s) + 1
        BY <2>2, <4>1, SeqFacts
      <4>3. ASSUME NEW k \in 1 .. m, sequence[k] \notin Marks PROVE \E j \in DOMAIN t : t[j] = sequence[k]
        <5>1. CASE k = m
          <6>1. Len(s) + 1 \in DOMAIN t
            BY <4>2
          <6> QED BY <4>1, <5>1, <6>1
        <5>2. CASE k \in 1 .. m - 1
          <6>1. PICK j \in DOMAIN s : s[j] = sequence[k]
            BY <2>2, <4>3, <5>2
          <6>2. j \in DOMAIN t /\ t[j] = sequence[k]
            BY <4>1, <4>2, <6>1
          <6> QED BY <6>2
        <5>3. k = m \/ k \in 1 .. m - 1
          OBVIOUS
        <5> QED BY <5>1, <5>2, <5>3
      <4> QED BY <4>1, <4>3
    <3> QED BY <3>1, <3>2
  <2>5. m \in 0 .. n
    BY <1>1
  <2> QED BY <2>4, <2>5 DEF t
<1> HIDE DEF P
<1>6. n \in P
  BY <1>1, <1>4, <1>5, UpTo
<1>7. left[n] \in Seq(Events) /\ held(left[n], n)
  BY <1>6 DEF P
<1>8. ASSUME NEW news, Says(sequence, news), news \cap Marks = {} PROVE Says(left[n], news)
  <2>1. PICK k \in DOMAIN sequence : sequence[k] \in news
    BY <1>8 DEF Says
  <2>2. PICK j \in DOMAIN left[n] : left[n][j] = sequence[k]
    BY <1>1, <1>7, <1>8, <2>1
  <2> QED BY <2>1, <2>2 DEF Says
<1> QED BY <1>2, <1>7, <1>8

-----------------------------------------------------------------------------
(* Every call of the registry tells what it changes                        *)

NonceNews == {"KeysOpIndexSet", "NonceChanged"}
Identity == {"active", "name", "rewardAddress"}
Counted == {"exited", "deposited"}

Tells == \E e \in Seq(Events) : log' = log \o e /\ Announces("registry", e)

LEMMA TellsIf ==
  ASSUME listening, NEW e \in Seq(Events), Emit(e),
         nonce' = nonce \/ Says(e, NonceNews),
         (summary'.exited = summary.exited /\ summary'.deposited = summary.deposited) \/ Says(e, SummaryNews),
         \/ Len(nodeOperators') = Len(nodeOperators) /\ \A i \in Ids : Alike(nodeOperators'[i], nodeOperators[i])
         \/ Says(e, OperatorsNews)
  PROVE  Tells
<1>1. log' = log \o e
  BY DEF Emit
<1>2. /\ News("registry", "nonce") = NonceNews /\ News("registry", "stakingModuleSummary") = SummaryNews
      /\ News("registry", "nodeOperators") = OperatorsNews
  BY DEF News, NonceNews
<1>3. /\ Kept("nonce") \/ Says(e, NonceNews)
      /\ Kept("stakingModuleSummary") \/ Says(e, SummaryNews)
      /\ Kept("nodeOperators") \/ Says(e, OperatorsNews)
  BY DEF Kept
<1>4. Announces("registry", e)
  BY <1>2, <1>3 DEF Announces, Tracked
<1> QED BY <1>1, <1>4 DEF Tells

LEMMA NonceIsTold ==
  ASSUME NEW s \in Seq(Events)
  PROVE  /\ s \o NonceEvents \in Seq(Events) /\ Says(s \o NonceEvents, NonceNews)
         /\ \A news : Says(s, news) => Says(s \o NonceEvents, news)
         /\ NonceEvents \in Seq(Events) /\ Says(NonceEvents, NonceNews)
<1>1. NonceEvents \in Seq(Events)
  <2>1. "KeysOpIndexSet" \in Events /\ "NonceChanged" \in Events
    BY DEF Events, Emitted
  <2> QED BY <2>1 DEF NonceEvents
<1>2. Says(NonceEvents, NonceNews)
  BY DEF Says, NonceEvents, NonceNews
<1> QED BY <1>1, <1>2, SaysFacts

LEMMA ToldIf ==
  ASSUME NEW changed, NEW event \in Events
  PROVE  /\ EventIf(changed, event) \in Seq(Events)
         /\ \A news : changed /\ event \in news => Says(EventIf(changed, event), news)
BY OneEvent, NoEvent DEF EventIf

(* An operator that has some fields of another.                            *)
Like(q, op, F) == F \subseteq DOMAIN q /\ \A f \in F : q[f] = op[f]

LEMMA LikeKept ==
  ASSUME NEW F, NEW op, F \subseteq DOMAIN op, "max" \notin F, "stuck" \notin F, "refunded" \notin F, "penaltyEnd" \notin F
  PROVE  /\ Like(op, op, F)
         /\ \A q : Like(q, op, F) => Like(Limited(q), op, F)
         /\ \A v : Like(WithStuck(op, v), op, F) /\ Like(WithRefunded(op, v), op, F)
         /\ \A v : "exited" \notin F \/ v = op.exited => Like(WithExited(op, v), op, F)
<1>1. Like(op, op, F)
  BY DEF Like
<1>2. ASSUME NEW q, Like(q, op, F) PROVE Like(Limited(q), op, F)
  BY <1>2 DEF Limited, Like
<1>3. ASSUME NEW v, NEW e
      PROVE  /\ Like([op EXCEPT !.stuck = v, !.penaltyEnd = e], op, F)
             /\ Like([op EXCEPT !.refunded = v, !.penaltyEnd = e], op, F)
  BY DEF Like
<1>4. ASSUME NEW v PROVE Like(WithStuck(op, v), op, F) /\ Like(WithRefunded(op, v), op, F)
  BY <1>1, <1>2, <1>3 DEF WithStuck, WithRefunded
<1>5. ASSUME NEW v, "exited" \notin F \/ v = op.exited PROVE Like(WithExited(op, v), op, F)
  <2>1. CASE v = op.exited
    BY <1>1, <2>1 DEF WithExited
  <2>2. CASE "exited" \notin F
    <3>1. Like([op EXCEPT !.exited = v], op, F)
      BY <2>2 DEF Like
    <3> QED BY <1>1, <1>2, <3>1 DEF WithExited
  <2> QED BY <1>5, <2>1, <2>2
<1> QED BY <1>1, <1>2, <1>4, <1>5

(* A sum moves only when the counter of an operator does.                  *)
LEMMA SummaryKept ==
  ASSUME RegInv, RegInv', Ids' = Ids, NEW f \in Fields,
         \A i \in Ids : nodeOperators'[i][f] = nodeOperators[i][f]
  PROVE  summary'[f] = summary[f]
<1>1. summary[f] = SumOf(Counter(f), Ids)
  BY DEF RegInv, SummaryOK
<1>2. summary'[f] = SumOf(Counter(f)', Ids)
  BY DEF RegInv, SummaryOK
<1>3. Counter(f)' = Counter(f)
  BY DEF Counter
<1> QED BY <1>1, <1>2, <1>3

LEMMA StoreTells ==
  ASSUME RegInv, RegInv', listening, NEW new, NEW fields, Store(new, fields), NEW e \in Seq(Events), Emit(e),
         nonce' = nonce \/ Says(e, NonceNews),
         (\A i \in DOMAIN new \cap Ids : Like(new[i], nodeOperators[i], Counted)) \/ Says(e, SummaryNews),
         (\A i \in DOMAIN new \cap Ids : Like(new[i], nodeOperators[i], Identity)) \/ Says(e, OperatorsNews)
  PROVE  Tells
<1>1. /\ Ids' = Ids
      /\ \A i \in Ids : nodeOperators'[i] = IF i \in DOMAIN new THEN new[i] ELSE nodeOperators[i]
  BY StoreIds
<1>2. Len(nodeOperators') = Len(nodeOperators)
  <2>1. /\ Len(nodeOperators) \in Nat /\ Len(nodeOperators') \in Nat
        /\ 1 .. Len(nodeOperators') = 1 .. Len(nodeOperators)
    BY <1>1, IdsFinite DEF RegInv, RegistryTypeOK, Ids
  <2> DEFINE m == Len(nodeOperators)
             n == Len(nodeOperators')
  <2> HIDE DEF m, n
  <2>2. m \in Nat /\ n \in Nat /\ 1 .. n = 1 .. m
    BY <2>1 DEF m, n
  <2>3. m = n
    BY <2>2
  <2> QED BY <2>3 DEF m, n
<1>3. (\A i \in DOMAIN new \cap Ids : Like(new[i], nodeOperators[i], Counted)) =>
         summary'.exited = summary.exited /\ summary'.deposited = summary.deposited
  <2>1. SUFFICES ASSUME \A i \in DOMAIN new \cap Ids : Like(new[i], nodeOperators[i], Counted), NEW f \in Counted
                 PROVE  summary'[f] = summary[f]
    BY DEF Counted
  <2>2. \A i \in Ids : nodeOperators'[i][f] = nodeOperators[i][f]
    BY <1>1, <2>1 DEF Like
  <2>3. f \in Fields
    BY DEF Counted, Fields
  <2> QED BY <1>1, <2>2, <2>3, SummaryKept
<1>4. (\A i \in DOMAIN new \cap Ids : Like(new[i], nodeOperators[i], Identity)) =>
         \A i \in Ids : Alike(nodeOperators'[i], nodeOperators[i])
  BY <1>1 DEF Like, Identity, Alike
<1> QED BY <1>2, <1>3, <1>4, TellsIf

LEMMA OneTells ==
  ASSUME RegInv, RegInv', listening, NEW id \in Ids, NEW q, NEW fields, Store(Only(id, q), fields),
         NEW e \in Seq(Events), Emit(e),
         nonce' = nonce \/ Says(e, NonceNews),
         Like(q, nodeOperators[id], Counted) \/ Says(e, SummaryNews),
         Like(q, nodeOperators[id], Identity) \/ Says(e, OperatorsNews)
  PROVE  Tells
<1>1. DOMAIN Only(id, q) = {id} /\ Only(id, q)[id] = q
  BY DEF Only
<1> DEFINE new == Only(id, q)
<1> HIDE DEF new
<1>2. Store(new, fields) /\ DOMAIN new = {id} /\ new[id] = q
  BY <1>1 DEF new
<1> QED BY <1>2, StoreTells

(* Every operator has the fields the applications show or sum.             *)
LEMMA HasFields ==
  ASSUME RegInv, NEW i \in Ids
  PROVE  /\ Identity \subseteq DOMAIN nodeOperators[i] /\ Counted \subseteq DOMAIN nodeOperators[i]
         /\ Like(nodeOperators[i], nodeOperators[i], Identity) /\ Like(nodeOperators[i], nodeOperators[i], Counted)
BY StoredOperator, OperatorFields DEF Identity, Counted, Like

LEMMA LooksKept ==
  ASSUME NEW F \in {Identity, Counted}, NEW op, F \subseteq DOMAIN op
  PROVE  /\ Like(op, op, F)
         /\ \A q : Like(q, op, F) => Like(Limited(q), op, F)
         /\ \A v : Like(WithStuck(op, v), op, F) /\ Like(WithRefunded(op, v), op, F)
         /\ \A v : "exited" \notin F \/ v = op.exited => Like(WithExited(op, v), op, F)
<1>1. "max" \notin F /\ "stuck" \notin F /\ "refunded" \notin F /\ "penaltyEnd" \notin F
  BY DEF Identity, Counted
<1> QED BY <1>1, LikeKept

LEMMA NothingToTell ==
  ASSUME listening, log \in Seq(Events), UNCHANGED <<nodeOperators, summary, nonce, log>>
  PROVE  Tells
<1>1. log' = log \o <<>>
  BY ConcatEmptySeq
<1>2. Emit(<<>>)
  BY <1>1 DEF Emit
<1>3. \A i \in Ids : Alike(nodeOperators'[i], nodeOperators[i])
  BY DEF Alike
<1> QED BY <1>2, <1>3, NoEvent, TellsIf

LEMMA OwnersTell ==
  ASSUME RegInv, RegInv', listening, log \in Seq(Events), OwnersStep
  PROVE  Tells
<1>0. PICK caller \in owners :
         \/ \E name, address \in Names : addNodeOperator(caller, name, address)
         \/ \E id \in Ids, limit \in Nat : setNodeOperatorStakingLimit(caller, id, limit)
         \/ \E id \in Ids, added \in Seq(SigningKeys) : addSigningKeys(caller, id, added)
         \/ \E id \in Ids, from, count \in Nat : removeSigningKeys(caller, id, from, count)
  BY DEF OwnersStep
<1>1. /\ "NodeOperatorAdded" \in Events /\ "VettedSigningKeysCountChanged" \in Events
      /\ "TotalSigningKeysCountChanged" \in Events /\ "SigningKeyRemoved" \in Events
  BY DEF Events, Emitted
<1>2. ASSUME UNCHANGED registryVars PROVE Tells
  BY <1>2, NothingToTell DEF registryVars
<1>3. ASSUME NEW name, NEW address, addNodeOperator(caller, name, address) PROVE Tells
  <2> DEFINE e == <<"NodeOperatorAdded">>
  <2>1. Emit(e) /\ UNCHANGED <<summary, nonce>>
    BY <1>3 DEF addNodeOperator
  <2>2. "NodeOperatorAdded" \in OperatorsNews
    BY DEF OperatorsNews
  <2>3. e \in Seq(Events) /\ Says(e, OperatorsNews)
    BY <1>1, <2>2, OneEvent
  <2> HIDE DEF e
  <2> QED BY <2>1, <2>3, TellsIf
<1>4. ASSUME NEW id \in Ids, NEW limit, setNodeOperatorStakingLimit(caller, id, limit) PROVE Tells
  <2> DEFINE op == nodeOperators[id]
             p == [op EXCEPT !.vetted = StakingLimit(op, limit)]
             e == <<"VettedSigningKeysCountChanged">> \o NonceEvents
  <2>1. CASE UNCHANGED registryVars
    BY <1>2, <2>1
  <2>2. CASE Store(Only(id, Limited(p)), {"max"}) /\ Emit(e)
    <3>1. Like(p, op, Identity) /\ Like(p, op, Counted)
      BY HasFields DEF Like, Identity, Counted
    <3>2. e \in Seq(Events) /\ Says(e, NonceNews)
      BY <1>1, OneEvent, NonceIsTold
    <3>3. Identity \subseteq DOMAIN op /\ Counted \subseteq DOMAIN op
      BY HasFields
    <3> HIDE DEF p, e
    <3>4. Like(Limited(p), op, Identity) /\ Like(Limited(p), op, Counted)
      BY <3>1, <3>3, LooksKept
    <3> QED BY <2>2, <3>2, <3>4, OneTells
  <2> QED BY <1>4, <2>1, <2>2 DEF setNodeOperatorStakingLimit
<1>5. ASSUME NEW id \in Ids, NEW added, addSigningKeys(caller, id, added) PROVE Tells
  <2> DEFINE op == nodeOperators[id]
             p == [op EXCEPT !.total = @ + Len(added)]
             e == <<"TotalSigningKeysCountChanged">> \o NonceEvents
  <2>1. Store(Only(id, p), {"total"}) /\ Emit(e)
    BY <1>5 DEF addSigningKeys
  <2>2. Like(p, op, Identity) /\ Like(p, op, Counted)
    BY HasFields DEF Like, Identity, Counted
  <2>3. e \in Seq(Events) /\ Says(e, NonceNews)
    BY <1>1, OneEvent, NonceIsTold
  <2> HIDE DEF p, e
  <2> QED BY <2>1, <2>2, <2>3, OneTells
<1>6. ASSUME NEW id \in Ids, NEW from, NEW count \in Nat, removeSigningKeys(caller, id, from, count) PROVE Tells
  <2> DEFINE op == nodeOperators[id]
             vetted == VettedAfterRemoval(op, from)
             p == [op EXCEPT !.total = @ - count, !.vetted = vetted]
             first == [k \in 1 .. count |-> "SigningKeyRemoved"]
             second == first \o <<"TotalSigningKeysCountChanged">>
             third == second \o EventIf(vetted < op.vetted, "VettedSigningKeysCountChanged")
             e == third \o NonceEvents
  <2>1. CASE UNCHANGED registryVars
    BY <1>2, <2>1
  <2>2. CASE Store(Only(id, Limited(p)), {"total", "max"}) /\ Emit(e)
    <3>1. Like(p, op, Identity) /\ Like(p, op, Counted)
      BY HasFields DEF Like, Identity, Counted
    <3>2. first \in Seq(Events)
      BY <1>1, SomeEvents
    <3> HIDE DEF first
    <3>3. second \in Seq(Events)
      BY <1>1, <3>2, OneEvent, SaysFacts
    <3> HIDE DEF second, vetted
    <3>4. third \in Seq(Events)
      BY <1>1, <3>3, ToldIf, SaysFacts
    <3> HIDE DEF third
    <3>5. e \in Seq(Events) /\ Says(e, NonceNews)
      BY <3>4, NonceIsTold
    <3>6. Identity \subseteq DOMAIN op /\ Counted \subseteq DOMAIN op
      BY HasFields
    <3> HIDE DEF p, e
    <3>7. Like(Limited(p), op, Identity) /\ Like(Limited(p), op, Counted)
      BY <3>1, <3>6, LooksKept
    <3> QED BY <2>2, <3>5, <3>7, OneTells
  <2>3. \/ UNCHANGED registryVars
        \/ Store(Only(id, Limited(p)), {"total", "max"}) /\ Emit(e)
    BY <1>6 DEF removeSigningKeys
  <2> QED BY <2>1, <2>2, <2>3
<1> QED BY <1>0, <1>3, <1>4, <1>5, <1>6

LEMMA ManagersTell ==
  ASSUME RegInv, RegInv', listening, log \in Seq(Events), ManagerStep
  PROVE  Tells
<1>1. /\ "NodeOperatorActiveSet" \in Events /\ "VettedSigningKeysCountChanged" \in Events
      /\ "NodeOperatorNameSet" \in Events /\ "NodeOperatorRewardAddressSet" \in Events
      /\ "TotalSigningKeysCountChanged" \in Events /\ "NodeOperatorTotalKeysTrimmed" \in Events
  BY DEF Events, Emitted
<1>2. /\ "NodeOperatorActiveSet" \in OperatorsNews /\ "NodeOperatorNameSet" \in OperatorsNews
      /\ "NodeOperatorRewardAddressSet" \in OperatorsNews
  BY DEF OperatorsNews
<1>3. ASSUME NEW id \in Ids, activateNodeOperator(id) PROVE Tells
  <2> DEFINE e == <<"NodeOperatorActiveSet">> \o NonceEvents
  <2>1. Emit(e) /\ summary' = summary
    BY <1>3 DEF activateNodeOperator
  <2>2. e \in Seq(Events) /\ Says(e, NonceNews) /\ Says(e, OperatorsNews)
    BY <1>1, <1>2, OneEvent, NonceIsTold
  <2> HIDE DEF e
  <2> QED BY <2>1, <2>2, TellsIf
<1>4. ASSUME NEW id \in Ids, deactivateNodeOperator(id) PROVE Tells
  <2> DEFINE op == nodeOperators[id]
             cut == op.vetted > op.deposited
             off == [op EXCEPT !.active = FALSE]
             less == [off EXCEPT !.vetted = op.deposited]
             q == IF cut THEN Limited(less) ELSE off
             first == <<"NodeOperatorActiveSet">> \o EventIf(cut, "VettedSigningKeysCountChanged")
             e == first \o NonceEvents
  <2>1. Store(Only(id, q), {"max"}) /\ Emit(e)
    BY <1>4 DEF deactivateNodeOperator
  <2>2. first \in Seq(Events) /\ Says(first, OperatorsNews)
    <3> HIDE DEF cut
    <3> QED BY <1>1, <1>2, OneEvent, ToldIf, SaysFacts
  <2> HIDE DEF first
  <2>3. e \in Seq(Events) /\ Says(e, NonceNews) /\ Says(e, OperatorsNews)
    BY <2>2, NonceIsTold
  <2>4. Counted \subseteq DOMAIN op
    BY HasFields
  <2>5. Like(off, op, Counted) /\ Like(less, op, Counted)
    BY <2>4 DEF Like, Counted
  <2> HIDE DEF off, less, e
  <2>6. Like(q, op, Counted)
    BY <2>4, <2>5, LooksKept
  <2> HIDE DEF q
  <2> QED BY <2>1, <2>3, <2>6, OneTells
<1>5. ASSUME NEW id \in Ids, clearNodeOperatorPenalty(id) PROVE Tells
  <2> DEFINE op == nodeOperators[id]
             p == [op EXCEPT !.penaltyEnd = 0]
  <2>1. Store(Only(id, Limited(p)), {"max"}) /\ Emit(NonceEvents)
    BY <1>5 DEF clearNodeOperatorPenalty
  <2>2. Like(p, op, Identity) /\ Like(p, op, Counted)
    BY HasFields DEF Like, Identity, Counted
  <2>3. NonceEvents \in Seq(Events) /\ Says(NonceEvents, NonceNews)
    BY NonceIsTold, NoEvent
  <2>4. Identity \subseteq DOMAIN op /\ Counted \subseteq DOMAIN op
    BY HasFields
  <2> HIDE DEF p
  <2>5. Like(Limited(p), op, Identity) /\ Like(Limited(p), op, Counted)
    BY <2>2, <2>4, LooksKept
  <2> QED BY <2>1, <2>3, <2>5, OneTells
<1>6. ASSUME NEW id, NEW name, setNodeOperatorName(id, name) PROVE Tells
  <2> DEFINE e == <<"NodeOperatorNameSet">>
  <2>1. Emit(e) /\ UNCHANGED <<summary, nonce>>
    BY <1>6 DEF setNodeOperatorName
  <2>2. e \in Seq(Events) /\ Says(e, OperatorsNews)
    BY <1>1, <1>2, OneEvent
  <2> HIDE DEF e
  <2> QED BY <2>1, <2>2, TellsIf
<1>7. ASSUME NEW id, NEW name, setNodeOperatorRewardAddress(id, name) PROVE Tells
  <2> DEFINE e == <<"NodeOperatorRewardAddressSet">>
  <2>1. Emit(e) /\ UNCHANGED <<summary, nonce>>
    BY <1>7 DEF setNodeOperatorRewardAddress
  <2>2. e \in Seq(Events) /\ Says(e, OperatorsNews)
    BY <1>1, <1>2, OneEvent
  <2> HIDE DEF e
  <2> QED BY <2>1, <2>2, TellsIf
<1>8. ASSUME NEW range \in SUBSET Ids, invalidateReadyToDepositKeysRange(range) PROVE Tells
  <2> DEFINE D == {i \in range : nodeOperators[i].total # nodeOperators[i].deposited}
             cut(op) == [op EXCEPT !.total = op.deposited, !.vetted = op.deposited]
             new == [i \in D |-> Limited(cut(nodeOperators[i]))]
             n == Cardinality(D)
             trim == <<"TotalSigningKeysCountChanged", "VettedSigningKeysCountChanged", "NodeOperatorTotalKeysTrimmed">>
             first == FlattenSeq([k \in 1 .. n |-> trim])
             e == first \o NonceEvents
  <2>1. CASE UNCHANGED registryVars
    BY <2>1, NothingToTell DEF registryVars
  <2>2. CASE Store(new, {"total", "max"}) /\ Emit(e)
    <3>1. ASSUME NEW i \in D, NEW F \in {Identity, Counted} PROVE Like(Limited(cut(nodeOperators[i])), nodeOperators[i], F)
      <4> DEFINE op == nodeOperators[i]
                 p == cut(op)
      <4>1. F \subseteq DOMAIN op
        BY HasFields
      <4>2. Like(p, op, F)
        BY <4>1 DEF Like, Identity, Counted
      <4> HIDE DEF p
      <4>3. Like(Limited(p), op, F)
        BY <4>1, <4>2, LooksKept
      <4> QED BY <4>3 DEF p
    <3>2. \A i \in DOMAIN new \cap Ids : Like(new[i], nodeOperators[i], Identity) /\ Like(new[i], nodeOperators[i], Counted)
      BY <3>1
    <3>3. first \in Seq(Events)
      <4>1. n \in Nat
        <5>1. IsFiniteSet(D)
          BY IdsFinite, FS_Subset DEF RegInv
        <5> HIDE DEF D
        <5> QED BY <5>1, FS_CardinalityType
      <4> HIDE DEF n
      <4>2. trim \in Seq(Events)
        BY <1>1
      <4> HIDE DEF trim
      <4>3. [k \in 1 .. n |-> trim] \in [1 .. n -> Seq(Events)]
        BY <4>2
      <4>4. [k \in 1 .. n |-> trim] \in Seq(Seq(Events))
        BY <4>1, <4>3, FunctionIsSequence
      <4> QED BY <4>4, FlattenFacts
    <3> HIDE DEF first, new
    <3>4. e \in Seq(Events) /\ Says(e, NonceNews)
      BY <3>3, NonceIsTold
    <3> HIDE DEF e
    <3> QED BY <2>2, <3>2, <3>4, StoreTells
  <2>3. \/ UNCHANGED registryVars
        \/ Store(new, {"total", "max"}) /\ Emit(e)
    BY <1>8 DEF invalidateReadyToDepositKeysRange
  <2> QED BY <2>1, <2>2, <2>3
<1> QED BY <1>3, <1>4, <1>5, <1>6, <1>7, <1>8 DEF ManagerStep

(* The events of a report say so when a counter changes.                   *)
LEMMA ReportIsTold ==
  ASSUME RegInv, NEW D \in SUBSET Ids, NEW report, DOMAIN report = D, NEW field, NEW event \in Events
  PROVE  /\ ReportEvents(report, field, event) \in Seq(Events)
         /\ \A news : event \in news /\ (\E i \in D : report[i] # nodeOperators[i][field])
                        => Says(ReportEvents(report, field, event), news)
<1> DEFINE C == {i \in DOMAIN report : report[i] # nodeOperators[i][field]}
           n == Cardinality(C)
<1>1. IsFiniteSet(C)
  <2>1. IsFiniteSet(D)
    BY IdsFinite, FS_Subset DEF RegInv
  <2> QED BY <2>1, FS_Subset
<1>2. (\E i \in D : report[i] # nodeOperators[i][field]) => C # {}
  OBVIOUS
<1>3. ReportEvents(report, field, event) = [k \in 1 .. n |-> event]
  BY DEF ReportEvents
<1> HIDE DEF C
<1>4. n \in Nat /\ (C # {} => n # 0)
  BY <1>1, FS_CardinalityType, FS_EmptySet
<1> HIDE DEF n
<1> QED BY <1>2, <1>3, <1>4, SomeEvents

LEMMA ReportsTell ==
  ASSUME RegInv, RegInv', listening, log \in Seq(Events), ReportStep
  PROVE  Tells
<1>1. /\ "StuckPenaltyStateChanged" \in Events /\ "ExitedSigningKeysCountChanged" \in Events
      /\ "TargetValidatorsCountChanged" \in Events /\ "ExitedSigningKeysCountChanged" \in SummaryNews
  BY DEF Events, Emitted, SummaryNews
<1>2. "exited" \notin Identity
  BY DEF Identity
<1>3. ASSUME NEW D \in SUBSET Ids, NEW report \in [D -> Nat], updateStuckValidatorsCount(report) PROVE Tells
  <2> DEFINE new == [i \in D |-> WithStuck(nodeOperators[i], report[i])]
             first == ReportEvents(report, "stuck", "StuckPenaltyStateChanged")
             e == first \o NonceEvents
  <2>1. Store(new, {"max"}) /\ Emit(e)
    BY <1>3 DEF updateStuckValidatorsCount
  <2>2. \A i \in DOMAIN new \cap Ids : Like(new[i], nodeOperators[i], Identity) /\ Like(new[i], nodeOperators[i], Counted)
    BY HasFields, LooksKept
  <2>3. first \in Seq(Events)
    BY <1>1, ReportIsTold
  <2> HIDE DEF first, new
  <2>4. e \in Seq(Events) /\ Says(e, NonceNews)
    BY <2>3, NonceIsTold
  <2> HIDE DEF e
  <2> QED BY <2>1, <2>2, <2>4, StoreTells
<1>4. ASSUME NEW D \in SUBSET Ids, NEW report \in [D -> Nat], updateExitedValidatorsCount(report) PROVE Tells
  <2> DEFINE new == [i \in D |-> WithExited(nodeOperators[i], report[i])]
             first == ReportEvents(report, "exited", "ExitedSigningKeysCountChanged")
             e == first \o NonceEvents
  <2>1. Store(new, {"exited", "max"}) /\ Emit(e)
    BY <1>4 DEF updateExitedValidatorsCount
  <2>2. \A i \in DOMAIN new \cap Ids : Like(new[i], nodeOperators[i], Identity)
    BY <1>2, HasFields, LooksKept
  <2>3. /\ first \in Seq(Events)
        /\ (\E i \in D : report[i] # nodeOperators[i]["exited"]) => Says(first, SummaryNews)
    BY <1>1, ReportIsTold
  <2>4. (\A i \in D : report[i] = nodeOperators[i].exited) =>
           \A i \in DOMAIN new \cap Ids : Like(new[i], nodeOperators[i], Counted)
    BY HasFields, LooksKept
  <2> HIDE DEF first
  <2>5. e \in Seq(Events) /\ Says(e, NonceNews) /\ (Says(first, SummaryNews) => Says(e, SummaryNews))
    BY <2>3, NonceIsTold
  <2>6. (\A i \in DOMAIN new \cap Ids : Like(new[i], nodeOperators[i], Counted)) \/ Says(e, SummaryNews)
    BY <2>3, <2>4, <2>5
  <2> HIDE DEF e, new
  <2> QED BY <2>1, <2>2, <2>5, <2>6, StoreTells
<1>5. ASSUME NEW id \in Ids, NEW count, updateRefundedValidatorsCount(id, count) PROVE Tells
  <2> DEFINE op == nodeOperators[id]
             q == WithRefunded(op, count)
             e == EventIf(count # op.refunded, "StuckPenaltyStateChanged")
  <2>1. Store(Only(id, q), {"max"}) /\ Emit(e) /\ nonce' = nonce
    BY <1>5 DEF updateRefundedValidatorsCount
  <2>2. Like(q, op, Identity) /\ Like(q, op, Counted)
    BY HasFields, LooksKept
  <2>3. e \in Seq(Events)
    BY <1>1, ToldIf
  <2> HIDE DEF q, e
  <2> QED BY <2>1, <2>2, <2>3, OneTells
<1>6. ASSUME NEW id \in Ids, NEW count, NEW other, unsafeUpdateValidatorsCount(id, count, other) PROVE Tells
  <2> DEFINE op == nodeOperators[id]
             stuck == WithStuck(op, other)
             q == WithExited(stuck, count)
             first == EventIf(other # op.stuck, "StuckPenaltyStateChanged")
             second == first \o EventIf(count # op.exited, "ExitedSigningKeysCountChanged")
             e == second \o NonceEvents
  <2>1. Store(Only(id, q), {"exited", "max"}) /\ Emit(e)
    BY <1>6 DEF unsafeUpdateValidatorsCount
  <2>2. Like(stuck, op, Identity) /\ Like(stuck, op, Counted)
    BY HasFields, LooksKept
  <2> HIDE DEF stuck
  <2>3. Identity \subseteq DOMAIN stuck /\ Counted \subseteq DOMAIN stuck /\ stuck.exited = op.exited
    BY <2>2 DEF Like, Counted
  <2>4. Like(q, stuck, Identity) /\ (count = op.exited => Like(q, stuck, Counted))
    BY <1>2, <2>3, LooksKept
  <2> HIDE DEF q
  <2>5. Like(q, op, Identity) /\ (count = op.exited => Like(q, op, Counted))
    BY <2>2, <2>4 DEF Like
  <2>6. first \in Seq(Events)
    BY <1>1, ToldIf
  <2> HIDE DEF first
  <2>7. second \in Seq(Events) /\ (count # op.exited => Says(second, SummaryNews))
    <3> DEFINE changed == count # op.exited
    <3> HIDE DEF changed
    <3>1. /\ EventIf(changed, "ExitedSigningKeysCountChanged") \in Seq(Events)
          /\ changed => Says(EventIf(changed, "ExitedSigningKeysCountChanged"), SummaryNews)
      BY <1>1, ToldIf
    <3>2. /\ first \o EventIf(changed, "ExitedSigningKeysCountChanged") \in Seq(Events)
          /\ changed => Says(first \o EventIf(changed, "ExitedSigningKeysCountChanged"), SummaryNews)
      BY <2>6, <3>1, SaysFacts
    <3> QED BY <3>2 DEF changed
  <2> HIDE DEF second
  <2>8. e \in Seq(Events) /\ Says(e, NonceNews) /\ (Says(second, SummaryNews) => Says(e, SummaryNews))
    BY <2>7, NonceIsTold
  <2> HIDE DEF e
  <2> QED BY <2>1, <2>5, <2>7, <2>8, OneTells
<1>7. ASSUME NEW id \in Ids, NEW count, NEW on, updateTargetValidatorsLimits(id, on, count) PROVE Tells
  <2> DEFINE op == nodeOperators[id]
             p == [op EXCEPT !.targetActive = on, !.target = IF on THEN count ELSE 0]
             e == <<"TargetValidatorsCountChanged">> \o NonceEvents
  <2>1. Store(Only(id, Limited(p)), {"max"}) /\ Emit(e)
    BY <1>7 DEF updateTargetValidatorsLimits
  <2>2. Like(p, op, Identity) /\ Like(p, op, Counted)
    BY HasFields DEF Like, Identity, Counted
  <2>3. e \in Seq(Events) /\ Says(e, NonceNews)
    BY <1>1, OneEvent, NonceIsTold
  <2>4. Identity \subseteq DOMAIN op /\ Counted \subseteq DOMAIN op
    BY HasFields
  <2> HIDE DEF p, e
  <2>5. Like(Limited(p), op, Identity) /\ Like(Limited(p), op, Counted)
    BY <2>2, <2>4, LooksKept
  <2> QED BY <2>1, <2>3, <2>5, OneTells
<1> QED BY <1>3, <1>4, <1>5, <1>6, <1>7 DEF ReportStep

LEMMA DepositsTell ==
  ASSUME RegInv, RegInv', listening, NEW count \in Nat, obtainDepositData(count)
  PROVE  Tells
<1> DEFINE after == DepositedAfter(getSigningKeysAllocationData(count))
           used  == {i \in Depositable : after[i] # nodeOperators[i].deposited}
           new == [i \in used |-> Limited([nodeOperators[i] EXCEPT !.deposited = after[i]])]
           n == Cardinality(used)
           first == [k \in 1 .. n |-> "DepositedSigningKeysCountChanged"]
           e == first \o NonceEvents
<1>1. Store(new, {"deposited", "max"}) /\ Emit(e)
  BY DEF obtainDepositData
<1>2. "DepositedSigningKeysCountChanged" \in Events /\ "DepositedSigningKeysCountChanged" \in SummaryNews
  BY DEF Events, Emitted, SummaryNews
<1> HIDE DEF after
<1>3. used \subseteq Ids /\ IsFiniteSet(used)
  <2>1. used \subseteq Ids /\ IsFiniteSet(Ids)
    BY IdsFinite DEF RegInv, Depositable
  <2> HIDE DEF used
  <2> QED BY <2>1, FS_Subset
<1>4. ASSUME NEW i \in used PROVE Like(Limited([nodeOperators[i] EXCEPT !.deposited = after[i]]), nodeOperators[i], Identity)
  <2> DEFINE p == [nodeOperators[i] EXCEPT !.deposited = after[i]]
  <2>1. Identity \subseteq DOMAIN nodeOperators[i]
    BY <1>3, HasFields
  <2>2. Like(p, nodeOperators[i], Identity)
    BY <2>1 DEF Like, Identity
  <2> HIDE DEF p
  <2>3. Like(Limited(p), nodeOperators[i], Identity)
    BY <2>1, <2>2, LooksKept
  <2> QED BY <2>3 DEF p
<1>5. \A i \in DOMAIN new \cap Ids : Like(new[i], nodeOperators[i], Identity)
  BY <1>4
<1>6. DOMAIN new = used
  OBVIOUS
<1> HIDE DEF used, new
<1>7. n \in Nat /\ (used # {} => n # 0)
  BY <1>3, FS_CardinalityType, FS_EmptySet
<1> HIDE DEF n
<1>8. first \in Seq(Events) /\ (used # {} => Says(first, SummaryNews))
  BY <1>2, <1>7, SomeEvents
<1> HIDE DEF first
<1>9. e \in Seq(Events) /\ Says(e, NonceNews) /\ (Says(first, SummaryNews) => Says(e, SummaryNews))
  BY <1>8, NonceIsTold
<1> HIDE DEF e
<1>10. (\A i \in DOMAIN new \cap Ids : Like(new[i], nodeOperators[i], Counted)) \/ Says(e, SummaryNews)
  BY <1>6, <1>8, <1>9
<1> QED BY <1>1, <1>5, <1>9, <1>10, StoreTells

(* Every call of the registry tells what it changes.                       *)
LEMMA CallsTell ==
  ASSUME RegInv, RegInv', listening, log \in Seq(Events), CallStep
  PROVE  Tells /\ UNCHANGED listening
<1>1. Tells
  <2>1. CASE DepositStep
    BY <2>1, DepositsTell DEF DepositStep
  <2>2. CASE IdleStep /\ UNCHANGED <<log, listening>>
    BY <2>2, NothingToTell DEF IdleStep
  <2> QED BY <2>1, <2>2, OwnersTell, ManagersTell, ReportsTell DEF CallStep
<1>2. UNCHANGED listening
  <2>1. OwnersStep => UNCHANGED listening
    <3>1. ASSUME NEW caller, NEW name, NEW address, addNodeOperator(caller, name, address) PROVE UNCHANGED listening
      BY ONLY <3>1 DEF addNodeOperator
    <3>2. ASSUME NEW caller, NEW id, NEW limit, setNodeOperatorStakingLimit(caller, id, limit) PROVE UNCHANGED listening
      BY ONLY <3>2 DEF setNodeOperatorStakingLimit, registryVars
    <3>3. ASSUME NEW caller, NEW id, NEW added, addSigningKeys(caller, id, added) PROVE UNCHANGED listening
      BY ONLY <3>3 DEF addSigningKeys
    <3>4. ASSUME NEW caller, NEW id, NEW from, NEW count, removeSigningKeys(caller, id, from, count) PROVE UNCHANGED listening
      BY ONLY <3>4 DEF removeSigningKeys, registryVars
    <3> QED BY ONLY <3>1, <3>2, <3>3, <3>4 DEF OwnersStep
  <2>2. ManagerStep => UNCHANGED listening
    <3>1. ASSUME NEW id, activateNodeOperator(id) \/ deactivateNodeOperator(id) PROVE UNCHANGED listening
      BY ONLY <3>1 DEF activateNodeOperator, deactivateNodeOperator
    <3>2. ASSUME NEW id, clearNodeOperatorPenalty(id) PROVE UNCHANGED listening
      BY ONLY <3>2 DEF clearNodeOperatorPenalty
    <3>3. ASSUME NEW id, NEW name, setNodeOperatorName(id, name) \/ setNodeOperatorRewardAddress(id, name) PROVE UNCHANGED listening
      BY ONLY <3>3 DEF setNodeOperatorName, setNodeOperatorRewardAddress
    <3>4. ASSUME NEW range, invalidateReadyToDepositKeysRange(range) PROVE UNCHANGED listening
      BY ONLY <3>4 DEF invalidateReadyToDepositKeysRange, registryVars
    <3> QED BY ONLY <3>1, <3>2, <3>3, <3>4 DEF ManagerStep
  <2>3. ReportStep => UNCHANGED listening
    <3>1. ASSUME NEW report, updateStuckValidatorsCount(report) \/ updateExitedValidatorsCount(report) PROVE UNCHANGED listening
      BY ONLY <3>1 DEF updateStuckValidatorsCount, updateExitedValidatorsCount
    <3>2. ASSUME NEW id, NEW count, updateRefundedValidatorsCount(id, count) PROVE UNCHANGED listening
      BY ONLY <3>2 DEF updateRefundedValidatorsCount
    <3>3. ASSUME NEW id, NEW count, NEW other, unsafeUpdateValidatorsCount(id, count, other) PROVE UNCHANGED listening
      BY ONLY <3>3 DEF unsafeUpdateValidatorsCount
    <3>4. ASSUME NEW id, NEW on, NEW count, updateTargetValidatorsLimits(id, on, count) PROVE UNCHANGED listening
      BY ONLY <3>4 DEF updateTargetValidatorsLimits
    <3> QED BY ONLY <3>1, <3>2, <3>3, <3>4 DEF ReportStep
  <2>4. DepositStep => UNCHANGED listening
    BY DEF DepositStep, obtainDepositData
  <2> QED BY <2>1, <2>2, <2>3, <2>4 DEF CallStep
<1> QED BY <1>1, <1>2

(* And every call of the pool.                                             *)
LEMMA PoolCallTells ==
  ASSUME Hears, UNCHANGED <<nodeOperators, summary, nonce>>, NEW changed, NEW e \in Seq(Events), PoolCall(changed, e),
         "isStopped" \in changed => Says(e, {"Resumed", "Stopped"}),
         "totalELRewardsCollected" \in changed => Says(e, {"ELRewardsReceived"})
  PROVE  /\ log' = log \o e /\ app' = app /\ DOMAIN pool' = DOMAIN pool
         /\ Announces("registry", e) /\ Announces("pool", e)
<1>1. log' = log \o e /\ app' = app
  BY DEF PoolCall, Emit, Hears
<1>2. /\ DOMAIN pool' = DOMAIN pool
      /\ \A view \in DOMAIN pool : view \notin changed => pool'[view] = pool[view]
  BY DEF PoolCall
<1>3. Announces("registry", e)
  <2>1. Kept("nonce") /\ Kept("stakingModuleSummary") /\ Kept("nodeOperators")
    BY DEF Kept, Alike
  <2> QED BY <2>1 DEF Announces, Tracked
<1>4. Announces("pool", e)
  <2>1. Tracked("pool") = {"isStopped", "totalELRewardsCollected"}
    BY DEF Tracked
  <2>2. /\ News("pool", "isStopped") = {"Resumed", "Stopped"}
        /\ News("pool", "totalELRewardsCollected") = {"ELRewardsReceived"}
    BY DEF News
  <2>3. \A key \in {"isStopped", "totalELRewardsCollected"} : key \notin changed => Kept(key)
    BY <1>2 DEF Kept, Hears
  <2> QED BY <2>1, <2>2, <2>3 DEF Announces
<1> QED BY <1>1, <1>2, <1>3, <1>4

LEMMA PoolTells ==
  ASSUME Hears, UNCHANGED <<nodeOperators, summary, nonce>>, NEW name, PoolCalls(name)
  PROVE  /\ app' = app /\ DOMAIN pool' = DOMAIN pool
         /\ \E e \in Seq(Events) : log' = log \o e /\ Announces("registry", e) /\ Announces("pool", e)
<1>1. /\ "Resumed" \in Events /\ "StakingResumed" \in Events /\ "Stopped" \in Events /\ "StakingPaused" \in Events
      /\ "Submitted" \in Events /\ "ELRewardsReceived" \in Events /\ "Unbuffered" \in Events
      /\ "DepositedValidatorsChanged" \in Events /\ "CLValidatorsUpdated" \in Events
  BY DEF Events, Emitted
<1>2. CASE resume
  <2> DEFINE e == <<"Resumed", "StakingResumed">>
  <2>1. PoolCall({"isStopped", "stakeLimitFullInfo"}, e)
    BY <1>2 DEF resume
  <2>2. e \in Seq(Events) /\ Says(e, {"Resumed", "Stopped"})
    <3>1. 1 \in DOMAIN e /\ e[1] = "Resumed"
      OBVIOUS
    <3> QED BY <1>1, <3>1 DEF Says
  <2> HIDE DEF e
  <2> QED BY <2>1, <2>2, PoolCallTells
<1>3. CASE stop
  <2> DEFINE e == <<"Stopped", "StakingPaused">>
  <2>1. PoolCall({"isStopped", "stakeLimitFullInfo"}, e)
    BY <1>3 DEF stop
  <2>2. e \in Seq(Events) /\ Says(e, {"Resumed", "Stopped"})
    <3>1. 1 \in DOMAIN e /\ e[1] = "Stopped"
      OBVIOUS
    <3> QED BY <1>1, <3>1 DEF Says
  <2> HIDE DEF e
  <2> QED BY <2>1, <2>2, PoolCallTells
<1>4. CASE submit
  <2> DEFINE e == <<"Submitted">>
  <2>1. PoolCall({"stakeLimitFullInfo"}, e)
    BY <1>4 DEF submit
  <2>2. e \in Seq(Events)
    BY <1>1, OneEvent
  <2> HIDE DEF e
  <2> QED BY <2>1, <2>2, PoolCallTells
<1>5. CASE receiveELRewards
  <2> DEFINE e == <<"ELRewardsReceived">>
  <2>1. PoolCall({"totalELRewardsCollected"}, e)
    BY <1>5 DEF receiveELRewards
  <2>2. e \in Seq(Events) /\ Says(e, {"ELRewardsReceived"})
    BY <1>1, OneEvent
  <2> HIDE DEF e
  <2> QED BY <2>1, <2>2, PoolCallTells
<1>6. CASE depositOfPool
  <2> DEFINE e == <<"Unbuffered", "DepositedValidatorsChanged">>
  <2>1. PoolCall({"beaconStat"}, e)
    BY <1>6 DEF depositOfPool
  <2>2. e \in Seq(Events)
    BY <1>1
  <2> HIDE DEF e
  <2> QED BY <2>1, <2>2, PoolCallTells
<1>7. CASE \E appeared \in BOOLEAN : handleOracleReport(appeared)
  <2>1. PICK appeared \in BOOLEAN : handleOracleReport(appeared)
    BY <1>7
  <2> DEFINE e == EventIf(appeared, "CLValidatorsUpdated")
  <2>2. PoolCall({"beaconStat"}, e)
    BY <2>1 DEF handleOracleReport
  <2>3. e \in Seq(Events)
    BY <1>1, ToldIf
  <2> HIDE DEF e
  <2> QED BY <2>2, <2>3, PoolCallTells
<1> QED BY <1>2, <1>3, <1>4, <1>5, <1>6, <1>7 DEF PoolCalls

-----------------------------------------------------------------------------
(* The steps of an application *)

LEMMA CurrentStays ==
  ASSUME app.of \in {"registry", "pool"}, app'.of = app.of, UNCHANGED <<nodeOperators, summary, nonce, pool>>,
         NEW key \in Tracked(app.of), NEW value, Current(key, value), Coming(key) => Coming(key)'
  PROVE  Current(key, value)'
<1>1. Kept(key)
  <2>1. key \in {"nonce", "stakingModuleSummary", "nodeOperators", "isStopped", "totalELRewardsCollected"}
    BY DEF Tracked
  <2> QED BY <2>1 DEF Kept, Alike
<1>2. CASE Announced(key, value)
  BY <1>1, <1>2, KeptIsAnnounced DEF Current
<1>3. CASE value = Undefined \/ Coming(key)
  BY <1>3 DEF Current
<1> QED BY <1>2, <1>3 DEF Current

LEMMA ViewFacts ==
  /\ \A x, y : View(x) = View(y) => x = y
  /\ \A x, i : x # "nodeOperator" => View(x) # Operator(i)
  /\ \A i, j : Operator(i) = Operator(j) => i = j
  /\ \A x : View(x)[1] = x
  /\ \A i : Operator(i)[1] = "nodeOperator" /\ Operator(i)[2] = i
BY DEF View, Operator

LEMMA SameLog ==
  ASSUME log' = log, app'.of = app.of, NEW key
  PROVE  Coming(key) => Coming(key)'
BY DEF Coming

(* A call is answered, or fails.                                           *)
LEMMA AnswersKeep ==
  ASSUME AppInv, AppScene, UNCHANGED <<nodeOperators, summary, nonce, pool, log, listening, scene>>,
         NEW read \in app.asked, NEW answer \in {Undefined, Answer(read)},
         app'.asked = (app.asked \ {read}) \cup Follow(read, answer), app'.answers = Put(app.answers, read, answer),
         DOMAIN app' = DOMAIN app,
         \A f \in {"of", "at", "key", "event", "state"} : app'[f] = app[f]
  PROVE  AppInv'
<1>0. Hears /\ Control /\ AnswersOK /\ ShownOK
  BY DEF AppInv
<1>1. AppScene' /\ Hears'
  BY <1>0 DEF AppScene, Hears
<1>2. app.of \in {"registry", "pool"} /\ app'.of = app.of /\ app'.at = app.at /\ app'.key = app.key
      /\ app'.event = app.event /\ app'.state = app.state
  BY <1>0 DEF Control
<1>3. /\ DOMAIN app'.answers = DOMAIN app.answers \cup {read} /\ app'.answers[read] = answer
      /\ \A x \in DOMAIN app.answers \ {read} : app'.answers[x] = app.answers[x]
  BY DEF Put
<1>4. \A x \in app.asked \cup DOMAIN app.answers : x \in app'.asked \cup DOMAIN app'.answers
  BY <1>3
<1>5. ASSUME NEW key \in Tracked(app.of), NEW value, Current(key, value) PROVE Current(key, value)'
  BY <1>2, <1>5, SameLog, CurrentStays
<1>6. Control'
  <2>1. app.at # "ready"
    BY <1>0 DEF Control
  <2>2. /\ {"of", "at", "key", "event", "failures", "sessions", "asked", "answers", "state"} \subseteq DOMAIN app'
        /\ app'.of = IF scene' = "poolApp" THEN "pool" ELSE "registry"
        /\ app'.at # "fetching" => app'.event = "" /\ app'.key = ""
        /\ app'.at = "fetching" =>
             /\ app'.event \in Events /\ app'.key \notin Foreign(app'.of) \cup {"", "isSyncing"}
             /\ \A key \in Tracked(app'.of) : app'.key = key => app'.event \in News(app'.of, key)
    BY <1>0, <1>2 DEF Control
  <2>3. app'.at = "fetching" => View(app'.key) \in app'.asked \cup DOMAIN app'.answers
    BY <1>0, <1>2, <1>4 DEF Control
  <2>4. app'.of = "pool" /\ app'.at = "init" => \A v \in poolViews : View(v) \in app'.asked \cup DOMAIN app'.answers
    BY <1>0, <1>2, <1>4 DEF Control
  <2> QED BY <1>2, <2>1, <2>2, <2>3, <2>4 DEF Control, View
<1>7. ASSUME NEW key \in Tracked(app.of) \ {"nodeOperators"}, View(key) \in DOMAIN app'.answers
      PROVE  Current(key, app.answers[View(key)])'
  <2> DEFINE v == app.answers[View(key)]
  <2>1. CASE View(key) = read
    <3>1. read[1] = key
      BY <2>1, ViewFacts
    <3>2. answer = Undefined \/ Announced(key, answer)
      <4>1. CASE app.of = "registry"
        <5>1. key = "nonce" \/ key = "stakingModuleSummary"
          BY <4>1, <1>7 DEF Tracked
        <5>2. Announced(key, Answer(read))
          BY <3>1, <4>1, <5>1 DEF Answer, Announced, getStakingModuleSummary
        <5> QED BY <5>2
      <4>2. CASE app.of = "pool"
        <5>1. key \in {"isStopped", "totalELRewardsCollected"}
          BY <4>2, <1>7 DEF Tracked
        <5>2. Announced(key, Answer(read))
          BY <3>1, <4>2, <5>1 DEF Answer, Announced, missingViews
        <5> QED BY <5>2
      <4> QED BY <1>2, <4>1, <4>2
    <3>3. Current(key, answer)
      BY <3>2 DEF Current
    <3>4. v' = answer
      BY <1>3, <2>1 DEF View
    <3> QED BY <1>5, <3>3, <3>4
  <2>2. CASE View(key) # read
    <3>1. View(key) \in DOMAIN app.answers
      BY <1>3, <1>7, <2>2
    <3>2. v' = v
      BY <1>3, <2>2, <3>1 DEF View
    <3>3. Current(key, v)
      BY <1>0, <1>7, <3>1 DEF AnswersOK
    <3> QED BY <1>5, <3>2, <3>3
  <2> QED BY <2>1, <2>2
<1>8. ASSUME app.of = "registry", View("nodeOperators") \in DOMAIN app'.answers
      PROVE  \/ app'.answers[View("nodeOperators")] = Undefined
             \/ Coming("nodeOperators")'
             \/ app'.answers[View("nodeOperators")] = Len(nodeOperators) /\ DetailsOK'
  <2>1. CASE read = View("nodeOperators")
    <3>1. CASE answer # Undefined
      <4>1. read[1] = "nodeOperators"
        BY <2>1, ViewFacts
      <4>2. answer = Len(nodeOperators)
        BY <1>8, <3>1, <4>1 DEF Answer
      <4>3. Follow(read, answer) = {Operator(i) : i \in Ids}
        BY <1>8, <3>1, <4>1, <4>2 DEF Follow, Ids
      <4>4. \A i \in Ids : Operator(i) \in app'.asked
        BY <4>3
      <4>5. DetailsOK'
        BY <4>4 DEF DetailsOK, Ids, Operator
      <4> QED BY <1>3, <2>1, <4>2, <4>5
    <3> QED BY <1>3, <2>1, <3>1
  <2>2. CASE read # View("nodeOperators")
    <3>1. /\ View("nodeOperators") \in DOMAIN app.answers
          /\ app'.answers[View("nodeOperators")] = app.answers[View("nodeOperators")]
      BY <1>3, <1>8, <2>2
    <3>2. CASE DetailsOK
      <4>1. ASSUME NEW i \in Ids
            PROVE  \/ Operator(i) \in app'.asked
                   \/ /\ Operator(i) \in DOMAIN app'.answers
                      /\ \/ app'.answers[Operator(i)] = Undefined
                         \/ Alike(app'.answers[Operator(i)], nodeOperators[i])
        <5>1. CASE Operator(i) = read
          <6>1. read[1] = "nodeOperator" /\ read[2] = i
            BY <5>1, ViewFacts
          <6>2. answer = Undefined \/ Alike(answer, nodeOperators[i])
            BY <1>8, <6>1 DEF Answer, getNodeOperator, Alike
          <6> QED BY <1>3, <5>1, <6>2
        <5>2. CASE Operator(i) # read
          BY <1>3, <3>2, <5>2 DEF DetailsOK
        <5> QED BY <5>1, <5>2
      <4>2. DetailsOK'
        BY <4>1 DEF DetailsOK, Ids, Operator, Alike
      <4>3. \/ app.answers[View("nodeOperators")] = Undefined
            \/ Coming("nodeOperators")
            \/ app.answers[View("nodeOperators")] = Len(nodeOperators)
        BY <1>0, <1>8, <3>1 DEF AnswersOK
      <4> QED BY <1>2, <3>1, <4>2, <4>3, SameLog
    <3>3. CASE ~ DetailsOK
      BY <1>0, <1>2, <1>8, <3>1, <3>3, SameLog DEF AnswersOK
    <3> QED BY <3>2, <3>3
  <2> QED BY <2>1, <2>2
<1>9. AnswersOK'
  BY <1>2, <1>7, <1>8 DEF AnswersOK, View
<1>10. ASSUME NEW key \in DOMAIN app.state \cap Tracked(app.of)
       PROVE  (Current(key, app.state[key]) \/ app.key = key)'
  <2> DEFINE v == app.state[key]
  <2>1. Current(key, v) \/ app.key = key
    BY <1>0 DEF ShownOK
  <2>2. v' = v
    BY <1>2
  <2> QED BY <1>2, <1>5, <2>1, <2>2
<1>11. ShownOK'
  BY <1>0, <1>2, <1>10 DEF ShownOK
<1> QED BY <1>1, <1>6, <1>9, <1>11 DEF AppInv

LEMMA NoDomain == DOMAIN <<>> = {}
OBVIOUS

(* The application has no answer and shows what is current or being read.  *)
LEMMA ReadyKeeps ==
  ASSUME AppInv, AppScene, UNCHANGED <<nodeOperators, summary, nonce, pool, listening, scene>>, log' \in Seq(Events),
         DOMAIN app' = DOMAIN app, app'.of = app.of, app'.answers = NoAnswers,
         app'.at \in {"ready", "fetching", "init"},
         app'.at = "ready" => app'.asked = {},
         app'.at = "fetching" => /\ app'.event \in Events /\ app'.key \notin Foreign(app.of) \cup {"", "isSyncing"}
                                 /\ \A key \in Tracked(app.of) : app'.key = key => app'.event \in News(app.of, key)
                                 /\ View(app'.key) \in app'.asked,
         app'.at # "fetching" => app'.event = "" /\ app'.key = "",
         app.of = "pool" /\ app'.at = "init" => \A v \in poolViews : View(v) \in app'.asked,
         DOMAIN app'.state \cap Foreign(app.of) = {},
         \A key \in Tracked(app.of) :
            key \in DOMAIN app'.state => Current(key, app.state[key])' \/ app'.key = key
  PROVE  AppInv'
<1>0. Hears /\ Control
  BY DEF AppInv
<1>1. AppScene' /\ Hears'
  BY <1>0 DEF AppScene, Hears
<1>2. DOMAIN app'.answers = {}
  BY NoDomain DEF NoAnswers
<1>3. AnswersOK'
  BY <1>2 DEF AnswersOK
<1>4. Control'
  <2>1. /\ {"of", "at", "key", "event", "failures", "sessions", "asked", "answers", "state"} \subseteq DOMAIN app'
        /\ app'.of = IF scene' = "poolApp" THEN "pool" ELSE "registry"
    BY <1>0 DEF Control
  <2> QED BY <2>1 DEF Control, View, NoAnswers
<1>5. ShownOK'
  BY DEF ShownOK
<1> QED BY <1>1, <1>3, <1>4, <1>5 DEF AppInv

LEMMA TrackedFacts ==
  ASSUME AppInv, AppScene
  PROVE  /\ app.of \in {"registry", "pool"} /\ "" \notin Tracked(app.of) /\ "isSyncing" \notin Tracked(app.of)
         /\ app.at # "fetching" => app.key \notin Tracked(app.of)
         /\ "isSyncing" \notin Foreign(app.of) /\ Tracked(app.of) \cap Foreign(app.of) = {}
<1>1. Control /\ app.of \in {"registry", "pool"}
  BY DEF AppInv, Control
<1>2. "" \notin Tracked(app.of) /\ "isSyncing" \notin Tracked(app.of)
  BY <1>1 DEF Tracked
<1>3. "isSyncing" \notin Foreign(app.of) /\ Tracked(app.of) \cap Foreign(app.of) = {}
  BY <1>1 DEF Tracked, Foreign
<1>4. app.at # "fetching" => app.key \notin Tracked(app.of)
  BY <1>1, <1>2 DEF Control
<1> QED BY <1>1, <1>2, <1>3, <1>4

(* What the answers make of a variable that is current or about to be.     *)
LEMMA FetchedIsCurrent ==
  ASSUME AppInv, AppScene, app.asked = {}, NEW key \in Tracked(app.of), View(key) \in DOMAIN app.answers
  PROVE  Current(key, Fetched(key))
<1>0. Hears /\ Control /\ AnswersOK /\ app.of \in {"registry", "pool"}
  BY TrackedFacts DEF AppInv
<1>1. CASE key # "nodeOperators"
  <2>1. Fetched(key) = app.answers[View(key)]
    BY <1>1 DEF Fetched
  <2> QED BY <1>0, <1>1, <2>1 DEF AnswersOK
<1>2. CASE key = "nodeOperators"
  <2> DEFINE answer == app.answers[View("nodeOperators")]
             value == [i \in 1 .. answer |-> app.answers[Operator(i)]]
  <2>1. app.of = "registry"
    BY <1>0, <1>2 DEF Tracked
  <2>2. Fetched(key) = IF answer # Undefined THEN value ELSE answer
    BY <1>2, <2>1 DEF Fetched
  <2>3. CASE answer = Undefined
    BY <2>2, <2>3 DEF Current
  <2>4. CASE Coming("nodeOperators")
    BY <1>2, <2>4 DEF Current
  <2>5. CASE answer # Undefined /\ answer = Len(nodeOperators) /\ DetailsOK
    <3>1. answer \in Nat
      <4>1. Len(nodeOperators) \in Nat \/ answer \notin Nat
        BY <2>5
      <4> QED BY <2>5, <4>1
    <3>2. Len(value) = answer
      <4> DEFINE S == {app.answers[Operator(i)] : i \in 1 .. answer}
      <4>1. value \in [1 .. answer -> S]
        OBVIOUS
      <4> HIDE DEF S, value, answer
      <4> QED BY <3>1, <4>1, FunctionIsSequence
    <3>3. \A i \in Ids : value[i] # Undefined => Alike(value[i], nodeOperators[i])
      <4>1. \A i \in Ids : value[i] = app.answers[Operator(i)]
        BY <2>5 DEF Ids
      <4> QED BY <2>5, <4>1 DEF DetailsOK
    <3> HIDE DEF value
    <3>4. Announced(key, value)
      BY <1>2, <2>5, <3>2, <3>3 DEF Announced, Alike
    <3> QED BY <2>2, <2>5, <3>4 DEF Current
  <2> QED BY <1>0, <1>2, <2>1, <2>3, <2>4, <2>5 DEF AnswersOK
<1> QED BY <1>1, <1>2

(* What was fetched is kept.                                               *)
LEMMA StoreFetchedKeeps ==
  ASSUME AppInv, AppScene, UNCHANGED <<nodeOperators, summary, nonce, listening, scene>>, NEW of, StoreFetched(of)
  PROVE  AppInv'
<1>0. Hears /\ Control /\ AnswersOK /\ ShownOK
  BY DEF AppInv
<1>1. app.asked = {} /\ app.at = "fetching" /\ UNCHANGED <<pool, log>>
  BY DEF StoreFetched, RunsOf
<1> DEFINE value == Fetched(app.key)
<1>2. /\ DOMAIN app' = DOMAIN app /\ app'.of = app.of /\ app'.at = "ready" /\ app'.key = "" /\ app'.event = ""
      /\ app'.answers = NoAnswers /\ app'.asked = {}
      /\ app'.state = IF value = Undefined THEN <<>> ELSE Put(app.state, app.key, value)
  BY <1>0, <1>1 DEF StoreFetched, Control
<1>3. app.key \notin Foreign(app.of) /\ View(app.key) \in DOMAIN app.answers
  BY <1>0, <1>1 DEF Control
<1>4. app.key \in Tracked(app.of) => Current(app.key, value)
  BY <1>1, <1>3, FetchedIsCurrent
<1> HIDE DEF value
<1>5. CASE value = Undefined
  <2>1. DOMAIN <<>> = {}
    OBVIOUS
  <2>2. DOMAIN app'.state = {}
    BY <1>2, <1>5, <2>1
  <2> QED BY <1>0, <1>1, <1>2, <2>2, ReadyKeeps DEF Hears
<1>6. CASE value # Undefined
  <2>1. /\ DOMAIN app'.state = DOMAIN app.state \cup {app.key} /\ app'.state[app.key] = value
        /\ \A x \in DOMAIN app.state \ {app.key} : app'.state[x] = app.state[x]
    BY <1>2, <1>6 DEF Put
  <2>2. DOMAIN app'.state \cap Foreign(app.of) = {}
    BY <1>0, <1>3, <2>1 DEF ShownOK
  <2>3. ASSUME NEW key \in Tracked(app.of), key \in DOMAIN app'.state
        PROVE  Current(key, app.state[key])'
    <3> DEFINE v == app'.state[key]
    <3>1. Current(key, v)
      <4>1. CASE key = app.key
        BY <1>4, <2>1, <4>1
      <4>2. CASE key # app.key
        <5>1. v = app.state[key] /\ key \in DOMAIN app.state
          BY <2>1, <2>3, <4>2
        <5> QED BY <1>0, <4>2, <5>1 DEF ShownOK
      <4> QED BY <4>1, <4>2
    <3> QED BY <1>1, <1>2, <3>1, TrackedFacts, CurrentStays, SameLog
  <2> QED BY <1>0, <1>1, <1>2, <2>2, <2>3, ReadyKeeps DEF Hears
<1> QED BY <1>5, <1>6

LEMMA TailFacts ==
  ASSUME NEW s \in Seq(Events), s # <<>>
  PROVE  /\ Head(s) \in Events /\ Tail(s) \in Seq(Events)
         /\ \A news : Says(s, news) /\ Head(s) \notin news => Says(Tail(s), news)
<1> DEFINE n == Len(s)
           t == Tail(s)
<1>1. /\ n \in Nat /\ n >= 1 /\ DOMAIN s = 1 .. n /\ Head(s) = s[1] /\ Head(s) \in Events
  BY SeqFacts, EmptySeq, HeadTailProperties
<1>2. t \in Seq(Events) /\ Len(t) = n - 1 /\ DOMAIN t = 1 .. n - 1 /\ \A k \in 1 .. n - 1 : t[k] = s[k + 1]
  <2>1. t \in Seq(Events) /\ Len(t) = n - 1 /\ \A k \in 1 .. Len(t) : t[k] = s[k + 1]
    BY HeadTailProperties
  <2> HIDE DEF t
  <2> QED BY <2>1, SeqFacts
<1> HIDE DEF n, t
<1>3. ASSUME NEW news, Says(s, news), Head(s) \notin news PROVE Says(t, news)
  <2>1. PICK k \in 1 .. n : s[k] \in news
    BY <1>1, <1>3 DEF Says
  <2>2. k # 1 /\ k - 1 \in 1 .. n - 1
    BY <1>1, <1>3, <2>1
  <2>3. t[k - 1] = s[k]
    BY <1>1, <1>2, <2>2
  <2> QED BY <1>2, <2>1, <2>2, <2>3 DEF Says
<1> QED BY <1>1, <1>2, <1>3 DEF t

(* The next event is taken.                                                *)
LEMMA TakeEventKeeps ==
  ASSUME AppInv, AppScene, UNCHANGED <<nodeOperators, summary, nonce, listening, scene>>, NEW of, TakeEvent(of)
  PROVE  AppInv'
<1>0. Hears /\ Control /\ AnswersOK /\ ShownOK
  BY DEF AppInv
<1> DEFINE event == Head(log)
           key0 == Refreshed(event)
<1>1. /\ app.asked = {} /\ app.at = "ready" /\ pool' = pool /\ log # <<>> /\ log' = Tail(log)
      /\ app' = IF event \in Marks THEN [app EXCEPT !.state = Put(@, "isSyncing", event = "SYNC_STATUS_SYNCING")]
                ELSE IF key0 = "" THEN app
                ELSE [app EXCEPT !.at = "fetching", !.key = key0, !.event = event, !.asked = {View(key0)}]
  BY DEF TakeEvent, RunsOf
<1>2. event \in Events /\ log' \in Seq(Events)
  BY <1>0, <1>1, TailFacts DEF Hears
<1>3. app.of \in {"registry", "pool"}
  BY TrackedFacts
<1>4. /\ \A key \in Tracked(app.of) : key0 = key <=> event \in News(app.of, key)
      /\ key0 # "" => event # "" /\ event \notin Marks
      /\ key0 \notin Foreign(app.of) \cup {"isSyncing"}
  BY <1>3, RefreshedIsNews
<1> HIDE DEF key0
<1>5. ASSUME NEW key \in Tracked(app.of), key0 # key, app'.of = app.of PROVE Coming(key) => Coming(key)'
  BY <1>0, <1>1, <1>4, <1>5, TailFacts DEF Coming, Hears
<1>6. ASSUME NEW key \in Tracked(app.of), key0 # key, app'.of = app.of, key \in DOMAIN app.state,
             app'.state[key] = app.state[key]
      PROVE  Current(key, app.state[key])'
  <2> DEFINE v == app'.state[key]
  <2>1. Current(key, v)
    BY <1>0, <1>1, <1>6, TrackedFacts DEF ShownOK
  <2> QED BY <1>1, <1>3, <1>5, <1>6, <2>1, CurrentStays
<1>7. /\ "" \notin Tracked(app.of) /\ "isSyncing" \notin Tracked(app.of) /\ "isSyncing" \notin Foreign(app.of)
      /\ app.event = "" /\ app.key = "" /\ app.answers = NoAnswers
      /\ DOMAIN app.state \cap Foreign(app.of) = {}
  BY <1>0, <1>1, TrackedFacts DEF Control, ShownOK
<1>8. CASE event \in Marks
  <2>1. key0 = ""
    BY <1>4, <1>8
  <2> DEFINE on == event = "SYNC_STATUS_SYNCING"
  <2>2. /\ DOMAIN app' = DOMAIN app /\ app'.of = app.of /\ app'.at = "ready" /\ app'.asked = {}
        /\ app'.answers = NoAnswers /\ app'.event = "" /\ app'.key = "" /\ app'.state = Put(app.state, "isSyncing", on)
    BY <1>0, <1>1, <1>7, <1>8 DEF Control
  <2> HIDE DEF on
  <2>3. /\ DOMAIN app'.state = DOMAIN app.state \cup {"isSyncing"}
        /\ \A x \in DOMAIN app.state \ {"isSyncing"} : app'.state[x] = app.state[x]
    BY <2>2 DEF Put
  <2>4. DOMAIN app'.state \cap Foreign(app.of) = {}
    BY <1>7, <2>3
  <2>5. ASSUME NEW key \in Tracked(app.of), key \in DOMAIN app'.state
        PROVE  Current(key, app.state[key])'
    <3>1. key # key0 /\ key \in DOMAIN app.state /\ app'.state[key] = app.state[key]
      BY <1>7, <2>1, <2>3, <2>5
    <3> QED BY <1>6, <2>2, <3>1
  <2> QED BY <1>1, <1>2, <2>2, <2>4, <2>5, ReadyKeeps
<1>9. CASE event \notin Marks /\ key0 = ""
  <2>1. app' = app
    BY <1>1, <1>9
  <2>2. /\ DOMAIN app' = DOMAIN app /\ app'.of = app.of /\ app'.at = "ready" /\ app'.asked = {}
        /\ app'.answers = NoAnswers /\ app'.event = "" /\ app'.key = "" /\ app'.state = app.state
    BY <1>1, <1>7, <2>1
  <2>3. DOMAIN app'.state \cap Foreign(app.of) = {}
    BY <1>7, <2>2
  <2>4. ASSUME NEW key \in Tracked(app.of), key \in DOMAIN app'.state
        PROVE  Current(key, app.state[key])'
    <3>1. key # key0 /\ key \in DOMAIN app.state /\ app'.state[key] = app.state[key]
      BY <1>7, <1>9, <2>2, <2>4
    <3> QED BY <1>6, <2>2, <3>1
  <2> QED BY <1>1, <1>2, <2>2, <2>3, <2>4, ReadyKeeps
<1>10. CASE event \notin Marks /\ key0 # ""
  <2>1. /\ DOMAIN app' = DOMAIN app /\ app'.of = app.of /\ app'.at = "fetching" /\ app'.asked = {View(key0)}
        /\ app'.answers = NoAnswers /\ app'.event = event /\ app'.key = key0 /\ app'.state = app.state
    BY <1>0, <1>1, <1>7, <1>10 DEF Control
  <2> HIDE DEF event
  <2>2. DOMAIN app'.state \cap Foreign(app.of) = {}
    BY <1>7, <2>1
  <2>3. ASSUME NEW key \in Tracked(app.of), key \in DOMAIN app'.state
        PROVE  Current(key, app.state[key])' \/ app'.key = key
    <3>1. CASE key # key0
      BY <1>6, <2>1, <2>3, <3>1
    <3>2. CASE key = key0
      BY <2>1, <3>2
    <3> QED BY <3>1, <3>2
  <2>4. /\ app'.event \in Events /\ app'.key \notin Foreign(app.of) \cup {"", "isSyncing"}
        /\ \A key \in Tracked(app.of) : app'.key = key => app'.event \in News(app.of, key)
        /\ View(app'.key) \in app'.asked
    BY <1>2, <1>4, <1>10, <2>1
  <2> QED BY <1>1, <1>2, <2>1, <2>2, <2>3, <2>4, ReadyKeeps
<1> QED BY <1>8, <1>9, <1>10

(* The views were read, or they were not and the script gives up.          *)
LEMMA SettledKeeps ==
  ASSUME AppInv, AppScene, UNCHANGED <<nodeOperators, summary, nonce, pool, log, listening, scene>>,
         app.asked = {}, app.at # "fetching", app'.at \in {"rejected", "router"}, DOMAIN app' = DOMAIN app,
         \A f \in {"of", "key", "event", "answers", "state"} : app'[f] = app[f],
         app.of = "registry"
  PROVE  AppInv'
<1>0. Hears /\ Control /\ AnswersOK /\ ShownOK
  BY DEF AppInv
<1>1. AppScene' /\ Hears'
  BY <1>0 DEF AppScene, Hears
<1>2. /\ app'.of = app.of /\ app'.key = app.key /\ app'.event = app.event /\ app'.answers = app.answers
      /\ app'.state = app.state /\ app.key = "" /\ app.event = "" /\ app.of \in {"registry", "pool"}
  BY <1>0 DEF Control
<1>3. Control'
  <2>1. /\ {"of", "at", "key", "event", "failures", "sessions", "asked", "answers", "state"} \subseteq DOMAIN app'
        /\ app'.of = IF scene' = "poolApp" THEN "pool" ELSE "registry"
    BY <1>0, <1>2 DEF Control
  <2> QED BY <1>2, <2>1 DEF Control
<1>4. ASSUME NEW key \in Tracked(app.of), NEW value, Current(key, value) PROVE Current(key, value)'
  BY <1>2, <1>4, SameLog, CurrentStays
<1>5. ASSUME NEW key \in Tracked(app.of) \ {"nodeOperators"}, View(key) \in DOMAIN app'.answers
      PROVE  Current(key, app.answers[View(key)])'
  <2> DEFINE v == app.answers[View(key)]
  <2>1. v' = v
    BY <1>2 DEF View
  <2>2. Current(key, v)
    BY <1>0, <1>2, <1>5 DEF AnswersOK
  <2> QED BY <1>4, <2>1, <2>2
<1>6. DetailsOK => DetailsOK'
  BY <1>2 DEF DetailsOK, Ids, Operator, Alike
<1>7. View("nodeOperators") \in DOMAIN app'.answers =>
        \/ app'.answers[View("nodeOperators")] = Undefined
        \/ Coming("nodeOperators")'
        \/ app'.answers[View("nodeOperators")] = Len(nodeOperators) /\ DetailsOK'
  BY <1>0, <1>2, <1>6, SameLog DEF AnswersOK
<1>8. AnswersOK'
  BY <1>2, <1>5, <1>7 DEF AnswersOK, View
<1>9. ASSUME NEW key \in DOMAIN app.state \cap Tracked(app.of)
      PROVE  (Current(key, app.state[key]) \/ app.key = key)'
  <2> DEFINE v == app.state[key]
  <2>1. Current(key, v) \/ app.key = key
    BY <1>0 DEF ShownOK
  <2>2. v' = v
    BY <1>2
  <2> QED BY <1>2, <1>4, <2>1, <2>2
<1>10. ShownOK'
  BY <1>0, <1>2, <1>9 DEF ShownOK
<1> QED BY <1>1, <1>3, <1>8, <1>10 DEF AppInv

(* Once the views were read, the script of the registry is ready.          *)
LEMMA RegistryStartKeeps ==
  ASSUME AppInv, AppScene, UNCHANGED <<nodeOperators, summary, nonce, listening, scene>>,
         RegistryVariablesSettled \/ RegistryInitialized
  PROVE  AppInv'
<1>0. Hears /\ Control /\ ShownOK
  BY DEF AppInv
<1>1. /\ app.of = "registry" /\ app.asked = {} /\ UNCHANGED <<pool, log>> /\ app.at # "fetching"
      /\ app.key = "" /\ app.event = ""
  BY <1>0 DEF RegistryVariablesSettled, RegistryInitialized, RunsOf, Control
<1>2. CASE RegistryVariablesSettled
  <2>1. /\ app'.at \in {"rejected", "router"} /\ DOMAIN app' = DOMAIN app
        /\ \A f \in {"of", "key", "event", "answers", "state"} : app'[f] = app[f]
    BY <1>0, <1>2 DEF RegistryVariablesSettled, Control
  <2> QED BY <1>1, <2>1, SettledKeeps
<1>3. CASE RegistryInitialized /\ app' = [app EXCEPT !.at = "rejected"]
  <2>1. /\ app'.at \in {"rejected", "router"} /\ DOMAIN app' = DOMAIN app
        /\ \A f \in {"of", "key", "event", "answers", "state"} : app'[f] = app[f]
    BY <1>0, <1>3 DEF Control
  <2> QED BY <1>1, <2>1, SettledKeeps
<1>4. CASE app' = [app EXCEPT !.at = "ready", !.answers = NoAnswers]
  <2>1. /\ DOMAIN app' = DOMAIN app /\ app'.of = app.of /\ app'.at = "ready" /\ app'.asked = {}
        /\ app'.answers = NoAnswers /\ app'.event = "" /\ app'.key = "" /\ app'.state = app.state
    BY <1>0, <1>1, <1>4 DEF Control
  <2>2. DOMAIN app'.state \cap Foreign(app.of) = {}
    BY <1>0, <2>1 DEF ShownOK
  <2>3. ASSUME NEW key \in Tracked(app.of), key \in DOMAIN app'.state
        PROVE  Current(key, app.state[key])'
    <3> DEFINE v == app'.state[key]
    <3>1. Current(key, v)
      BY <1>0, <1>1, <2>1, <2>3, TrackedFacts DEF ShownOK
    <3> QED BY <1>1, <2>1, <3>1, TrackedFacts, CurrentStays, SameLog
  <2> QED BY <1>0, <1>1, <2>1, <2>2, <2>3, ReadyKeeps DEF Hears
<1> QED BY <1>2, <1>3, <1>4 DEF RegistryInitialized

(* What the pool's script reads in the beginning.                          *)
LEMMA PoolViewsFacts ==
  /\ Tracked("pool") \subseteq poolViews
  /\ Tracked("pool") \cap locatorVariables = {}
  /\ Foreign("pool") \cap (poolViews \cup locatorVariables) = {}
<1>1. DOMAIN poolVariables = {1, 2, 3, 4, 5}
  BY DEF poolVariables
<1>2. /\ poolVariables[1].key = "isStopped" /\ poolVariables[2].key = "bufferedEther"
      /\ poolVariables[3].key = "totalELRewardsCollected" /\ poolVariables[4].key = "beaconStat"
      /\ poolVariables[5].key = "stakeLimitFullInfo"
  BY DEF poolVariables, Variable
<1>3. Keys(poolVariables) = {"isStopped", "bufferedEther", "totalELRewardsCollected", "beaconStat", "stakeLimitFullInfo"}
  BY <1>1, <1>2 DEF Keys
<1> QED BY <1>3 DEF poolViews, poolConstants, Tracked, Foreign, locatorVariables

(* The pool's script has its views.                                        *)
LEMMA PoolStartKeeps ==
  ASSUME AppInv, AppScene, UNCHANGED <<nodeOperators, summary, nonce, listening, scene>>, PoolInitialized
  PROVE  AppInv'
<1>0. Hears /\ Control /\ ShownOK
  BY DEF AppInv
<1>1. /\ app.of = "pool" /\ app.asked = {} /\ UNCHANGED <<pool, log>> /\ app.at = "init" /\ app.key = "" /\ app.event = ""
  BY <1>0 DEF PoolInitialized, RunsOf, Control
<1> DEFINE shown == [key \in locatorVariables \cup poolViews \cup DOMAIN app.state |->
                       IF key \in locatorVariables THEN Undefined
                       ELSE IF key \in poolViews THEN Fetched(key) ELSE app.state[key]]
<1>2. /\ DOMAIN app' = DOMAIN app /\ app'.of = app.of /\ app'.at = "ready" /\ app'.asked = {}
      /\ app'.answers = NoAnswers /\ app'.event = "" /\ app'.key = "" /\ app'.state = shown
  BY <1>0, <1>1 DEF PoolInitialized, Control
<1>3. DOMAIN shown = locatorVariables \cup poolViews \cup DOMAIN app.state
  OBVIOUS
<1>4. \A key \in Tracked("pool") : shown[key] = Fetched(key)
  BY PoolViewsFacts
<1> HIDE DEF shown
<1>5. DOMAIN app'.state \cap Foreign(app.of) = {}
  BY <1>0, <1>1, <1>2, <1>3, PoolViewsFacts DEF ShownOK
<1>6. ASSUME NEW key \in Tracked(app.of), key \in DOMAIN app'.state
      PROVE  Current(key, app.state[key])'
  <2> DEFINE v == app'.state[key]
  <2>1. View(key) \in DOMAIN app.answers
    BY <1>0, <1>1, PoolViewsFacts DEF Control
  <2>2. Current(key, Fetched(key))
    BY <1>1, <2>1, FetchedIsCurrent
  <2>3. v = Fetched(key)
    BY <1>1, <1>2, <1>4
  <2>4. Current(key, v)
    BY <2>2, <2>3
  <2> QED BY <1>1, <1>2, <2>4, TrackedFacts, CurrentStays, SameLog
<1> QED BY <1>0, <1>1, <1>2, <1>5, <1>6, ReadyKeeps DEF Hears

(* A session ends and the next one is sent what was not handled.           *)
LEMMA SessionFacts ==
  ASSUME NEW s \in Seq(Events)
  PROVE  Session(s) \in Seq(Events) /\ \A news : Says(s, news) => Says(Session(s), news)
<1> DEFINE a == <<"SYNC_STATUS_SYNCING">>
           b == <<"SYNC_STATUS_SYNCED">>
           t == a \o s
           u == t \o b
<1>1. a \in Seq(Events) /\ b \in Seq(Events)
  <2>1. "SYNC_STATUS_SYNCING" \in Events /\ "SYNC_STATUS_SYNCED" \in Events
    BY DEF Events, Marks
  <2> QED BY <2>1, OneEvent
<1>2. Session(s) = u
  BY DEF Session
<1> HIDE DEF a, b
<1>3. t \in Seq(Events) /\ \A news : Says(s, news) => Says(t, news)
  BY <1>1, SaysFacts
<1> HIDE DEF t
<1>4. u \in Seq(Events) /\ \A news : Says(t, news) => Says(u, news)
  BY <1>1, <1>3, SaysFacts
<1> HIDE DEF u
<1> QED BY <1>2, <1>3, <1>4

LEMMA RestartKeeps ==
  ASSUME AppInv, AppScene, UNCHANGED <<nodeOperators, summary, nonce, listening, scene>>, Restart
  PROVE  AppInv'
<1>0. Hears /\ Control /\ ShownOK
  BY DEF AppInv
<1> DEFINE handled == IF app.event = "" THEN <<>> ELSE <<app.event>>
           rest == WithoutMarks(log)
           unhandled == handled \o rest
<1>1. app.of \in {"registry", "pool"}
  BY TrackedFacts
<1>2. /\ DOMAIN app' = DOMAIN app /\ app'.of = app.of /\ app'.at = "init" /\ app'.key = "" /\ app'.event = ""
      /\ app'.asked = {View(v) : v \in IF app.of = "registry" THEN registryViews ELSE poolViews}
      /\ app'.answers = NoAnswers /\ app'.state = app.state /\ pool' = pool /\ log' = Session(unhandled)
  BY <1>0 DEF Restart, Control
<1>3. handled \in Seq(Events) /\ \A news : app.event # "" /\ app.event \in news => Says(handled, news)
  <2>1. app.event \in Events \/ app.event = ""
    BY <1>0 DEF Control
  <2>2. CASE app.event = ""
    BY <2>2, NoEvent
  <2>3. CASE app.event # "" /\ app.event \in Events
    BY <2>3, OneEvent
  <2> QED BY <2>1, <2>2, <2>3
<1>4. rest \in Seq(Events) /\ \A news : Says(log, news) /\ news \cap Marks = {} => Says(rest, news)
  BY <1>0, UnmarkedFacts DEF Hears
<1> HIDE DEF handled, rest
<1>5. /\ unhandled \in Seq(Events)
      /\ \A news : Says(handled, news) \/ Says(rest, news) => Says(unhandled, news)
  BY <1>3, <1>4, SaysFacts
<1> HIDE DEF unhandled
<1>6. log' \in Seq(Events) /\ \A news : Says(unhandled, news) => Says(log', news)
  BY <1>2, <1>5, SessionFacts
<1>7. ASSUME NEW key \in Tracked(app.of) PROVE News(app.of, key) \cap Marks = {}
  <2>1. ASSUME NEW e \in News(app.of, key) PROVE e \notin Marks
    <3>1. Refreshed(e) = key /\ key # ""
      BY <1>1, <2>1, RefreshedIsNews, TrackedFacts
    <3> QED BY <1>1, <3>1, RefreshedIsNews
  <2> QED BY <2>1
<1>8. ASSUME NEW key \in Tracked(app.of), Coming(key) PROVE Coming(key)'
  <2>1. Says(log', News(app.of, key))
    BY <1>4, <1>5, <1>6, <1>7, <1>8 DEF Coming
  <2> QED BY <1>2, <2>1 DEF Coming
<1>9. ASSUME NEW key \in Tracked(app.of), app.key = key PROVE Coming(key)'
  <2>1. app.at = "fetching"
    BY <1>9, TrackedFacts
  <2>2. app.event \in Events /\ app.event \in News(app.of, key)
    BY <1>0, <1>9, <2>1 DEF Control
  <2>3. app.event # ""
    BY <2>2 DEF Events, Emitted, Marks
  <2>4. Says(log', News(app.of, key))
    BY <1>3, <1>5, <1>6, <2>2, <2>3
  <2> QED BY <1>2, <2>4 DEF Coming
<1>10. ASSUME NEW key \in Tracked(app.of), key \in DOMAIN app'.state
       PROVE  Current(key, app.state[key])'
  <2> DEFINE v == app'.state[key]
  <2>1. Current(key, v) \/ app.key = key
    BY <1>0, <1>2, <1>10 DEF ShownOK
  <2>2. CASE Current(key, v)
    BY <1>1, <1>2, <1>8, <2>2, CurrentStays
  <2>3. CASE app.key = key
    <3>1. Coming(key)'
      BY <1>9, <2>3
    <3> QED BY <3>1 DEF Current
  <2> QED BY <2>1, <2>2, <2>3
<1>11. DOMAIN app'.state \cap Foreign(app.of) = {}
  BY <1>0, <1>2 DEF ShownOK
<1>12. app.of = "pool" => \A v \in poolViews : View(v) \in app'.asked
  BY <1>2
<1> QED BY <1>2, <1>6, <1>10, <1>11, <1>12, ReadyKeeps

(* Where no application runs, none does anything.                          *)
LEMMA OtherScene ==
  ASSUME AppInv, ~ AppScene, UNCHANGED <<app, scene>> PROVE AppInv'
BY DEF AppInv, AppScene

(* Every step of an application.                                           *)
LEMMA AppStepKeeps ==
  ASSUME AppInv, AppStep PROVE AppInv'
<1>1. AppScene /\ UNCHANGED <<nodeOperators, summary, nonce, listening, scene>>
  BY DEF AppStep, AppScene
<1>2. ASSUME NEW read \in app.asked, CallAnswered(read) \/ CallFails(read), UNCHANGED <<pool, log>> PROVE AppInv'
  <2>0. {"of", "at", "key", "event", "failures", "sessions", "asked", "answers", "state"} \subseteq DOMAIN app
    BY <1>1 DEF AppInv, Control
  <2>1. CASE CallAnswered(read)
    <3> DEFINE answer == Answer(read)
               follow == Follow(read, answer)
               answers == Put(app.answers, read, answer)
    <3>1. app' = [app EXCEPT !.asked = (@ \ {read}) \cup follow, !.answers = answers]
      BY <2>1 DEF CallAnswered, Answered
    <3> HIDE DEF answer, follow, answers
    <3>2. /\ app'.asked = (app.asked \ {read}) \cup follow /\ app'.answers = answers
          /\ DOMAIN app' = DOMAIN app /\ \A f \in {"of", "at", "key", "event", "state"} : app'[f] = app[f]
      BY <2>0, <3>1
    <3>3. answer \in {Undefined, Answer(read)}
      BY DEF answer
    <3> QED BY <1>1, <1>2, <3>2, <3>3, AnswersKeep DEF follow, answers
  <2>2. CASE CallFails(read)
    <3> DEFINE answers == Put(app.answers, read, Undefined)
    <3>1. app' = [app EXCEPT !.asked = @ \ {read}, !.answers = answers, !.failures = @ + 1]
      BY <2>2 DEF CallFails
    <3> HIDE DEF answers
    <3>2. /\ app'.asked = app.asked \ {read} /\ app'.answers = answers
          /\ DOMAIN app' = DOMAIN app /\ \A f \in {"of", "at", "key", "event", "state"} : app'[f] = app[f]
      BY <2>0, <3>1
    <3>3. Follow(read, Undefined) = {}
      BY DEF Follow
    <3>4. app'.asked = (app.asked \ {read}) \cup Follow(read, Undefined)
      BY <3>2, <3>3
    <3> QED BY <1>1, <1>2, <3>2, <3>4, AnswersKeep DEF answers
  <2> QED BY <1>2, <2>1, <2>2
<1>3. CASE RegistryVariablesSettled \/ RegistryInitialized
  BY <1>1, <1>3, RegistryStartKeeps
<1>4. CASE PoolInitialized
  BY <1>1, <1>4, PoolStartKeeps
<1>5. CASE RegistryReducer \/ PoolReducer
  <2>1. PICK of \in {"registry", "pool"} : TakeEvent(of) \/ StoreFetched(of)
    BY <1>5 DEF RegistryReducer, PoolReducer
  <2>2. CASE TakeEvent(of)
    BY <1>1, <2>2, TakeEventKeeps
  <2>3. CASE StoreFetched(of)
    BY <1>1, <2>3, StoreFetchedKeeps
  <2> QED BY <2>1, <2>2, <2>3
<1>6. CASE Restart
  BY <1>1, <1>6, RestartKeeps
<1> QED BY <1>2, <1>3, <1>4, <1>5, <1>6 DEF AppStep

(* What changes nothing an application knows.                              *)
LEMMA UnknownKeeps ==
  ASSUME AppInv, UNCHANGED <<nodeOperators, summary, nonce, log, listening, app, pool, scene>>
  PROVE  AppInv'
<1>1. CASE AppScene
  <2>1. log' = log \o <<>>
    BY <1>1, ConcatEmptySeq DEF AppInv, Hears
  <2>2. Announces("registry", <<>>)
    <3>1. Kept("nonce") /\ Kept("stakingModuleSummary") /\ Kept("nodeOperators")
      BY DEF Kept, Alike
    <3> QED BY <3>1 DEF Announces, Tracked
  <2>3. Announces("pool", <<>>)
    <3>1. Kept("isStopped") /\ Kept("totalELRewardsCollected")
      BY DEF Kept
    <3> QED BY <3>1 DEF Announces, Tracked
  <2> QED BY <1>1, <2>1, <2>2, <2>3, NoEvent, WorldKeeps
<1>2. CASE ~ AppScene
  BY <1>2, OtherScene
<1> QED BY <1>1, <1>2

(* The calls of the others: what they change is told.                      *)
LEMMA CallKeeps ==
  ASSUME RegInv, RegInv', AppInv, Call PROVE AppInv'
<1>1. PICK name \in CallsOf[scene] :
         \/ RegistryCalls(name) /\ UNCHANGED programVars
         \/ SecurityCalls(name) /\ UNCHANGED <<registryVars, others>>
         \/ /\ PoolCalls(name)
            /\ UNCHANGED <<nodeOperators, signingKeys, summary, nonce, activeOperatorsCount, owners, now, listening, approved>>
            /\ UNCHANGED <<securityVars, depositerVars, tasksVars, imageVars, scene>>
         \/ LedgerCalls(name) /\ UNCHANGED <<registryVars, securityVars, depositerVars, appVars, tasksVars, scene>>
  BY DEF Call
<1>2. CASE RegistryCalls(name) /\ UNCHANGED programVars
  <2>1. UNCHANGED <<app, pool, scene>>
    BY <1>2 DEF programVars
  <2>2. CASE AppScene
    <3>1. CallStep
      BY <1>2, OwnersCalls, ManagersCalls, RoutersCalls DEF RegistryCalls
    <3>2. listening /\ log \in Seq(Events)
      BY <2>2 DEF AppInv, Hears
    <3>3. Tells /\ UNCHANGED listening
      BY <3>1, <3>2, CallsTell
    <3>4. PICK e \in Seq(Events) : log' = log \o e /\ Announces("registry", e)
      BY <3>3 DEF Tells
    <3>5. Announces("pool", e)
      <4>1. Kept("isStopped") /\ Kept("totalELRewardsCollected")
        BY <2>1 DEF Kept
      <4> QED BY <4>1 DEF Announces, Tracked
    <3> QED BY <2>1, <2>2, <3>3, <3>4, <3>5, WorldKeeps
  <2>3. CASE ~ AppScene
    BY <2>1, <2>3, OtherScene
  <2> QED BY <2>2, <2>3
<1>3. CASE SecurityCalls(name) /\ UNCHANGED <<registryVars, others>>
  <2>1. UNCHANGED <<nodeOperators, summary, nonce, log, listening, app, pool, scene>>
    BY <1>3 DEF registryVars, others
  <2> QED BY <2>1, UnknownKeeps
<1>4. CASE /\ PoolCalls(name)
           /\ UNCHANGED <<nodeOperators, signingKeys, summary, nonce, activeOperatorsCount, owners, now, listening, approved>>
           /\ UNCHANGED <<securityVars, depositerVars, tasksVars, imageVars, scene>>
  <2>1. UNCHANGED <<nodeOperators, summary, nonce, listening, scene>>
    BY <1>4
  <2>2. CASE AppScene
    <3>1. Hears
      BY <2>2 DEF AppInv
    <3>2. /\ app' = app /\ DOMAIN pool' = DOMAIN pool
          /\ \E e \in Seq(Events) : log' = log \o e /\ Announces("registry", e) /\ Announces("pool", e)
      BY <1>4, <2>1, <3>1, PoolTells
    <3> QED BY <2>1, <2>2, <3>2, WorldKeeps
  <2>3. CASE ~ AppScene
    <3>1. app' = app
      BY <1>4 DEF PoolCalls, resume, stop, submit, receiveELRewards, depositOfPool, handleOracleReport, PoolCall
    <3> QED BY <2>1, <2>3, <3>1, OtherScene
  <2> QED BY <2>2, <2>3
<1>5. CASE LedgerCalls(name) /\ UNCHANGED <<registryVars, securityVars, depositerVars, appVars, tasksVars, scene>>
  <2>1. UNCHANGED <<nodeOperators, summary, nonce, log, listening, app, pool, scene>>
    BY <1>5 DEF registryVars, appVars
  <2> QED BY <2>1, UnknownKeeps
<1> QED BY <1>1, <1>2, <1>3, <1>4, <1>5

LEMMA AppKeeps ==
  ASSUME RegInv, RegInv', AppInv, [Next]_vars PROVE AppInv'
<1>1. CASE Call
  BY <1>1, CallKeeps
<1>2. CASE Tick \/ DepositerStep \/ TaskStep \/ ImageStep
  <2>1. ~ AppScene
    BY <1>2 DEF AppScene, Tick, DepositerStep, TaskStep, ImageStep
  <2>2. UNCHANGED <<app, scene>>
    BY <1>2 DEF Tick, DepositerStep, TaskStep, ImageStep, programVars, appVars
  <2> QED BY <2>1, <2>2, OtherScene
<1>3. CASE AppStep
  BY <1>3, AppStepKeeps
<1>4. CASE UNCHANGED vars
  <2>1. UNCHANGED <<nodeOperators, summary, nonce, log, listening, app, pool, scene>>
    BY <1>4 DEF vars, registryVars, programVars
  <2> QED BY <2>1, UnknownKeeps
<1> QED BY <1>1, <1>2, <1>3, <1>4 DEF Next

(* What the scripts of the applications show is what the contracts have,   *)
(* or an event that makes them read it again waits, or is being handled:   *)
(* however late calls are answered, whichever fail, and wherever a session *)
(* ends (the reducers of apps/node-operators-registry and apps/lido).      *)
THEOREM CachesAreFresh == Spec => []CacheIsFreshOrPending
<1>1. Init => AppInv
  BY AppInvInit
<1>2. (RegInv /\ ProgramsOK) /\ (RegInv /\ ProgramsOK)' /\ AppInv /\ [Next]_vars => AppInv'
  BY AppKeeps
<1>3. AppInv => CacheIsFreshOrPending
  BY AppInvIsEnough
<1> QED BY <1>1, <1>2, <1>3, RegistryInvariant, PTL DEF Spec
=============================================================================
