------------------------- MODULE HashConsensus_proof -------------------------
(***************************************************************************)
(* Machine-checked proofs about HashConsensus, for every value of its      *)
(* constants.                                                              *)
(***************************************************************************)
EXTENDS HashConsensus, ReportingFrames_proof, SequenceTheorems, FiniteSetTheorems, TLAPS

(* Popping after moving the last entry shortens an array by one.           *)
LEMMA SwapRemoveType ==
  ASSUME NEW S, NEW s \in Seq(S), NEW index \in 1 .. Len(s)
  PROVE  /\ SwapRemove(s, index) \in Seq(S)
         /\ Len(SwapRemove(s, index)) = Len(s) - 1
         /\ \A i \in 1 .. Len(s) - 1 :
              SwapRemove(s, index)[i] = IF i = index THEN s[Len(s)] ELSE s[i]
<1>1. Len(s) \in Nat /\ Len(s) - 1 \in Nat
  BY LenProperties
<1>2. \A i \in 1 .. Len(s) : s[i] \in S
  BY ElementOfSeq
<1> QED BY <1>1, <1>2 DEF SwapRemove

-----------------------------------------------------------------------------
(* The current frame *)

(* The current reference slot moves with the start of the current frame.   *)
LEMMA RefSlotType ==
  ASSUME TypeOK, FrameComputable(frameConfig)
  PROVE  /\ RefSlot \in Nat
         /\ HasCurrentFrame =>
              RefSlot = ComputeFrameStartEpoch(now, frameConfig) * SLOTS_PER_EPOCH - 1
BY FrameType DEF TypeOK, HasCurrentFrame, CurrentFrame, RefSlot

LEMMA RefSlotAfterTick ==
  ASSUME TypeOK, TypeOK', FrameComputable(frameConfig), Tick
  PROVE  RefSlot' >= RefSlot
<1>0. now' = now + 1 /\ frameConfig' = frameConfig /\ FrameComputable(frameConfig')
  BY DEF Tick
<1>1. RefSlot \in Nat /\ RefSlot' \in Nat
  BY <1>0, RefSlotType, FrameType
     DEF TypeOK, HasCurrentFrame, CurrentFrame, RefSlot
<1>2. CASE ~HasCurrentFrame
  BY <1>1, <1>2 DEF RefSlot
<1>3. CASE HasCurrentFrame
  <2> DEFINE s == ComputeFrameStartEpoch(now, frameConfig)
             t == ComputeFrameStartEpoch(now', frameConfig)
  <2>1. now \in Nat /\ now' \in Nat /\ now >= GENESIS_TIME /\ now <= now'
        /\ now' >= GENESIS_TIME /\ frameConfig \in FrameConfigType
    BY <1>0 DEF TypeOK
  <2>2. HasArrived(now, frameConfig)
    BY <1>3 DEF HasCurrentFrame
  <2>3. HasArrived(now', frameConfig) /\ s <= t
    BY <2>1, <2>2, FrameStartMonotone
  <2>4. s \in Nat /\ t \in Nat
    BY <2>1, <2>2, <2>3, FrameType
  <2> HIDE DEF s, t
  <2>5. s * SLOTS_PER_EPOCH <= t * SLOTS_PER_EPOCH
        /\ s * SLOTS_PER_EPOCH \in Nat /\ t * SLOTS_PER_EPOCH \in Nat
    BY <2>3, <2>4, ProductMonotone, ProductType, ChainSpecAssumption
  <2>6. RefSlot = s * SLOTS_PER_EPOCH - 1
    BY <1>3, RefSlotType DEF s
  <2>7. RefSlot' = t * SLOTS_PER_EPOCH - 1
    BY <1>0, <2>1, <2>3, FrameType DEF RefSlot, HasCurrentFrame, CurrentFrame, t
  <2> QED BY <2>5, <2>6, <2>7
<1> QED BY <1>2, <1>3

(* setFrameConfig restarts the frames at the current frame: the reference  *)
(* slot stays, or moves by at least one frame of the new size.             *)
LEMMA RefSlotAfterSetFrameConfig ==
  ASSUME TypeOK, TypeOK', FrameComputable(frameConfig),
         NEW n \in Nat, NEW l \in Nat, SetFrameConfig(n, l)
  PROVE  /\ FrameComputable(frameConfig') /\ HasCurrentFrame'
         /\ \/ RefSlot' = RefSlot
            \/ RefSlot' - RefSlot >= frameConfig'.epochsPerFrame * SLOTS_PER_EPOCH
<1> DEFINE s == ComputeFrameStartEpoch(now, frameConfig)
           e == ComputeEpochAtTimestamp(now)
           i == (e - s) \div n
<1>1. /\ now' = now /\ HasArrived(now, frameConfig)
      /\ frameConfig' = [initialEpoch |-> s, epochsPerFrame |-> n,
                         fastLaneLengthSlots |-> l]
      /\ n # 0
  BY DEF SetFrameConfig, ReconfigureFrames, HasCurrentFrame, ValidFrameConfig
<1>2. /\ now \in Nat /\ now >= GENESIS_TIME
      /\ frameConfig \in FrameConfigType /\ frameConfig' \in FrameConfigType
  BY <1>1 DEF TypeOK
<1>3. e \in Nat /\ s \in Nat /\ s >= frameConfig.initialEpoch
  BY <1>1, <1>2, EpochType, FrameType
<1>4. s <= e
  <2> DEFINE c == frameConfig.initialEpoch
             m == frameConfig.epochsPerFrame
  <2>1. c \in Nat /\ m \in Nat \ {0} /\ e - c \in Nat
    BY <1>1, <1>2, <1>3 DEF FrameConfigType, HasArrived
  <2>2. s = c + ((e - c) \div m) * m
    BY DEF ComputeFrameStartEpoch, ComputeStartEpochOfFrameWithIndex, ComputeFrameIndex
  <2> HIDE DEF c, m, e, s
  <2>3. ((e - c) \div m) * m <= e - c
    BY <2>1
  <2>4. ((e - c) \div m) * m \in Nat
    BY <2>1, QuotientType, ProductType
  <2> QED BY <1>3, <2>1, <2>2, <2>3, <2>4
<1>5. HasArrived(now', frameConfig') /\ HasCurrentFrame'
  BY <1>1, <1>3, <1>4 DEF HasArrived, HasCurrentFrame
<1>6. ComputeFrameStartEpoch(now', frameConfig') = s + i * n
  BY <1>1 DEF ComputeFrameStartEpoch, ComputeStartEpochOfFrameWithIndex,
              ComputeFrameIndex
<1> HIDE DEF s, e, i
<1>7. i \in Nat /\ i * n \in Nat
  BY <1>1, <1>3, <1>4, QuotientType, ProductType DEF i
<1>8. s * SLOTS_PER_EPOCH \in Nat /\ n * SLOTS_PER_EPOCH \in Nat
  BY <1>3, ProductType, ChainSpecAssumption
<1>9. FrameComputable(frameConfig')
  <2>1. frameConfig.initialEpoch * SLOTS_PER_EPOCH <= s * SLOTS_PER_EPOCH
        /\ frameConfig.initialEpoch * SLOTS_PER_EPOCH \in Nat
    BY <1>2, <1>3, ProductMonotone, ProductType, ChainSpecAssumption DEF FrameConfigType
  <2> QED BY <1>1, <1>8, <2>1 DEF FrameComputable, ComputeStartSlotAtEpoch
<1>10. RefSlot = s * SLOTS_PER_EPOCH - 1
  BY <1>1, RefSlotType DEF s, HasCurrentFrame
<1>11. RefSlot' = (s + i * n) * SLOTS_PER_EPOCH - 1
  BY <1>1, <1>2, <1>5, <1>6, <1>9, FrameType
     DEF RefSlot, HasCurrentFrame, CurrentFrame
<1>12. CASE i = 0
  <2>1. i * n = 0
    BY <1>12
  <2> QED BY <1>3, <1>5, <1>9, <1>10, <1>11, <2>1
<1>13. CASE i # 0
  <2>1. i * n >= n
    BY <1>7, <1>13
  <2>2. s + n <= s + i * n
    BY <1>3, <1>7, <2>1
  <2>3. (s + n) * SLOTS_PER_EPOCH <= (s + i * n) * SLOTS_PER_EPOCH
    BY <1>3, <1>7, <2>2, ProductMonotone, ChainSpecAssumption
  <2>4. (s + n) * SLOTS_PER_EPOCH = s * SLOTS_PER_EPOCH + n * SLOTS_PER_EPOCH
    BY <1>3, ChainSpecAssumption
  <2>5. (s + i * n) * SLOTS_PER_EPOCH \in Nat
    BY <1>3, <1>7, ProductType, ChainSpecAssumption
  <2>6. frameConfig'.epochsPerFrame = n
    BY <1>1
  <2> QED BY <1>5, <1>8, <1>9, <1>10, <1>11, <2>3, <2>4, <2>5, <2>6
<1> QED BY <1>12, <1>13

(* The fast lane length has no say in where the frames are.                *)
LEMMA RefSlotAfterSetFastLane ==
  ASSUME TypeOK, NEW l \in Nat, SetFastLaneLengthSlots(l)
  PROVE  RefSlot' = RefSlot /\ FrameComputable(frameConfig') = FrameComputable(frameConfig)
<1>1. /\ now' = now
      /\ frameConfig'.initialEpoch = frameConfig.initialEpoch
      /\ frameConfig'.epochsPerFrame = frameConfig.epochsPerFrame
  BY DEF SetFastLaneLengthSlots, ReconfigureFrames, TypeOK, FrameConfigType
<1> QED
  BY <1>1 DEF RefSlot, HasCurrentFrame, CurrentFrame, HasArrived, FrameComputable,
     GetFrameAtTimestamp, GetFrameAtIndex, ComputeFrameIndex,
     ComputeStartEpochOfFrameWithIndex

-----------------------------------------------------------------------------
(* Type correctness *)

LEMMA CurrentFrameType ==
  ASSUME TypeOK, HasCurrentFrame, FrameComputable(frameConfig)
  PROVE  /\ CurrentFrame.refSlot \in Nat
         /\ CurrentFrame.index \in Nat
         /\ CurrentFrame.reportProcessingDeadlineSlot \in Nat
BY FrameType DEF TypeOK, HasCurrentFrame, CurrentFrame

(* The part of the type invariant the report processing calls may change.  *)
ConsensusTypeOK ==
  /\ lastConsensusRefSlot \in Nat
  /\ lastConsensusVariantIndex \in Nat
  /\ oracle \in [Processors -> Register(Hashes)]

LEMMA SubmissionType ==
  ASSUME TypeOK, NEW p \in Processors, NEW hash \in Hashes, NEW frame,
         frame.refSlot \in Nat, frame.reportProcessingDeadlineSlot \in Nat,
         SubmitReportForProcessing(p, frame, hash)
  PROVE  oracle' \in [Processors -> Register(Hashes)]
<1> DEFINE deadline == ComputeTimestampAtSlot(frame.reportProcessingDeadlineSlot)
<1>1. frame.reportProcessingDeadlineSlot * SECONDS_PER_SLOT \in Nat
  BY ProductType, ChainSpecAssumption
<1>2. deadline \in Nat
  BY <1>1, ChainSpecAssumption DEF ComputeTimestampAtSlot
<1>3. oracle' = [oracle EXCEPT ![p] =
                   SubmitConsensusReport(@, hash, frame.refSlot, deadline)]
  BY DEF SubmitReportForProcessing
<1>4. oracle[p] \in Register(Hashes)
  BY DEF TypeOK
<1> HIDE DEF deadline
<1>5. SubmitConsensusReport(oracle[p], hash, frame.refSlot, deadline)
        \in Register(Hashes)
  BY <1>2, <1>4 DEF SubmitConsensusReport, Register
<1> QED BY <1>3, <1>5 DEF TypeOK

LEMMA ReachedType ==
  ASSUME TypeOK, NEW hash \in Hashes, NEW v \in Nat, NEW frame,
         frame.refSlot \in Nat, frame.reportProcessingDeadlineSlot \in Nat,
         ConsensusReached(frame, hash, v)
  PROVE  ConsensusTypeOK'
<1>1. reportProcessor \in Processors
  BY DEF TypeOK
<1>2. CASE lastConsensusRefSlot # frame.refSlot \/ lastConsensusVariantIndex # v
  BY <1>1, <1>2, SubmissionType DEF ConsensusReached, ConsensusTypeOK
<1>3. CASE ~(lastConsensusRefSlot # frame.refSlot \/ lastConsensusVariantIndex # v)
  BY <1>3 DEF ConsensusReached, ConsensusTypeOK, consensusVars, TypeOK
<1> QED BY <1>2, <1>3

LEMMA NotReachedType ==
  ASSUME TypeOK, NEW frame, ConsensusNotReached(frame)
  PROVE  ConsensusTypeOK'
<1>1. CASE lastConsensusRefSlot = frame.refSlot
  <2>1. oracle' = [oracle EXCEPT ![reportProcessor] =
                     DiscardConsensusReport(@, frame.refSlot)]
    BY <1>1 DEF ConsensusNotReached, CancelReportProcessing
  <2>2. oracle[reportProcessor] \in Register(Hashes)
    BY DEF TypeOK
  <2>3. DiscardConsensusReport(oracle[reportProcessor], frame.refSlot)
          \in Register(Hashes)
    BY <2>2 DEF DiscardConsensusReport, Register
  <2>4. oracle' \in [Processors -> Register(Hashes)]
    BY <2>1, <2>3 DEF TypeOK
  <2> QED BY <1>1, <2>4 DEF ConsensusNotReached, ConsensusTypeOK, TypeOK
<1>2. CASE lastConsensusRefSlot # frame.refSlot
  BY <1>2 DEF ConsensusNotReached, ConsensusTypeOK, consensusVars, TypeOK
<1> QED BY <1>1, <1>2

LEMMA CheckType ==
  ASSUME TypeOK, NEW q \in Nat, NEW n \in Nat, NEW variants \in Seq(Variant),
         SetQuorumAndCheckConsensus(q, n, variants)
  PROVE  ConsensusTypeOK' /\ quorum' \in Nat
<1>1. quorum' \in Nat
  BY DEF SetQuorumAndCheckConsensus
<1>2. CASE UNCHANGED consensusVars
  BY <1>1, <1>2 DEF ConsensusTypeOK, consensusVars, TypeOK
<1>3. CASE HasCurrentFrame /\ ~UNCHANGED consensusVars
  <2>1. CheckConsensus(q, variants)
    BY <1>3 DEF SetQuorumAndCheckConsensus
  <2>2. CurrentFrame.refSlot \in Nat
        /\ CurrentFrame.reportProcessingDeadlineSlot \in Nat
    BY <1>3, <2>1, CurrentFrameType DEF CheckConsensus
  <2>3. \/ ConsensusNotReached(CurrentFrame)
        \/ \E v \in DOMAIN variants :
             ConsensusReached(CurrentFrame, variants[v].hash, v)
    BY <1>3, <2>1 DEF CheckConsensus, Winners
  <2>4. \A v \in DOMAIN variants : v \in Nat /\ variants[v].hash \in Hashes
    <3>1. \A v \in DOMAIN variants : v \in 1 .. Len(variants)
      BY LenProperties
    <3>2. \A v \in 1 .. Len(variants) : variants[v] \in Variant
      BY ElementOfSeq
    <3> QED BY <3>1, <3>2, LenProperties DEF Variant
  <2> QED BY <1>1, <2>2, <2>3, <2>4, ReachedType, NotReachedType
<1> QED BY <1>2, <1>3 DEF SetQuorumAndCheckConsensus

-----------------------------------------------------------------------------
(* The inductive invariant of the type theorem.  The types of the member   *)
(* arrays depend on the indices leading into them, so the consistency of   *)
(* the indices is part of it.                                              *)
TInv == TypeOK /\ MemberIndicesConsistent

LEMMA StateOfMember ==
  ASSUME TInv, NEW a \in Addresses, IsMember(a)
  PROVE  /\ memberIndices1b[a] \in 1 .. Len(memberStates)
         /\ memberIndices1b[a] \in 1 .. Len(memberAddresses)
         /\ memberAddresses[memberIndices1b[a]] = a
         /\ memberStates[memberIndices1b[a]] \in MemberState
BY ElementOfSeq DEF TInv, TypeOK, MemberIndicesConsistent, Members, TotalMembers

LEMMA InitTInv ==
  Init => TInv
<1> SUFFICES ASSUME Init PROVE TInv
  OBVIOUS
<1>1. frameConfig \in FrameConfigType
  BY HashConsensusAssumption DEF Init, ValidFrameConfig, FrameConfigType
<1>2. \A s \in InitialRefSlots : InitRegister(s) \in Register(Hashes)
  BY HashConsensusAssumption DEF InitRegister, Register
<1>3. oracle \in [Processors -> Register(Hashes)]
  BY <1>2 DEF Init
<1>4. TypeOK
  BY <1>1, <1>3, ChainSpecAssumption DEF Init, TypeOK
<1>5. MemberIndicesConsistent
  BY DEF Init, MemberIndicesConsistent, Members, IsMember, TotalMembers
<1> QED BY <1>4, <1>5 DEF TInv

LEMMA VariantCounted ==
  ASSUME NEW vs \in Seq(Variant), NEW v \in 1 .. Len(vs) + 1, NEW h \in Hashes
  PROVE  Count(vs, v, h) \in Seq(Variant)
<1>0. Len(vs) \in Nat
  BY LenProperties
<1>1. CASE v <= Len(vs)
  <2>1. v \in 1 .. Len(vs)
    BY <1>0, <1>1
  <2>2. vs[v] \in Variant
    BY <2>1, ElementOfSeq
  <2>3. [vs[v] EXCEPT !.support = @ + 1] \in Variant
    BY <2>2 DEF Variant
  <2> QED BY <1>1, <2>1, <2>3, ExceptSeq DEF Count
<1>2. CASE ~(v <= Len(vs))
  BY <1>2 DEF Count, Variant
<1> QED BY <1>1, <1>2

LEMMA VariantWithdrawn ==
  ASSUME NEW vs \in Seq(Variant), NEW v \in DOMAIN vs, vs[v].support > 0
  PROVE  /\ Withdraw(vs, v) \in Seq(Variant)
         /\ Len(Withdraw(vs, v)) = Len(vs)
<1>1. v \in 1 .. Len(vs)
  BY LenProperties
<1>2. vs[v] \in Variant
  BY <1>1, ElementOfSeq
<1>3. [vs[v] EXCEPT !.support = @ - 1] \in Variant
  BY <1>2 DEF Variant
<1> QED BY <1>1, <1>3, ExceptSeq DEF Withdraw

LEMMA SubmitReportTInv ==
  ASSUME TInv, NEW m \in Addresses, NEW h \in Hashes, SubmitReport(m, h)
  PROVE  TInv'
<1> DEFINE slot == CurrentFrame.refSlot
           index == memberIndices1b[m]
           prior == PriorVariants(slot)
           reported == memberStates[index].lastReportRefSlot = slot
           prevVar == memberStates[index].lastReportVariantIndex
           withdrawn == IF reported THEN Withdraw(prior, prevVar) ELSE prior
<1>1. /\ slot \in Nat
      /\ CurrentFrame.reportProcessingDeadlineSlot \in Nat
  BY CurrentFrameType DEF SubmitReport, CanReport, TInv
<1>2. IsMember(m) /\ index \in 1 .. Len(memberStates)
  BY StateOfMember DEF SubmitReport, CanReport
<1>3. prior \in Seq(Variant)
  BY DEF PriorVariants, TInv, TypeOK
<1>4. withdrawn \in Seq(Variant) /\ Len(withdrawn) = Len(prior)
  BY <1>3, VariantWithdrawn DEF SubmitReport
<1>5. PICK v \in 1 .. Len(prior) + 1 :
        /\ reportVariants' = Count(withdrawn, v, h)
        /\ memberStates' = [memberStates EXCEPT ![index] =
              [lastReportRefSlot |-> slot, lastReportVariantIndex |-> v]]
        /\ \/ ConsensusReached(CurrentFrame, h, v)
           \/ ConsensusNotReached(CurrentFrame)
           \/ UNCHANGED consensusVars
  BY DEF SubmitReport
<1>6. lastReportRefSlot' = slot
      /\ UNCHANGED <<now, frameConfig, memberAddresses, memberIndices1b,
                     quorum, reportProcessor>>
  BY DEF SubmitReport
<1> HIDE DEF slot, index, prior, withdrawn, reported, prevVar
<1>7. Len(prior) \in Nat /\ v \in Nat
  BY <1>3, LenProperties
<1>8. reportVariants' \in Seq(Variant)
  BY <1>4, <1>5, VariantCounted
<1>9. memberStates' \in Seq(MemberState) /\ Len(memberStates') = Len(memberStates)
  BY <1>1, <1>2, <1>5, <1>7, ExceptSeq DEF TInv, TypeOK, MemberState
<1>10. ConsensusTypeOK'
  BY <1>1, <1>5, <1>7, ReachedType, NotReachedType
     DEF TInv, TypeOK, ConsensusTypeOK, consensusVars, slot
<1>11. TypeOK'
  BY <1>1, <1>6, <1>8, <1>9, <1>10 DEF TInv, TypeOK, ConsensusTypeOK
<1>12. MemberIndicesConsistent'
  BY <1>6, <1>9 DEF TInv, MemberIndicesConsistent, Members, IsMember, TotalMembers
<1> QED BY <1>11, <1>12 DEF TInv

LEMMA AddMemberTInv ==
  ASSUME TInv, NEW a \in Addresses, NEW q \in Nat, AddMember(a, q)
  PROVE  TInv'
<1> DEFINE n == TotalMembers
           fresh == [lastReportRefSlot |-> 0, lastReportVariantIndex |-> 1]
<1>1. n \in Nat /\ n = Len(memberStates) /\ n = Len(memberAddresses)
  BY LenProperties DEF TInv, TypeOK, MemberIndicesConsistent, TotalMembers
<1>2. /\ memberStates' = Append(memberStates, fresh)
      /\ memberAddresses' = Append(memberAddresses, a)
      /\ memberIndices1b' = [memberIndices1b EXCEPT ![a] = n + 1]
      /\ memberIndices1b[a] = 0
  BY DEF AddMember, IsMember
<1>3. fresh \in MemberState
  BY DEF MemberState
<1> HIDE DEF n, fresh
<1>4. /\ memberStates' \in Seq(MemberState) /\ Len(memberStates') = n + 1
      /\ memberAddresses' \in Seq(Addresses) /\ Len(memberAddresses') = n + 1
      /\ memberIndices1b' \in [Addresses -> Nat]
      /\ memberAddresses'[n + 1] = a
      /\ \A i \in 1 .. n : memberAddresses'[i] = memberAddresses[i]
  <2>1. memberStates \in Seq(MemberState) /\ memberAddresses \in Seq(Addresses)
    BY DEF TInv, TypeOK
  <2>0. /\ Append(memberStates, fresh) \in Seq(MemberState)
        /\ Len(Append(memberStates, fresh)) = Len(memberStates) + 1
    BY <1>3, <2>1, AppendProperties
  <2>2. memberStates' \in Seq(MemberState) /\ Len(memberStates') = n + 1
    BY <1>1, <1>2, <2>0
  <2>3. /\ memberAddresses' \in Seq(Addresses) /\ Len(memberAddresses') = n + 1
        /\ memberAddresses'[n + 1] = a
        /\ \A i \in 1 .. n : memberAddresses'[i] = memberAddresses[i]
    BY <1>1, <1>2, <2>1, AppendProperties
  <2>4. memberIndices1b' \in [Addresses -> Nat]
    BY <1>1, <1>2 DEF TInv, TypeOK
  <2> QED BY <2>2, <2>3, <2>4
<1>5. ConsensusTypeOK' /\ quorum' \in Nat
  BY <1>1, CheckType DEF AddMember, TInv, TypeOK, n
<1>6. TypeOK'
  BY <1>4, <1>5 DEF AddMember, TInv, TypeOK, ConsensusTypeOK
<1>7. MemberIndicesConsistent'
  <2>1. \A i \in 1 .. n : memberAddresses[i] \in Addresses
                          /\ memberAddresses[i] # a
    BY <1>1, <1>2, ElementOfSeq DEF TInv, TypeOK, MemberIndicesConsistent, TotalMembers
  <2>2. \A i \in 1 .. n + 1 : memberIndices1b'[memberAddresses'[i]] = i
    BY <1>1, <1>2, <1>4, <2>1 DEF TInv, TypeOK, MemberIndicesConsistent, TotalMembers
  <2>3. \A b \in Addresses : memberIndices1b'[b] # 0 =>
          memberIndices1b'[b] \in 1 .. n + 1
          /\ memberAddresses'[memberIndices1b'[b]] = b
    BY <1>1, <1>2, <1>4
       DEF TInv, TypeOK, MemberIndicesConsistent, TotalMembers, Members, IsMember
  <2> QED BY <1>4, <2>2, <2>3
          DEF MemberIndicesConsistent, TotalMembers, Members, IsMember
<1> QED BY <1>6, <1>7 DEF TInv

(* Swap-and-pop keeps the indices right, also when the member to remove is *)
(* the last one and nothing moves.                                         *)
LEMMA RemoveMemberTInv ==
  ASSUME TInv, NEW a \in Addresses, NEW q \in Nat, RemoveMember(a, q)
  PROVE  TInv'
<1> DEFINE n == TotalMembers
           index == memberIndices1b[a]
           last == memberAddresses[n]
           state == memberStates[index]
           v == state.lastReportVariantIndex
           variants == IF MustCancelReport(state)
                         THEN [reportVariants EXCEPT ![v].support = @ - 1]
                         ELSE reportVariants
<1>1. n \in Nat /\ n = Len(memberStates) /\ n = Len(memberAddresses)
  BY LenProperties DEF TInv, TypeOK, MemberIndicesConsistent, TotalMembers
<1>2. /\ memberAddresses' = SwapRemove(memberAddresses, index)
      /\ memberStates' = SwapRemove(memberStates, index)
      /\ memberIndices1b' = [memberIndices1b EXCEPT ![last] = index, ![a] = 0]
      /\ reportVariants' = variants
      /\ IsMember(a)
  BY DEF RemoveMember
<1>3. index \in 1 .. n /\ memberAddresses[index] = a
  BY <1>1, <1>2, StateOfMember
<1>4. n - 1 \in Nat /\ n \in 1 .. n
  BY <1>1, <1>3
<1>5. last \in Addresses /\ memberIndices1b[last] = n
  BY <1>1, <1>4, ElementOfSeq DEF TInv, TypeOK, MemberIndicesConsistent
<1>6. variants \in Seq(Variant)
  <2>1. CASE MustCancelReport(state)
    <3>1. v \in DOMAIN reportVariants /\ reportVariants[v].support > 0
      BY <2>1 DEF RemoveMember
    <3>2. Withdraw(reportVariants, v) \in Seq(Variant)
      BY <3>1, VariantWithdrawn DEF TInv, TypeOK
    <3> QED BY <2>1, <3>2 DEF Withdraw
  <2>2. CASE ~MustCancelReport(state)
    BY <2>2 DEF TInv, TypeOK
  <2> QED BY <2>1, <2>2
<1>7. SetQuorumAndCheckConsensus(q, n - 1, variants)
      /\ UNCHANGED <<now, frameConfig, lastReportRefSlot, reportProcessor>>
  BY DEF RemoveMember
<1> HIDE DEF n, index, last, state, v, variants
<1>8. /\ memberStates' \in Seq(MemberState) /\ Len(memberStates') = n - 1
      /\ memberAddresses' \in Seq(Addresses) /\ Len(memberAddresses') = n - 1
      /\ \A i \in 1 .. n - 1 :
           memberAddresses'[i] = IF i = index THEN last ELSE memberAddresses[i]
  <2>1. memberStates \in Seq(MemberState) /\ memberAddresses \in Seq(Addresses)
    BY DEF TInv, TypeOK
  <2>2. memberStates' \in Seq(MemberState) /\ Len(memberStates') = n - 1
    BY <1>1, <1>2, <1>3, <2>1, SwapRemoveType
  <2>3. last = memberAddresses[Len(memberAddresses)]
    BY <1>1 DEF last
  <2>4. /\ memberAddresses' \in Seq(Addresses) /\ Len(memberAddresses') = n - 1
        /\ \A i \in 1 .. n - 1 :
             memberAddresses'[i] = IF i = index THEN last ELSE memberAddresses[i]
    <3> DEFINE popped == SwapRemove(memberAddresses, index)
    <3>0. index \in 1 .. Len(memberAddresses)
      BY <1>1, <1>3
    <3>1. /\ popped \in Seq(Addresses)
          /\ Len(popped) = Len(memberAddresses) - 1
          /\ \A i \in 1 .. Len(memberAddresses) - 1 :
               popped[i] = IF i = index THEN memberAddresses[Len(memberAddresses)]
                                        ELSE memberAddresses[i]
      BY <2>1, <3>0, SwapRemoveType
    <3> HIDE DEF popped
    <3>2. memberAddresses' = popped
      BY <1>2 DEF popped
    <3> QED BY <1>1, <2>3, <3>1, <3>2
  <2> QED BY <2>2, <2>4
<1>9. memberIndices1b' \in [Addresses -> Nat]
  BY <1>1, <1>2, <1>3, <1>5 DEF TInv, TypeOK
<1>10. ConsensusTypeOK' /\ quorum' \in Nat
  BY <1>4, <1>6, <1>7, CheckType DEF TInv
<1>11. TypeOK'
  BY <1>2, <1>6, <1>7, <1>8, <1>9, <1>10 DEF TInv, TypeOK, ConsensusTypeOK
<1>12. MemberIndicesConsistent'
  <2>1. \A i \in 1 .. n : memberAddresses[i] \in Addresses
                          /\ memberIndices1b[memberAddresses[i]] = i
    BY <1>1, ElementOfSeq DEF TInv, TypeOK, MemberIndicesConsistent, TotalMembers
  <2>0. \A b \in Addresses : memberIndices1b'[b] =
          IF b = a THEN 0 ELSE IF b = last THEN index ELSE memberIndices1b[b]
    BY <1>2, <1>5 DEF TInv, TypeOK
  <2>2. ASSUME NEW i \in 1 .. n - 1
        PROVE  memberIndices1b'[memberAddresses'[i]] = i
    <3>1. i \in 1 .. n /\ i # n
      BY <1>1
    <3>2. memberIndices1b[a] = index
      BY DEF index
    <3>3. CASE i = index
      <4>1. last # a
        BY <1>5, <3>1, <3>2, <3>3
      <4> QED BY <1>5, <1>8, <2>0, <3>3, <4>1
    <3>4. CASE i # index
      <4>1. memberAddresses'[i] = memberAddresses[i]
            /\ memberAddresses[i] # a /\ memberAddresses[i] # last
        BY <1>5, <1>8, <2>1, <3>1, <3>2, <3>4
      <4> QED BY <2>0, <2>1, <3>1, <4>1
    <3> QED BY <3>3, <3>4
  <2>3. \A b \in Addresses : memberIndices1b'[b] # 0 =>
          memberIndices1b'[b] \in 1 .. n - 1
          /\ memberAddresses'[memberIndices1b'[b]] = b
    <3> SUFFICES ASSUME NEW b \in Addresses, memberIndices1b'[b] # 0
                 PROVE  memberIndices1b'[b] \in 1 .. n - 1
                        /\ memberAddresses'[memberIndices1b'[b]] = b
      OBVIOUS
    <3>1. b # a
      BY <1>2, <1>5 DEF TInv, TypeOK
    <3>2. CASE b = last
      <4>1. index # n
        BY <1>1, <1>3, <3>1, <3>2 DEF last
      <4>2. index \in 1 .. n - 1
        BY <1>1, <1>3, <4>1
      <4> QED BY <1>8, <2>0, <3>1, <3>2, <4>2
    <3>3. CASE b # last
      <4>1. memberIndices1b'[b] = memberIndices1b[b]
        BY <1>2, <3>1, <3>3 DEF TInv, TypeOK
      <4>2. memberIndices1b[b] \in 1 .. n
            /\ memberAddresses[memberIndices1b[b]] = b
        BY <4>1, <1>1, StateOfMember DEF IsMember
      <4> DEFINE place == memberIndices1b[b]
      <4>3. place # n /\ place # index
        BY <1>3, <3>1, <3>3, <4>2 DEF last
      <4>4. place \in 1 .. n - 1
        BY <1>1, <4>2, <4>3
      <4>5. memberAddresses'[place] = b
        BY <1>8, <4>2, <4>3, <4>4
      <4> QED BY <4>1, <4>4, <4>5
    <3> QED BY <3>2, <3>3
  <2> QED BY <1>8, <2>2, <2>3
          DEF MemberIndicesConsistent, TotalMembers, Members, IsMember
<1> QED BY <1>11, <1>12 DEF TInv

LEMMA ReconfigureTInv ==
  ASSUME TInv, NEW c, c.epochsPerFrame \in Nat,
         c \in [initialEpoch : Nat, epochsPerFrame : Nat,
                fastLaneLengthSlots : Nat],
         ReconfigureFrames(c)
  PROVE  TInv'
<1>1. c \in FrameConfigType
  BY DEF ReconfigureFrames, ValidFrameConfig, FrameConfigType
<1>2. TypeOK'
  BY <1>1 DEF ReconfigureFrames, TInv, TypeOK, memberVars, consensusVars
<1>3. MemberIndicesConsistent'
  BY DEF ReconfigureFrames, TInv, MemberIndicesConsistent, Members, IsMember,
         TotalMembers, memberVars
<1> QED BY <1>2, <1>3 DEF TInv

(* setReportProcessor reads a variant by the recorded index, so its type   *)
(* depends on the order of the recorded slots: it is part of the invariant *)
(* too, with the fact that the first frame has a reference slot.           *)
OInv ==
  /\ TInv
  /\ ReportingStateOrdered
  /\ FrameComputable(frameConfig)

LEMMA SetReportProcessorType ==
  ASSUME OInv, NEW p \in Processors, SetReportProcessor(p)
  PROVE  oracle' \in [Processors -> Register(Hashes)]
<1> DEFINE hash == reportVariants[lastConsensusVariantIndex].hash
<1>1. /\ HasCurrentFrame
      /\ CurrentFrame.refSlot \in Nat
      /\ CurrentFrame.reportProcessingDeadlineSlot \in Nat
  BY CurrentFrameType DEF SetReportProcessor, OInv, TInv
<1>2. CASE UNCHANGED oracle
  BY <1>2 DEF OInv, TInv, TypeOK
<1>3. CASE ~UNCHANGED oracle
  <2>1. /\ oracle[reportProcessor].lastProcessingRefSlot < CurrentFrame.refSlot
        /\ lastConsensusRefSlot = CurrentFrame.refSlot
        /\ SubmitReportForProcessing(p, CurrentFrame, hash)
    BY <1>3 DEF SetReportProcessor
  <2>2. oracle[reportProcessor].lastProcessingRefSlot \in Nat
    BY DEF OInv, TInv, TypeOK, Register
  <2>3. RefSlot = CurrentFrame.refSlot
    BY <1>1 DEF RefSlot
  <2>4. lastConsensusRefSlot > 0 /\ lastConsensusRefSlot = lastReportRefSlot
    BY <1>1, <2>1, <2>2, <2>3 DEF OInv, TInv, TypeOK, ReportingStateOrdered
  <2>5. lastConsensusVariantIndex \in DOMAIN reportVariants
    BY <2>4 DEF OInv, ReportingStateOrdered
  <2>6. reportVariants[lastConsensusVariantIndex] \in Variant
    BY <2>5, ElementOfSeq, LenProperties DEF OInv, TInv, TypeOK
  <2>7. hash \in Hashes
    BY <2>6 DEF Variant
  <2> HIDE DEF hash
  <2> QED BY <1>1, <2>1, <2>7, SubmissionType DEF OInv, TInv
<1> QED BY <1>2, <1>3

LEMMA NextTInv ==
  OInv /\ [Next]_vars => TInv'
<1> SUFFICES ASSUME OInv, [Next]_vars PROVE TInv'
  OBVIOUS
<1>i. TInv
  BY DEF OInv
<1> USE <1>i DEF TInv
<1>0. /\ \A q \in Quorums : q \in Nat
      /\ UNREACHABLE_QUORUM \in Nat
      /\ \A fc \in FrameConfigs : fc[1] \in Nat /\ fc[2] \in Nat
      /\ \A e \in InitialEpochs : e \in Nat
  BY HashConsensusAssumption
<1>f. frameConfig \in [initialEpoch : Nat, epochsPerFrame : Nat,
                       fastLaneLengthSlots : Nat]
      /\ frameConfig \in FrameConfigType
  BY DEF TypeOK, FrameConfigType
<1>s. ASSUME NEW q \in Nat, SetQuorum(q) PROVE TInv'
  <2>1. Len(memberStates) \in Nat
    BY LenProperties DEF TypeOK
  <2>2. ConsensusTypeOK' /\ quorum' \in Nat
    BY <1>s, <2>1, CheckType DEF SetQuorum, TypeOK, TotalMembers
  <2>3. TypeOK'
    BY <1>s, <2>2 DEF SetQuorum, TypeOK, ConsensusTypeOK, memberVars
  <2>4. MemberIndicesConsistent'
    BY <1>s DEF SetQuorum, MemberIndicesConsistent, Members, IsMember,
                TotalMembers, memberVars
  <2> QED BY <2>3, <2>4
<1>1. ASSUME NEW a \in Addresses, NEW h \in Hashes, SubmitReport(a, h)
      PROVE  TInv'
  BY <1>1, SubmitReportTInv
<1>2. ASSUME NEW a \in Addresses, NEW q \in Quorums, AddMember(a, q)
      PROVE  TInv'
  BY <1>0, <1>2, AddMemberTInv
<1>3. ASSUME NEW a \in Addresses, NEW q \in Quorums, RemoveMember(a, q)
      PROVE  TInv'
  BY <1>0, <1>3, RemoveMemberTInv
<1>4. ASSUME NEW p \in Processors, SetReportProcessor(p) PROVE TInv'
  <2>1. TypeOK'
    BY <1>4, SetReportProcessorType DEF SetReportProcessor, TypeOK, memberVars
  <2>2. MemberIndicesConsistent'
    BY <1>4 DEF SetReportProcessor, MemberIndicesConsistent, Members, IsMember,
                TotalMembers, memberVars
  <2> QED BY <2>1, <2>2
<1>5. ASSUME NEW e \in InitialEpochs, UpdateInitialEpoch(e) PROVE TInv'
  <2> DEFINE c == [frameConfig EXCEPT !.initialEpoch = e]
  <2>1. c \in [initialEpoch : Nat, epochsPerFrame : Nat,
               fastLaneLengthSlots : Nat]
        /\ c.epochsPerFrame \in Nat
    BY <1>0, <1>f
  <2> QED BY <1>5, <2>1, ReconfigureTInv DEF UpdateInitialEpoch
<1>6. ASSUME NEW fc \in FrameConfigs, SetFrameConfig(fc[1], fc[2]) PROVE TInv'
  <2>1. ComputeFrameStartEpoch(now, frameConfig) \in Nat
    BY <1>6, <1>f, FrameType DEF SetFrameConfig, HasCurrentFrame, TypeOK
  <2> QED BY <1>0, <1>6, <2>1, ReconfigureTInv DEF SetFrameConfig
<1>7. ASSUME NEW fc \in FrameConfigs, SetFastLaneLengthSlots(fc[2]) PROVE TInv'
  <2> DEFINE c == [frameConfig EXCEPT !.fastLaneLengthSlots = fc[2]]
  <2>1. c \in [initialEpoch : Nat, epochsPerFrame : Nat,
               fastLaneLengthSlots : Nat]
        /\ c.epochsPerFrame \in Nat
    BY <1>0, <1>f
  <2> QED BY <1>7, <2>1, ReconfigureTInv DEF SetFastLaneLengthSlots
<1>8. CASE Tick
  <2>1. TypeOK'
    BY <1>8, ChainSpecAssumption DEF Tick, TypeOK, memberVars, consensusVars
  <2>2. MemberIndicesConsistent'
    BY <1>8 DEF Tick, MemberIndicesConsistent, Members, IsMember,
                TotalMembers, memberVars
  <2> QED BY <2>1, <2>2
<1>9. ASSUME NEW p \in Processors, ProcessReport(p) PROVE TInv'
  <2>1. StartProcessing(oracle[p]) \in Register(Hashes)
    BY DEF TypeOK, StartProcessing, Register
  <2>2. TypeOK'
    BY <1>9, <2>1 DEF ProcessReport, TypeOK, memberVars
  <2>3. MemberIndicesConsistent'
    BY <1>9 DEF ProcessReport, MemberIndicesConsistent, Members, IsMember,
                TotalMembers, memberVars
  <2> QED BY <2>2, <2>3
<1>10. CASE UNCHANGED vars
  <2>1. TypeOK'
    BY <1>10 DEF vars, TypeOK, memberVars, consensusVars
  <2>2. MemberIndicesConsistent'
    BY <1>10 DEF vars, MemberIndicesConsistent, Members, IsMember,
                 TotalMembers, memberVars
  <2> QED BY <2>1, <2>2
<1>11. CASE DisableConsensus
  BY <1>0, <1>s, <1>11 DEF DisableConsensus
<1>12. CASE \E q \in Quorums : SetQuorum(q)
  BY <1>0, <1>s, <1>12
<1> QED
  BY <1>1, <1>2, <1>3, <1>4, <1>5, <1>6, <1>7, <1>8, <1>9, <1>10, <1>11, <1>12
     DEF Next

-----------------------------------------------------------------------------
(* The recorded slots stay in order *)

ReachedOrLost(slot, variants) ==
  \/ UNCHANGED <<lastConsensusRefSlot, lastConsensusVariantIndex>>
  \/ lastConsensusRefSlot' = 0
  \/ lastConsensusRefSlot' = slot /\ lastConsensusVariantIndex' \in DOMAIN variants

LEMMA ReachedOrder ==
  ASSUME NEW frame, NEW hash, NEW variants, NEW v \in DOMAIN variants,
         ConsensusReached(frame, hash, v)
  PROVE  ReachedOrLost(frame.refSlot, variants)
BY DEF ConsensusReached, ReachedOrLost, consensusVars

LEMMA NotReachedOrder ==
  ASSUME NEW frame, NEW variants, ConsensusNotReached(frame)
  PROVE  ReachedOrLost(frame.refSlot, variants)
BY DEF ConsensusNotReached, ReachedOrLost, consensusVars

LEMMA CheckOrder ==
  ASSUME NEW q, NEW n, NEW variants, SetQuorumAndCheckConsensus(q, n, variants)
  PROVE  ReachedOrLost(lastReportRefSlot, variants)
<1>1. CASE UNCHANGED consensusVars
  BY <1>1 DEF consensusVars, ReachedOrLost
<1>2. CASE ~UNCHANGED consensusVars
  <2>1. \/ ConsensusNotReached(CurrentFrame)
        \/ \E v \in DOMAIN variants :
             /\ lastReportRefSlot = CurrentFrame.refSlot
             /\ ConsensusReached(CurrentFrame, variants[v].hash, v)
    BY <1>2 DEF SetQuorumAndCheckConsensus, CheckConsensus, Winners
  <2>2. CASE ConsensusNotReached(CurrentFrame)
    BY <2>2 DEF ConsensusNotReached, ReachedOrLost, consensusVars
  <2>3. CASE \E v \in DOMAIN variants :
               /\ lastReportRefSlot = CurrentFrame.refSlot
               /\ ConsensusReached(CurrentFrame, variants[v].hash, v)
    BY <2>3, ReachedOrder
  <2> QED BY <2>1, <2>2, <2>3
<1> QED BY <1>1, <1>2

(* A call that leaves the last reported slot, the clock and the variants'  *)
(* indices alone.                                                          *)
LEMMA OrderKept ==
  ASSUME OInv, TypeOK', NEW variants, DOMAIN variants = DOMAIN reportVariants,
         ReachedOrLost(lastReportRefSlot, variants),
         DOMAIN reportVariants' = DOMAIN variants,
         UNCHANGED <<now, frameConfig, lastReportRefSlot>>
  PROVE  ReportingStateOrdered'
<1>1. RefSlot' = RefSlot
  BY DEF RefSlot, HasCurrentFrame, CurrentFrame
<1> QED
  BY <1>1 DEF OInv, TInv, TypeOK, ReportingStateOrdered, ReachedOrLost

LEMMA CountDomain ==
  ASSUME NEW vs \in Seq(Variant), NEW v \in 1 .. Len(vs) + 1, NEW h \in Hashes
  PROVE  v \in DOMAIN Count(vs, v, h) /\ DOMAIN vs \subseteq DOMAIN Count(vs, v, h)
<1>1. Len(vs) \in Nat /\ DOMAIN vs = 1 .. Len(vs)
  BY LenProperties
<1>2. CASE v <= Len(vs)
  BY <1>1, <1>2 DEF Count
<1>3. CASE ~(v <= Len(vs))
  <2> DEFINE new == [hash |-> h, support |-> 1]
  <2>1. new \in Variant
    BY DEF Variant
  <2> HIDE DEF new
  <2>2. DOMAIN Append(vs, new) = 1 .. Len(vs) + 1
    BY <1>1, <2>1, AppendProperties, LenProperties
  <2> QED BY <1>1, <1>3, <2>2 DEF Count, new
<1> QED BY <1>2, <1>3

LEMMA SubmitReportOrder ==
  ASSUME OInv, TInv', NEW m \in Addresses, NEW h \in Hashes, SubmitReport(m, h)
  PROVE  ReportingStateOrdered'
<1> DEFINE slot == CurrentFrame.refSlot
           index == memberIndices1b[m]
           prior == PriorVariants(slot)
           reported == memberStates[index].lastReportRefSlot = slot
           prevVar == memberStates[index].lastReportVariantIndex
           withdrawn == IF reported THEN Withdraw(prior, prevVar) ELSE prior
<1>1. slot \in Nat /\ RefSlot = slot
  BY CurrentFrameType DEF SubmitReport, CanReport, OInv, TInv, RefSlot
<1>2. RefSlot' = RefSlot /\ lastReportRefSlot' = slot
  BY DEF SubmitReport, RefSlot, HasCurrentFrame, CurrentFrame
<1>3. prior \in Seq(Variant)
  BY DEF PriorVariants, OInv, TInv, TypeOK
<1>4. withdrawn \in Seq(Variant) /\ Len(withdrawn) = Len(prior)
  BY <1>3, VariantWithdrawn DEF SubmitReport
<1>5. PICK v \in 1 .. Len(prior) + 1 :
        /\ reportVariants' = Count(withdrawn, v, h)
        /\ \/ ConsensusReached(CurrentFrame, h, v)
           \/ ConsensusNotReached(CurrentFrame)
           \/ UNCHANGED consensusVars
  BY DEF SubmitReport
<1>6. lastReportRefSlot = slot => prior = reportVariants
  BY DEF PriorVariants
<1>7. lastReportRefSlot <= slot
  BY <1>1 DEF OInv, ReportingStateOrdered
<1> HIDE DEF slot, index, prior, withdrawn, reported, prevVar
<1>8. v \in DOMAIN reportVariants' /\ DOMAIN prior \subseteq DOMAIN reportVariants'
  BY <1>3, <1>4, <1>5, CountDomain, LenProperties
<1>9. ReachedOrLost(slot, reportVariants')
  BY <1>5, <1>8, ReachedOrder, NotReachedOrder
     DEF ReachedOrLost, consensusVars, slot
<1> QED
  BY <1>1, <1>2, <1>6, <1>7, <1>8, <1>9
     DEF OInv, TInv, TypeOK, ReportingStateOrdered, ReachedOrLost

LEMMA RemovalKeepsDomain ==
  ASSUME OInv, NEW a \in Addresses, NEW q, RemoveMember(a, q)
  PROVE  DOMAIN reportVariants' = DOMAIN reportVariants
BY DEF RemoveMember

(* What each kind of step does to the current reference slot.              *)
RefSlotStep ==
  /\ FrameComputable(frameConfig')
  /\ RefSlot' >= RefSlot
  /\ HasCurrentFrame /\ now' = now /\ RefSlot' # RefSlot =>
       RefSlot' - RefSlot >= frameConfig'.epochsPerFrame * SLOTS_PER_EPOCH

LEMMA NextRefSlot ==
  ASSUME OInv, TInv', [Next]_vars
  PROVE  RefSlotStep
<1>0. /\ FrameComputable(frameConfig) /\ TypeOK /\ TypeOK'
      /\ RefSlot \in Nat
  BY RefSlotType DEF OInv, TInv
<1>1. CASE UNCHANGED <<now, frameConfig>>
  <2>1. RefSlot' = RefSlot /\ FrameComputable(frameConfig')
    BY <1>0, <1>1 DEF RefSlot, HasCurrentFrame, CurrentFrame
  <2> QED BY <1>0, <2>1 DEF RefSlotStep
<1>2. CASE Tick
  <2>1. now' # now /\ frameConfig' = frameConfig
    BY <1>0, <1>2 DEF Tick, TypeOK
  <2> QED BY <1>0, <1>2, <2>1, RefSlotAfterTick DEF RefSlotStep
<1>3. ASSUME NEW e \in InitialEpochs, UpdateInitialEpoch(e) PROVE RefSlotStep
  <2>1. ~HasCurrentFrame /\ RefSlot = 0 /\ FrameComputable(frameConfig')
    BY <1>3 DEF UpdateInitialEpoch, RefSlot, ReconfigureFrames
  <2>2. RefSlot' \in Nat
    BY <1>0, <2>1, FrameType DEF TypeOK, HasCurrentFrame, CurrentFrame, RefSlot
  <2> QED BY <2>1, <2>2 DEF RefSlotStep
<1>4. ASSUME NEW fc \in FrameConfigs, SetFrameConfig(fc[1], fc[2])
      PROVE  RefSlotStep
  <2>1. fc[1] \in Nat /\ fc[2] \in Nat
    BY HashConsensusAssumption
  <2>2. frameConfig'.epochsPerFrame * SLOTS_PER_EPOCH \in Nat
    BY <1>0, ProductType, ChainSpecAssumption DEF TypeOK, FrameConfigType
  <2>3. FrameComputable(frameConfig')
    BY <1>0, <1>4, <2>1, RefSlotAfterSetFrameConfig
  <2>4. RefSlot' \in Nat
    BY <1>0, <2>3, FrameType DEF TypeOK, HasCurrentFrame, CurrentFrame, RefSlot
  <2>5. \/ RefSlot' = RefSlot
        \/ RefSlot' - RefSlot >= frameConfig'.epochsPerFrame * SLOTS_PER_EPOCH
    BY <1>0, <1>4, <2>1, RefSlotAfterSetFrameConfig
  <2> QED BY <1>0, <2>2, <2>3, <2>4, <2>5 DEF RefSlotStep
<1>5. ASSUME NEW fc \in FrameConfigs, SetFastLaneLengthSlots(fc[2])
      PROVE  RefSlotStep
  <2>1. fc[2] \in Nat
    BY HashConsensusAssumption
  <2>2. RefSlot' = RefSlot /\ FrameComputable(frameConfig')
    BY <1>0, <1>5, <2>1, RefSlotAfterSetFastLane
  <2> QED BY <1>0, <2>2 DEF RefSlotStep
<1>6. CASE UNCHANGED vars
  BY <1>1, <1>6 DEF vars
<1> QED
  BY <1>1, <1>2, <1>3, <1>4, <1>5, <1>6
     DEF Next, SubmitReport, AddMember, RemoveMember, SetQuorum,
         DisableConsensus, SetReportProcessor, ProcessReport

LEMMA NextOInv ==
  OInv /\ [Next]_vars => OInv'
<1> SUFFICES ASSUME OInv, [Next]_vars PROVE OInv'
  OBVIOUS
<1>1. TInv'
  BY NextTInv
<1>2. RefSlotStep
  BY <1>1, NextRefSlot
<1>3. FrameComputable(frameConfig)'
  BY <1>2 DEF RefSlotStep, FrameComputable, ComputeStartSlotAtEpoch
<1>4. TypeOK' /\ RefSlot \in Nat /\ RefSlot' \in Nat
  <2>1. RefSlot' \in Nat
    BY <1>1, <1>3, FrameType
       DEF TInv, TypeOK, RefSlot, HasCurrentFrame, CurrentFrame, FrameComputable
  <2> QED BY <1>1, <2>1, RefSlotType DEF OInv, TInv
<1>5. ASSUME UNCHANGED <<lastReportRefSlot, lastConsensusRefSlot,
                         lastConsensusVariantIndex, reportVariants>>
      PROVE  ReportingStateOrdered'
  BY <1>2, <1>4, <1>5
     DEF RefSlotStep, OInv, TInv, TypeOK, ReportingStateOrdered
<1>6. ASSUME NEW m \in Addresses, NEW h \in Hashes, SubmitReport(m, h)
      PROVE  ReportingStateOrdered'
  BY <1>1, <1>6, SubmitReportOrder
<1>7. ASSUME NEW a \in Addresses, NEW q \in Quorums, AddMember(a, q)
      PROVE  ReportingStateOrdered'
  <2>1. ReachedOrLost(lastReportRefSlot, reportVariants)
    BY <1>7, CheckOrder DEF AddMember
  <2> QED BY <1>4, <1>7, <2>1, OrderKept DEF AddMember
<1>8. ASSUME NEW a \in Addresses, NEW q \in Quorums, RemoveMember(a, q)
      PROVE  ReportingStateOrdered'
  <2>1. ReachedOrLost(lastReportRefSlot, reportVariants')
    BY <1>8, CheckOrder DEF RemoveMember
  <2>2. DOMAIN reportVariants' = DOMAIN reportVariants
    BY <1>8, RemovalKeepsDomain
  <2> QED BY <1>4, <1>8, <2>1, <2>2, OrderKept DEF RemoveMember
<1>9. ASSUME NEW q, SetQuorum(q) PROVE ReportingStateOrdered'
  <2>1. ReachedOrLost(lastReportRefSlot, reportVariants)
    BY <1>9, CheckOrder DEF SetQuorum
  <2> QED BY <1>4, <1>9, <2>1, OrderKept DEF SetQuorum
<1>10. ReportingStateOrdered'
  BY <1>5, <1>6, <1>7, <1>8, <1>9
     DEF Next, vars, consensusVars, DisableConsensus, SetReportProcessor,
         UpdateInitialEpoch, SetFrameConfig, SetFastLaneLengthSlots,
         ReconfigureFrames, Tick, ProcessReport
<1> QED BY <1>1, <1>3, <1>10 DEF OInv

LEMMA InitOInv ==
  Init => OInv
<1> SUFFICES ASSUME Init PROVE OInv
  OBVIOUS
<1>1. TInv
  BY InitTInv
<1>2. FrameComputable(frameConfig)
  <2>1. frameConfig.initialEpoch = FarFutureEpoch
    BY DEF Init
  <2> QED BY <2>1, HashConsensusAssumption, ChainSpecAssumption
          DEF FrameComputable, ComputeStartSlotAtEpoch
<1>3. RefSlot \in Nat
  BY <1>1, <1>2, RefSlotType DEF TInv
<1>4. ReportingStateOrdered
  BY <1>3 DEF Init, ReportingStateOrdered
<1> QED BY <1>1, <1>2, <1>4 DEF OInv

(* The types, the member arrays and the order of the recorded slots.        *)
THEOREM Invariance == Spec => []OInv
BY InitOInv, NextOInv, PTL DEF Spec

(* Type correctness.                                                       *)
THEOREM TypeCorrect == Spec => []TypeOK
<1>1. OInv => TypeOK
  BY DEF OInv, TInv
<1> QED BY <1>1, Invariance, PTL

(* The three member structures stay in step through every swap-and-pop.    *)
THEOREM MembersConsistent == Spec => []MemberIndicesConsistent
<1>1. OInv => MemberIndicesConsistent
  BY DEF OInv, TInv
<1> QED BY <1>1, Invariance, PTL

(* The recorded slots are ordered and the recorded consensus names an      *)
(* existing variant, whatever the frame configuration does to the frames.  *)
THEOREM ReportingOrdered == Spec => []ReportingStateOrdered
<1>1. OInv => ReportingStateOrdered
  BY DEF OInv
<1> QED BY <1>1, Invariance, PTL

(* The reference slot never goes back, and setFrameConfig keeps it or      *)
(* moves it by a full frame.                                               *)
THEOREM RefSlotMonotone == Spec => RefSlotAdvances
<1>1. OInv /\ OInv' /\ [Next]_vars =>
        [ /\ RefSlot' >= RefSlot
          /\ HasCurrentFrame /\ now' = now /\ RefSlot' # RefSlot =>
               \/ RefSlot' - RefSlot >= frameConfig.epochsPerFrame * SLOTS_PER_EPOCH
               \/ RefSlot' - RefSlot >= frameConfig'.epochsPerFrame * SLOTS_PER_EPOCH
        ]_vars
  BY NextRefSlot DEF OInv, RefSlotStep
<1> QED BY <1>1, Invariance, PTL DEF Spec, RefSlotAdvances

-----------------------------------------------------------------------------
(* Finality of a report whose processing has started *)

Final(p) ==
  IsProcessing(oracle[p]) =>
    \/ oracle'[p] = oracle[p]
    \/ /\ oracle'[p].refSlot > oracle[p].refSlot
       /\ oracle'[p].lastProcessingRefSlot = oracle[p].lastProcessingRefSlot

LEMMA SubmissionFinal ==
  ASSUME TypeOK, NEW r \in Processors, NEW frame, NEW hash,
         SubmitReportForProcessing(r, frame, hash), NEW p \in Processors
  PROVE  Final(p)
<1> DEFINE deadline == ComputeTimestampAtSlot(frame.reportProcessingDeadlineSlot)
<1>1. /\ oracle' = [oracle EXCEPT ![r] =
                      SubmitConsensusReport(@, hash, frame.refSlot, deadline)]
      /\ frame.refSlot > oracle[r].lastProcessingRefSlot
  BY DEF SubmitReportForProcessing, CanSubmitConsensusReport
<1> HIDE DEF deadline
<1>2. CASE p # r
  BY <1>1, <1>2 DEF TypeOK, Final
<1>3. CASE p = r
  <2>1. oracle'[p] = SubmitConsensusReport(oracle[p], hash, frame.refSlot, deadline)
    BY <1>1, <1>3 DEF TypeOK
  <2>2. oracle[p] \in Register(Hashes)
    BY DEF TypeOK
  <2>3. /\ oracle'[p].refSlot = frame.refSlot
        /\ oracle'[p].lastProcessingRefSlot = oracle[p].lastProcessingRefSlot
    BY <2>1, <2>2 DEF SubmitConsensusReport, Register
  <2> QED BY <1>1, <1>3, <2>2, <2>3 DEF Final, IsProcessing
<1> QED BY <1>2, <1>3

LEMMA NotReachedFinal ==
  ASSUME TypeOK, NEW frame, ConsensusNotReached(frame), NEW p \in Processors
  PROVE  Final(p)
<1>1. CASE UNCHANGED oracle
  BY <1>1 DEF Final
<1>2. CASE ~UNCHANGED oracle
  <2> DEFINE r == reportProcessor
  <2>1. /\ oracle' = [oracle EXCEPT ![r] =
                        DiscardConsensusReport(@, frame.refSlot)]
        /\ \/ frame.refSlot > oracle[r].refSlot
           \/ /\ frame.refSlot = oracle[r].refSlot
              /\ frame.refSlot > oracle[r].lastProcessingRefSlot
    BY <1>2 DEF ConsensusNotReached, CancelReportProcessing,
                CanDiscardConsensusReport, consensusVars
  <2>2. r \in Processors /\ oracle[r] \in Register(Hashes)
    BY DEF TypeOK
  <2>3. CASE p # r
    BY <2>1, <2>3 DEF TypeOK, Final
  <2>4. CASE p = r /\ frame.refSlot > oracle[r].refSlot
    BY <2>1, <2>2, <2>4 DEF TypeOK, Final, DiscardConsensusReport
  <2>5. CASE p = r /\ frame.refSlot = oracle[r].refSlot
    <3>1. oracle[r].refSlot # oracle[r].lastProcessingRefSlot
      BY <2>1, <2>2, <2>5 DEF Register
    <3> QED BY <2>5, <3>1 DEF Final, IsProcessing
  <2> QED BY <2>1, <2>3, <2>4, <2>5
<1> QED BY <1>1, <1>2

LEMMA ReachedFinal ==
  ASSUME TypeOK, NEW frame, NEW hash, NEW v, ConsensusReached(frame, hash, v),
         NEW p \in Processors
  PROVE  Final(p)
<1>1. CASE UNCHANGED oracle
  BY <1>1 DEF Final
<1>2. CASE ~UNCHANGED oracle
  <2>1. SubmitReportForProcessing(reportProcessor, frame, hash)
    BY <1>2 DEF ConsensusReached, consensusVars
  <2> QED BY <2>1, SubmissionFinal DEF TypeOK
<1> QED BY <1>1, <1>2

LEMMA CheckFinal ==
  ASSUME TypeOK, NEW q, NEW n, NEW variants,
         SetQuorumAndCheckConsensus(q, n, variants), NEW p \in Processors
  PROVE  Final(p)
<1>1. \/ UNCHANGED oracle
      \/ ConsensusNotReached(CurrentFrame)
      \/ \E v \in DOMAIN variants :
           ConsensusReached(CurrentFrame, variants[v].hash, v)
  BY DEF SetQuorumAndCheckConsensus, CheckConsensus, consensusVars, Winners
<1>2. CASE UNCHANGED oracle
  BY <1>2 DEF Final
<1> QED BY <1>1, <1>2, NotReachedFinal, ReachedFinal

LEMMA NextFinal ==
  ASSUME TypeOK, [Next]_vars, NEW p \in Processors
  PROVE  Final(p)
<1>1. CASE UNCHANGED oracle
  BY <1>1 DEF Final
<1>2. ASSUME NEW m \in Addresses, NEW h \in Hashes, SubmitReport(m, h)
      PROVE  Final(p)
  <2>1. \/ UNCHANGED oracle
        \/ ConsensusNotReached(CurrentFrame)
        \/ \E v : ConsensusReached(CurrentFrame, h, v)
    BY <1>2 DEF SubmitReport, consensusVars
  <2> QED BY <1>1, <2>1, NotReachedFinal, ReachedFinal
<1>3. ASSUME NEW r \in Processors, SetReportProcessor(r) PROVE Final(p)
  <2>1. \/ UNCHANGED oracle
        \/ SubmitReportForProcessing(r, CurrentFrame,
             reportVariants[lastConsensusVariantIndex].hash)
    BY <1>3 DEF SetReportProcessor
  <2> QED BY <1>1, <2>1, SubmissionFinal
<1>4. ASSUME NEW r \in Processors, ProcessReport(r) PROVE Final(p)
  <2>1. /\ oracle' = [oracle EXCEPT ![r] = StartProcessing(@)]
        /\ oracle[r].lastProcessingRefSlot # oracle[r].refSlot
    BY <1>4 DEF ProcessReport, CanStartProcessing
  <2>2. CASE p # r
    BY <2>1, <2>2 DEF TypeOK, Final
  <2>3. CASE p = r
    BY <2>1, <2>3 DEF Final, IsProcessing
  <2> QED BY <2>2, <2>3
<1>5. ASSUME NEW a \in Addresses, NEW q \in Quorums,
             AddMember(a, q) \/ RemoveMember(a, q)
      PROVE  Final(p)
  BY <1>5, CheckFinal DEF AddMember, RemoveMember
<1>6. ASSUME NEW q, SetQuorum(q) PROVE Final(p)
  BY <1>6, CheckFinal DEF SetQuorum
<1> QED
  BY <1>1, <1>2, <1>3, <1>4, <1>5, <1>6
     DEF Next, vars, consensusVars, DisableConsensus, UpdateInitialEpoch,
         SetFrameConfig, SetFastLaneLengthSlots, ReconfigureFrames, Tick

(* Once processing of a report has started, nothing the committee, the     *)
(* administrators or the clock do changes or discards it; only a report of *)
(* a later reference slot replaces it.                                     *)
THEOREM ProcessedFinal == Spec => ProcessedReportIsFinal
<1>1. TypeOK /\ [Next]_vars => [\A p \in Processors :
        IsProcessing(oracle[p]) =>
          \/ oracle'[p] = oracle[p]
          \/ /\ oracle'[p].refSlot > oracle[p].refSlot
             /\ oracle'[p].lastProcessingRefSlot = oracle[p].lastProcessingRefSlot
      ]_vars
  BY NextFinal DEF Final
<1> QED BY <1>1, TypeCorrect, PTL DEF Spec, ProcessedReportIsFinal

-----------------------------------------------------------------------------
(* The counters of support never fall below the number of current members  *)
(* who vote for the variant.                                               *)

(* The invariant of the counters needs the order of the recorded slots,    *)
(* and that there are no variants before the first report.                 *)
VInv ==
  /\ OInv
  /\ SupportCoversVotes
  /\ lastReportRefSlot = 0 => reportVariants = <<>>

LEMMA VotersFinite ==
  ASSUME NEW v
  PROVE  IsFiniteSet(Voters(v)) /\ Cardinality(Voters(v)) \in Nat
<1>1. Voters(v) \subseteq Addresses
  BY DEF Voters, Members
<1> QED BY <1>1, HashConsensusAssumption, FS_Subset, FS_CardinalityType

LEMMA VariantType ==
  ASSUME NEW vs \in Seq(Variant), NEW w \in DOMAIN vs
  PROVE  w \in Nat /\ vs[w].support \in Nat /\ vs[w].hash \in Hashes
<1>1. w \in 1 .. Len(vs) /\ w \in Nat
  BY LenProperties
<1>2. vs[w] \in Variant
  BY <1>1, ElementOfSeq
<1> QED BY <1>1, <1>2 DEF Variant

(* Members have different places in the arrays.                            *)
LEMMA IndicesDiffer ==
  ASSUME TInv, NEW a \in Addresses, NEW b \in Addresses,
         IsMember(a), IsMember(b), a # b
  PROVE  memberIndices1b[a] # memberIndices1b[b]
BY StateOfMember

(* The votes and the variants a report of m is counted into: none if it is *)
(* the first report of its slot.                                           *)
Prior == PriorVariants(CurrentFrame.refSlot)
PriorVoters(v) == IF lastReportRefSlot = CurrentFrame.refSlot THEN Voters(v) ELSE {}
Reported(m) == StateOf(m).lastReportRefSlot = CurrentFrame.refSlot
PrevVariant(m) == StateOf(m).lastReportVariantIndex

(* How a report of m for variant v moves one vote.                         *)
VoteMoves(m, v) ==
  /\ Members' = Members
  /\ StateOf(m)' = [lastReportRefSlot |-> CurrentFrame.refSlot,
                    lastReportVariantIndex |-> v]
  /\ \A a \in Members : a # m => StateOf(a)' = StateOf(a)
  /\ \A a \in Members : StateOf(a).lastReportRefSlot = CurrentFrame.refSlot
                          => lastReportRefSlot = CurrentFrame.refSlot
  /\ \A w : Voters(w)' = IF w = v THEN PriorVoters(w) \cup {m}
                                  ELSE PriorVoters(w) \ {m}
  /\ \A w : m \in PriorVoters(w) <=> Reported(m) /\ w = PrevVariant(m)
  /\ \A w : w \notin DOMAIN Prior => PriorVoters(w) = {}

(* How it moves one unit of support.                                       *)
SupportMoves(m, h, v) ==
  /\ DOMAIN reportVariants' = DOMAIN Prior \cup {v}
  /\ \A w \in DOMAIN Prior :
       /\ reportVariants'[w].hash = Prior[w].hash
       /\ reportVariants'[w].support = Prior[w].support
            + (IF w = v THEN 1 ELSE 0)
            - (IF Reported(m) /\ w = PrevVariant(m) THEN 1 ELSE 0)
  /\ v \notin DOMAIN Prior => reportVariants'[v].support = 1
  /\ reportVariants'[v].hash = h

(* How the contract reacts to the new support of v.                        *)
ConsensusFollows(m, h, v) ==
  IF reportVariants'[v].support >= quorum
    THEN ConsensusReached(CurrentFrame, h, v)
    ELSE IF Reported(m) /\ Prior[PrevVariant(m)].support = quorum
           THEN ConsensusNotReached(CurrentFrame)
           ELSE UNCHANGED consensusVars

ReportCounted(m, h, v) ==
  /\ StopsAt(v, Prior, h)
  /\ Reported(m) => v # PrevVariant(m) /\ PrevVariant(m) \in DOMAIN Prior
  /\ VoteMoves(m, v)
  /\ SupportMoves(m, h, v)
  /\ ConsensusFollows(m, h, v)

(* The facts about the caller and the slot that every report needs.        *)
ReportContext(m) ==
  /\ CurrentFrame.refSlot \in Nat /\ CurrentFrame.refSlot > 0
  /\ RefSlot = CurrentFrame.refSlot /\ IsOpen
  /\ m \in Members
  /\ lastReportRefSlot \in Nat /\ lastReportRefSlot <= CurrentFrame.refSlot
  /\ Prior \in Seq(Variant)
  /\ lastReportRefSlot' = CurrentFrame.refSlot
  /\ UNCHANGED <<now, frameConfig, memberAddresses, memberIndices1b, quorum,
                 reportProcessor, RefSlot>>

LEMMA SubmitReportContext ==
  ASSUME VInv, NEW m \in Addresses, NEW h \in Hashes, SubmitReport(m, h)
  PROVE  ReportContext(m)
<1>0. OInv /\ TInv /\ TypeOK
  BY DEF VInv, OInv, TInv
<1>1. CanReport(m) /\ HasCurrentFrame /\ CurrentFrame.refSlot # 0
  BY DEF SubmitReport, CanReport
<1>2. CurrentFrame.refSlot \in Nat /\ RefSlot = CurrentFrame.refSlot
  BY <1>0, <1>1, CurrentFrameType DEF OInv, RefSlot
<1>3. IsOpen /\ m \in Members
  BY <1>1, <1>2 DEF IsOpen, CanReport, Members
<1>4. lastReportRefSlot \in Nat /\ lastReportRefSlot <= CurrentFrame.refSlot
  BY <1>0, <1>2 DEF OInv, TypeOK, ReportingStateOrdered
<1>5. Prior \in Seq(Variant)
  BY <1>0 DEF Prior, PriorVariants, TypeOK
<1>6. /\ lastReportRefSlot' = CurrentFrame.refSlot
      /\ UNCHANGED <<now, frameConfig, memberAddresses, memberIndices1b,
                     quorum, reportProcessor>>
  BY DEF SubmitReport
<1>7. UNCHANGED RefSlot
  BY <1>6 DEF RefSlot, HasCurrentFrame, CurrentFrame
<1> HIDE DEF CurrentFrame
<1> QED BY <1>1, <1>2, <1>3, <1>4, <1>5, <1>6, <1>7 DEF ReportContext

LEMMA SubmitReportCounted ==
  ASSUME VInv, NEW m \in Addresses, NEW h \in Hashes, SubmitReport(m, h)
  PROVE  \E v \in Nat : ReportCounted(m, h, v)
<1> DEFINE slot == CurrentFrame.refSlot
           index == memberIndices1b[m]
           prevVar == PrevVariant(m)
           withdrawn == IF Reported(m) THEN Withdraw(Prior, prevVar) ELSE Prior
<1>0. OInv /\ TInv /\ TypeOK /\ ReportContext(m)
  BY SubmitReportContext DEF VInv, OInv, TInv
<1>1. /\ slot \in Nat /\ slot > 0 /\ m \in Members /\ Prior \in Seq(Variant)
      /\ lastReportRefSlot \in Nat /\ lastReportRefSlot <= slot
      /\ lastReportRefSlot' = slot
      /\ UNCHANGED <<memberAddresses, memberIndices1b>>
  BY <1>0 DEF ReportContext
<1>2. IsMember(m) /\ index \in 1 .. Len(memberStates)
      /\ memberStates[index] = StateOf(m) /\ StateOf(m) \in MemberState
  BY <1>0, <1>1, StateOfMember DEF StateOf, Members
<1>3. Reported(m) => prevVar \in DOMAIN Prior /\ Prior[prevVar].support > 0
  BY <1>2 DEF SubmitReport, Reported, PrevVariant, Prior
<1>4. withdrawn \in Seq(Variant) /\ Len(withdrawn) = Len(Prior)
  BY <1>1, <1>3, VariantWithdrawn
<1>5. PICK v \in 1 .. Len(Prior) + 1 :
        /\ StopsAt(v, Prior, h)
        /\ Reported(m) => v # prevVar
        /\ reportVariants' = Count(withdrawn, v, h)
        /\ memberStates' = [memberStates EXCEPT ![index] =
              [lastReportRefSlot |-> slot, lastReportVariantIndex |-> v]]
        /\ IF Count(withdrawn, v, h)[v].support >= quorum
             THEN ConsensusReached(CurrentFrame, h, v)
             ELSE IF Reported(m) /\ withdrawn[prevVar].support = quorum - 1
                    THEN ConsensusNotReached(CurrentFrame)
                    ELSE UNCHANGED consensusVars
  BY <1>2 DEF SubmitReport, Reported, PrevVariant, Prior
<1> HIDE DEF slot, index, prevVar, withdrawn
<1>6. Members' = Members
  BY <1>1 DEF Members, IsMember
<1>7. /\ StateOf(m)' = [lastReportRefSlot |-> slot, lastReportVariantIndex |-> v]
      /\ \A a \in Members : a # m => StateOf(a)' = StateOf(a)
  <2>1. ASSUME NEW a \in Members, a # m
        PROVE  StateOf(a)' = StateOf(a)
    <3>1. a \in Addresses /\ IsMember(a)
      BY DEF Members
    <3>2. memberIndices1b[a] # index /\ memberIndices1b[a] \in 1 .. Len(memberStates)
      BY <1>0, <1>2, <2>1, <3>1, IndicesDiffer, StateOfMember DEF index
    <3> QED BY <1>0, <1>1, <1>5, <3>2, LenProperties DEF StateOf, TypeOK
  <2>2. memberIndices1b'[m] = index
    BY <1>1 DEF index
  <2>3. index \in DOMAIN memberStates
    BY <1>0, <1>2, LenProperties DEF TypeOK
  <2>4. memberStates'[index] =
          [lastReportRefSlot |-> slot, lastReportVariantIndex |-> v]
    BY <1>5, <2>3
  <2> QED BY <2>1, <2>2, <2>4 DEF StateOf
<1>8. \A a \in Members : StateOf(a).lastReportRefSlot = slot
                         => lastReportRefSlot = slot
  <2>1. \A a \in Members : StateOf(a) \in MemberState
    BY <1>0, StateOfMember DEF Members, StateOf
  <2>2. \A a \in Members : StateOf(a).lastReportRefSlot \in Nat
                           /\ StateOf(a).lastReportRefSlot <= lastReportRefSlot
    BY <2>1 DEF VInv, SupportCoversVotes, MemberState
  <2> QED BY <1>1, <2>2
<1>9. ASSUME NEW w
      PROVE  Voters(w)' = IF w = v THEN PriorVoters(w) \cup {m}
                                   ELSE PriorVoters(w) \ {m}
  BY <1>1, <1>6, <1>7, <1>8 DEF Voters, PriorVoters, slot
<1>10. Prior = IF lastReportRefSlot = slot THEN reportVariants ELSE <<>>
  BY DEF Prior, PriorVariants, slot
<1>11. /\ Len(Prior) \in Nat /\ DOMAIN Prior = 1 .. Len(Prior)
       /\ DOMAIN withdrawn = 1 .. Len(Prior)
       /\ v \in Nat
       /\ \A w \in 1 .. Len(Prior) : Prior[w] \in Variant /\ withdrawn[w] \in Variant
  BY <1>1, <1>4, <1>5, LenProperties, ElementOfSeq
<1>12. \A w : m \in PriorVoters(w) <=> Reported(m) /\ w = prevVar
  BY <1>1, <1>8 DEF Voters, PriorVoters, Reported, PrevVariant, slot, prevVar
<1>13. \A w : w \notin DOMAIN Prior => PriorVoters(w) = {}
  BY <1>1, <1>10, <1>11 DEF VInv, SupportCoversVotes, Voters, PriorVoters, slot
<1>14. VoteMoves(m, v)
  BY <1>6, <1>7, <1>8, <1>9, <1>12, <1>13 DEF VoteMoves, slot, prevVar
<1>15. \A w \in DOMAIN Prior :
         /\ withdrawn[w].hash = Prior[w].hash
         /\ withdrawn[w].support = Prior[w].support
              - (IF Reported(m) /\ w = prevVar THEN 1 ELSE 0)
  <2> SUFFICES ASSUME NEW w \in DOMAIN Prior
               PROVE  /\ withdrawn[w].hash = Prior[w].hash
                      /\ withdrawn[w].support = Prior[w].support
                           - (IF Reported(m) /\ w = prevVar THEN 1 ELSE 0)
    OBVIOUS
  <2>0. Prior[w] \in Variant
    BY <1>11
  <2>1. CASE Reported(m) /\ w = prevVar
    <3>1. withdrawn = [Prior EXCEPT ![w].support = @ - 1]
      BY <2>1 DEF withdrawn, Withdraw
    <3> QED BY <2>0, <2>1, <3>1 DEF Variant
  <2>2. CASE ~(Reported(m) /\ w = prevVar)
    <3>1. withdrawn[w] = Prior[w]
      BY <2>2 DEF withdrawn, Withdraw
    <3> QED BY <2>0, <2>2, <3>1 DEF Variant
  <2> QED BY <2>1, <2>2
<1>16. SupportMoves(m, h, v)
  <2>1. CASE v <= Len(Prior)
    <3>1. reportVariants' = [withdrawn EXCEPT ![v].support = @ + 1]
      BY <1>4, <1>5, <2>1 DEF Count
    <3>2. v \in 1 .. Len(Prior)
      BY <1>11, <2>1
    <3>3. /\ DOMAIN reportVariants' = DOMAIN Prior \cup {v}
          /\ reportVariants'[v].support = withdrawn[v].support + 1
          /\ reportVariants'[v].hash = withdrawn[v].hash
          /\ \A w \in DOMAIN Prior : w # v => reportVariants'[w] = withdrawn[w]
      BY <1>11, <3>1, <3>2 DEF Variant
    <3>4. Prior[v].hash = h
      BY <1>5, <2>1 DEF StopsAt
    <3>5. ~(Reported(m) /\ v = prevVar)
      BY <1>5
    <3>6. \A w \in DOMAIN Prior : Prior[w].support \in Nat
      BY <1>11 DEF Variant
    <3>7. v \in DOMAIN Prior
      BY <1>11, <3>2
    <3>8. ASSUME NEW w \in DOMAIN Prior
          PROVE  /\ reportVariants'[w].hash = Prior[w].hash
                 /\ reportVariants'[w].support = Prior[w].support
                      + (IF w = v THEN 1 ELSE 0)
                      - (IF Reported(m) /\ w = prevVar THEN 1 ELSE 0)
      <4>1. CASE w = v
        BY <1>15, <3>3, <3>5, <3>6, <4>1
      <4>2. CASE w # v
        BY <1>15, <3>3, <3>6, <4>2
      <4> QED BY <4>1, <4>2
    <3>9. reportVariants'[v].hash = h
      BY <3>4, <3>7, <3>8
    <3> QED BY <3>3, <3>7, <3>8, <3>9 DEF SupportMoves, prevVar
  <2>2. CASE ~(v <= Len(Prior))
    <3> DEFINE new == [hash |-> h, support |-> 1]
    <3>0. new \in Variant /\ new.support = 1 /\ new.hash = h
      BY DEF Variant
    <3>1. reportVariants' = Append(withdrawn, new)
      BY <1>4, <1>5, <2>2 DEF Count
    <3>2. v = Len(Prior) + 1 /\ v \notin DOMAIN Prior
      BY <1>5, <1>11, <2>2
    <3> HIDE DEF new
    <3>3. DOMAIN reportVariants' = 1 .. Len(Prior) + 1
          /\ reportVariants'[v] = new
          /\ \A w \in 1 .. Len(Prior) : reportVariants'[w] = withdrawn[w]
      BY <1>4, <3>0, <3>1, <3>2, AppendProperties, LenProperties
    <3>4. DOMAIN reportVariants' = DOMAIN Prior \cup {v}
      BY <1>11, <3>2, <3>3
    <3>5. \A w \in DOMAIN Prior : Prior[w].support \in Nat
      BY <1>11 DEF Variant
    <3>6. ASSUME NEW w \in DOMAIN Prior
          PROVE  /\ reportVariants'[w].hash = Prior[w].hash
                 /\ reportVariants'[w].support = Prior[w].support
                      + (IF w = v THEN 1 ELSE 0)
                      - (IF Reported(m) /\ w = prevVar THEN 1 ELSE 0)
      <4>1. w # v /\ reportVariants'[w] = withdrawn[w]
        BY <1>11, <3>2, <3>3
      <4> QED BY <1>15, <3>5, <4>1
    <3> QED BY <3>0, <3>3, <3>4, <3>6 DEF SupportMoves, prevVar
  <2> QED BY <2>1, <2>2
<1>17. ConsensusFollows(m, h, v)
  <2>1. Reported(m) => (withdrawn[prevVar].support = quorum - 1
                        <=> Prior[prevVar].support = quorum)
    <3>1. Reported(m) => Prior[prevVar].support \in Nat
                         /\ withdrawn[prevVar].support = Prior[prevVar].support - 1
      BY <1>3, <1>11, <1>15 DEF Variant
    <3>2. quorum \in Nat
      BY <1>0 DEF TypeOK
    <3> QED BY <3>1, <3>2
  <2> QED BY <1>5, <2>1 DEF ConsensusFollows, prevVar
<1>18. ReportCounted(m, h, v)
  BY <1>3, <1>5, <1>14, <1>16, <1>17 DEF ReportCounted, prevVar
<1> QED BY <1>11, <1>18

(* A report moves support and votes alike: no variant's surplus of support *)
(* over votes changes.                                                     *)
LEMMA SurplusKept ==
  ASSUME VInv, NEW m \in Addresses, NEW h \in Hashes, NEW v \in Nat,
         ReportContext(m), ReportCounted(m, h, v), NEW w \in DOMAIN reportVariants'
  PROVE  IF w \in DOMAIN Prior
           THEN reportVariants'[w].support - Cardinality(Voters(w)')
                  = Prior[w].support - Cardinality(PriorVoters(w))
           ELSE reportVariants'[w].support = Cardinality(Voters(w)')
<1>1. IsFiniteSet(PriorVoters(w)) /\ Cardinality(PriorVoters(w)) \in Nat
  BY VotersFinite, FS_EmptySet DEF PriorVoters
<1>2. m \in PriorVoters(w) <=> Reported(m) /\ w = PrevVariant(m)
  BY DEF ReportCounted, VoteMoves
<1>3. Voters(w)' = IF w = v THEN PriorVoters(w) \cup {m} ELSE PriorVoters(w) \ {m}
  BY DEF ReportCounted, VoteMoves
<1>4. ~(Reported(m) /\ v = PrevVariant(m))
  BY DEF ReportCounted
<1>5. Cardinality(Voters(w)') = Cardinality(PriorVoters(w))
        + (IF w = v THEN 1 ELSE 0)
        - (IF Reported(m) /\ w = PrevVariant(m) THEN 1 ELSE 0)
  <2>1. CASE w = v
    <3>1. Cardinality(PriorVoters(w) \cup {m}) = Cardinality(PriorVoters(w)) + 1
      BY <1>1, <1>2, <1>4, <2>1, FS_AddElement
    <3> QED BY <1>1, <1>3, <1>4, <2>1, <3>1
  <2>2. CASE w # v /\ Reported(m) /\ w = PrevVariant(m)
    <3>1. Cardinality(PriorVoters(w) \ {m}) = Cardinality(PriorVoters(w)) - 1
      BY <1>1, <1>2, <2>2, FS_RemoveElement
    <3> QED BY <1>1, <1>3, <2>2, <3>1
  <2>3. CASE w # v /\ ~(Reported(m) /\ w = PrevVariant(m))
    <3>1. PriorVoters(w) \ {m} = PriorVoters(w)
      BY <1>2, <2>3
    <3> QED BY <1>1, <1>3, <2>3, <3>1
  <2> QED BY <2>1, <2>2, <2>3
<1>6. CASE w \in DOMAIN Prior
  <2>1. Prior[w].support \in Nat
    BY <1>6, VariantType DEF ReportContext
  <2>2. reportVariants'[w].support = Prior[w].support
          + (IF w = v THEN 1 ELSE 0)
          - (IF Reported(m) /\ w = PrevVariant(m) THEN 1 ELSE 0)
    BY <1>6 DEF ReportCounted, SupportMoves
  <2> QED BY <1>1, <1>5, <1>6, <2>1, <2>2
<1>7. CASE w \notin DOMAIN Prior
  <2>1. w = v /\ reportVariants'[w].support = 1
    BY <1>7 DEF ReportCounted, SupportMoves
  <2>2. Cardinality(PriorVoters(w)) = 0
    BY <1>7, FS_EmptySet DEF ReportCounted, VoteMoves
  <2> QED BY <1>4, <1>5, <1>7, <2>1, <2>2
<1> QED BY <1>6, <1>7

LEMMA SubmitReportVotes ==
  ASSUME VInv, OInv', NEW m \in Addresses, NEW h \in Hashes, SubmitReport(m, h)
  PROVE  VInv'
<1> DEFINE slot == CurrentFrame.refSlot
<1>1. PICK v \in Nat : ReportCounted(m, h, v)
  BY SubmitReportCounted
<1>2. ReportContext(m)
  BY SubmitReportContext
<1>3. /\ slot \in Nat /\ slot > 0 /\ lastReportRefSlot' = slot
      /\ lastReportRefSlot \in Nat /\ lastReportRefSlot <= slot
      /\ Prior \in Seq(Variant)
  BY <1>2 DEF ReportContext
<1>4. VoteMoves(m, v) /\ DOMAIN reportVariants' = DOMAIN Prior \cup {v}
  BY <1>1 DEF ReportCounted, SupportMoves
<1>5. Prior = IF lastReportRefSlot = slot THEN reportVariants ELSE <<>>
  BY DEF Prior, PriorVariants
<1>6. \A w : PriorVoters(w) = IF lastReportRefSlot = slot THEN Voters(w) ELSE {}
  BY DEF PriorVoters
<1> HIDE DEF slot
<1>7. ASSUME NEW w \in DOMAIN reportVariants'
      PROVE  reportVariants'[w].support >= Cardinality(Voters(w)')
  <2>1. reportVariants'[w].support \in Nat
    <3>1. reportVariants' \in Seq(Variant)
      BY DEF OInv, TInv, TypeOK
    <3> QED BY <3>1, VariantType
  <2>2. Cardinality(Voters(w)') \in Nat
    <3>1. IsFiniteSet(PriorVoters(w))
      BY VotersFinite, FS_EmptySet DEF PriorVoters
    <3>2. IsFiniteSet(Voters(w)')
      BY <1>4, <3>1, FS_AddElement, FS_RemoveElement DEF VoteMoves
    <3> QED BY <3>2, FS_CardinalityType
  <2>3. CASE w \notin DOMAIN Prior
    BY <1>1, <1>2, <2>1, <2>2, <2>3, SurplusKept
  <2>4. CASE w \in DOMAIN Prior
    <3>1. Prior[w].support \in Nat
      BY <1>3, <2>4, VariantType
    <3>2. Cardinality(PriorVoters(w)) \in Nat
      BY VotersFinite, FS_EmptySet DEF PriorVoters
    <3>3. lastReportRefSlot = slot
      BY <1>5, <2>4
    <3>4. Prior[w].support >= Cardinality(PriorVoters(w))
      BY <1>5, <1>6, <2>4, <3>3 DEF VInv, SupportCoversVotes
    <3>5. reportVariants'[w].support - Cardinality(Voters(w)')
            = Prior[w].support - Cardinality(PriorVoters(w))
      BY <1>1, <1>2, <2>4, SurplusKept
    <3> QED BY <2>1, <2>2, <3>1, <3>2, <3>4, <3>5
  <2> QED BY <2>3, <2>4
<1>8. ASSUME NEW a \in Members
      PROVE  /\ StateOf(a)'.lastReportRefSlot <= slot
             /\ StateOf(a)'.lastReportRefSlot = slot
                  => StateOf(a)'.lastReportVariantIndex \in DOMAIN reportVariants'
  <2>1. CASE a = m
    <3>1. StateOf(a)' = [lastReportRefSlot |-> slot, lastReportVariantIndex |-> v]
      BY <1>4, <2>1 DEF VoteMoves, slot
    <3> QED BY <1>3, <1>4, <3>1
  <2>2. CASE a # m
    <3>1. StateOf(a)' = StateOf(a)
      BY <1>4, <2>2 DEF VoteMoves
    <3>2. StateOf(a).lastReportRefSlot \in Nat
          /\ StateOf(a).lastReportRefSlot <= lastReportRefSlot
      BY StateOfMember
         DEF VInv, OInv, SupportCoversVotes, MemberState, Members, StateOf
    <3>3. StateOf(a).lastReportRefSlot = slot => lastReportRefSlot = slot
      BY <1>4 DEF VoteMoves, slot
    <3>4. StateOf(a).lastReportRefSlot = slot
            => StateOf(a).lastReportVariantIndex \in DOMAIN Prior
      BY <1>3, <1>5, <3>3 DEF VInv, SupportCoversVotes
    <3> QED BY <1>3, <1>4, <3>1, <3>2, <3>4
  <2> QED BY <2>1, <2>2
<1>9. Members' = Members
  BY <1>4 DEF VoteMoves
<1> QED
  BY <1>3, <1>7, <1>8, <1>9 DEF VInv, SupportCoversVotes

(* A new member has no vote yet.                                           *)
MemberAdded(a) ==
  /\ Members' = Members \cup {a} /\ a \notin Members
  /\ StateOf(a)'.lastReportRefSlot = 0
  /\ \A b \in Members : StateOf(b)' = StateOf(b)
  /\ lastReportRefSlot > 0 => \A w : Voters(w)' = Voters(w)
  /\ UNCHANGED <<now, frameConfig, lastReportRefSlot, reportVariants,
                 reportProcessor, RefSlot>>

LEMMA AddMemberAdded ==
  ASSUME VInv, NEW a \in Addresses, NEW q, AddMember(a, q)
  PROVE  MemberAdded(a)
<1> DEFINE n == TotalMembers
           fresh == [lastReportRefSlot |-> 0, lastReportVariantIndex |-> 1]
<1>0. TInv /\ TypeOK
  BY DEF VInv, OInv, TInv
<1>1. n \in Nat /\ n = Len(memberStates)
  BY <1>0, LenProperties DEF TypeOK, TotalMembers
<1>2. /\ memberStates' = Append(memberStates, fresh)
      /\ memberIndices1b' = [memberIndices1b EXCEPT ![a] = n + 1]
      /\ memberIndices1b[a] = 0
      /\ UNCHANGED <<now, frameConfig, lastReportRefSlot, reportVariants,
                     reportProcessor>>
  BY DEF AddMember, IsMember
<1>3. fresh \in MemberState /\ fresh.lastReportRefSlot = 0
  BY DEF MemberState
<1> HIDE DEF n, fresh
<1>4. memberStates'[n + 1] = fresh
      /\ \A i \in 1 .. n : memberStates'[i] = memberStates[i]
  BY <1>0, <1>1, <1>2, <1>3, AppendProperties DEF TypeOK
<1>5. \A b \in Addresses :
        memberIndices1b'[b] = IF b = a THEN n + 1 ELSE memberIndices1b[b]
  BY <1>0, <1>2 DEF TypeOK
<1>6. Members' = Members \cup {a} /\ a \notin Members
  BY <1>1, <1>2, <1>5 DEF Members, IsMember
<1>7. StateOf(a)' = fresh /\ \A b \in Members : StateOf(b)' = StateOf(b)
  <2>1. ASSUME NEW b \in Members PROVE StateOf(b)' = StateOf(b)
    <3>1. b \in Addresses /\ IsMember(b) /\ b # a
      BY <1>6 DEF Members
    <3>2. memberIndices1b[b] \in 1 .. n /\ memberIndices1b'[b] = memberIndices1b[b]
      BY <1>0, <1>1, <1>5, <3>1, StateOfMember
    <3> QED BY <1>4, <3>2 DEF StateOf
  <2> QED BY <1>4, <1>5, <2>1 DEF StateOf
<1>8. lastReportRefSlot > 0 => \A w : Voters(w)' = Voters(w)
  <2>1. ASSUME lastReportRefSlot > 0, NEW w PROVE Voters(w)' = Voters(w)
    BY <1>2, <1>3, <1>6, <1>7, <2>1 DEF Voters
  <2> QED BY <2>1
<1>9. UNCHANGED RefSlot
  BY <1>2 DEF RefSlot, HasCurrentFrame, CurrentFrame
<1> QED BY <1>2, <1>3, <1>6, <1>7, <1>8, <1>9 DEF MemberAdded

LEMMA AddMemberVotes ==
  ASSUME VInv, OInv', NEW a \in Addresses, NEW q, AddMember(a, q)
  PROVE  VInv'
<1>1. MemberAdded(a)
  BY AddMemberAdded
<1>2. lastReportRefSlot \in Nat
  BY DEF VInv, OInv, TInv, TypeOK
<1>3. CASE lastReportRefSlot = 0
  <2>1. reportVariants' = <<>> /\ lastReportRefSlot' = 0
    BY <1>1, <1>3 DEF VInv, MemberAdded
  <2>2. DOMAIN reportVariants' = {}
    BY <2>1
  <2>3. \A b \in Members' : StateOf(b)'.lastReportRefSlot <= lastReportRefSlot'
    BY <1>1, <1>3 DEF VInv, SupportCoversVotes, MemberAdded
  <2> QED BY <2>1, <2>2, <2>3 DEF VInv, SupportCoversVotes
<1>4. CASE lastReportRefSlot > 0
  <2>1. \A w \in DOMAIN reportVariants' :
          reportVariants'[w].support >= Cardinality(Voters(w)')
    BY <1>1, <1>4 DEF VInv, SupportCoversVotes, MemberAdded
  <2>2. \A b \in Members' :
          /\ StateOf(b)'.lastReportRefSlot <= lastReportRefSlot'
          /\ StateOf(b)'.lastReportRefSlot = lastReportRefSlot'
               => StateOf(b)'.lastReportVariantIndex \in DOMAIN reportVariants'
    BY <1>1, <1>2, <1>4 DEF VInv, SupportCoversVotes, MemberAdded
  <2> QED BY <1>1, <1>4, <2>1, <2>2 DEF VInv, SupportCoversVotes, MemberAdded
<1> QED BY <1>2, <1>3, <1>4

(* Whoever leaves takes the vote along; the counter of the variant drops   *)
(* only if it counted that vote, which it did if the report can still be   *)
(* cancelled; and as long as the slot is open it always can.               *)
Cancels(a) == MustCancelReport(StateOf(a))

MemberRemoved(a) ==
  /\ Members' = Members \ {a} /\ a \in Members
  /\ \A b \in Members : b # a => StateOf(b)' = StateOf(b)
  /\ \A w : Voters(w)' = Voters(w) \ {a}
  /\ DOMAIN reportVariants' = DOMAIN reportVariants
  /\ \A w \in DOMAIN reportVariants :
       /\ reportVariants'[w].hash = reportVariants[w].hash
       /\ reportVariants'[w].support = reportVariants[w].support
            - (IF Cancels(a) /\ w = PrevVariant(a) THEN 1 ELSE 0)
  /\ Cancels(a) => a \in Voters(PrevVariant(a))
  /\ IsOpen /\ lastReportRefSlot = RefSlot =>
       \A w : a \in Voters(w) => Cancels(a) /\ w = PrevVariant(a)
  /\ UNCHANGED <<now, frameConfig, lastReportRefSlot, reportProcessor, RefSlot>>

LEMMA RemoveMemberRemoved ==
  ASSUME VInv, NEW a \in Addresses, NEW q, RemoveMember(a, q)
  PROVE  MemberRemoved(a)
<1> DEFINE n == TotalMembers
           index == memberIndices1b[a]
           last == memberAddresses[n]
           v == PrevVariant(a)
<1>0. /\ OInv /\ TInv /\ TypeOK /\ lastReportRefSlot \in Nat
      /\ MemberIndicesConsistent
  BY DEF VInv, OInv, TInv, TypeOK
<1>1. n \in Nat /\ n = Len(memberStates) /\ n = Len(memberAddresses)
  BY <1>0, LenProperties DEF TypeOK, MemberIndicesConsistent, TotalMembers
<1>2. /\ memberStates' = SwapRemove(memberStates, index)
      /\ memberIndices1b' = [memberIndices1b EXCEPT ![last] = index, ![a] = 0]
      /\ IsMember(a)
      /\ UNCHANGED <<now, frameConfig, lastReportRefSlot, reportProcessor>>
      /\ StateOf(a).lastReportRefSlot > 0 => HasCurrentFrame
  BY DEF RemoveMember, StateOf
<1>3. IF Cancels(a)
        THEN /\ reportVariants' = [reportVariants EXCEPT ![v].support = @ - 1]
             /\ v \in DOMAIN reportVariants
        ELSE reportVariants' = reportVariants
  BY DEF RemoveMember, Cancels, StateOf, PrevVariant
<1>4. Cancels(a) => HasCurrentFrame /\ StateOf(a).lastReportRefSlot = RefSlot
                    /\ StateOf(a).lastReportRefSlot > 0
  BY <1>2 DEF Cancels, MustCancelReport, RefSlot
<1>5. index \in 1 .. n /\ memberAddresses[index] = a
      /\ StateOf(a) \in MemberState /\ a \in Members
  BY <1>0, <1>1, <1>2, StateOfMember DEF StateOf, Members
<1> HIDE DEF n, index, last, v
<1>6. n \in 1 .. n
  BY <1>1, <1>5
<1>7. last \in Addresses /\ memberIndices1b[last] = n
  BY <1>0, <1>1, <1>6, ElementOfSeq
     DEF TypeOK, MemberIndicesConsistent, TotalMembers, last
<1>8. \A b \in Addresses : memberIndices1b'[b] =
        IF b = a THEN 0 ELSE IF b = last THEN index ELSE memberIndices1b[b]
  BY <1>0, <1>2, <1>7 DEF TypeOK
<1>9. Members' = Members \ {a}
  <2>1. index # 0 /\ n # 0
    BY <1>1, <1>5
  <2> QED BY <1>7, <1>8, <2>1 DEF Members, IsMember
<1>10. \A i \in 1 .. n - 1 :
         memberStates'[i] = IF i = index THEN memberStates[n] ELSE memberStates[i]
  BY <1>1, <1>2 DEF SwapRemove
<1>11. ASSUME NEW b \in Members, b # a
       PROVE  StateOf(b)' = StateOf(b)
  <2>1. b \in Addresses /\ IsMember(b)
    BY DEF Members
  <2>2. memberIndices1b[b] \in 1 .. n /\ memberAddresses[memberIndices1b[b]] = b
    BY <1>0, <1>1, <2>1, StateOfMember
  <2>3. memberIndices1b[b] # index
    BY <1>5, <1>11, <2>2
  <2>4. CASE b = last
    <3>1. memberIndices1b'[b] = index /\ memberIndices1b[b] = n
      BY <1>7, <1>8, <1>11, <2>1, <2>4
    <3>2. index \in 1 .. n - 1
      BY <1>1, <1>5, <2>3, <3>1
    <3> QED BY <1>10, <3>1, <3>2 DEF StateOf
  <2>5. CASE b # last
    <3>1. memberIndices1b'[b] = memberIndices1b[b]
      BY <1>8, <1>11, <2>1, <2>5
    <3>2. memberIndices1b[b] # n
      BY <2>2, <2>5 DEF last
    <3>3. memberIndices1b[b] \in 1 .. n - 1
      BY <1>1, <2>2, <3>2
    <3> QED BY <1>10, <2>3, <3>1, <3>3 DEF StateOf
  <2> QED BY <2>4, <2>5
<1>12. ASSUME NEW w PROVE Voters(w)' = Voters(w) \ {a}
  BY <1>2, <1>9, <1>11 DEF Voters
<1>13. DOMAIN reportVariants' = DOMAIN reportVariants
  BY <1>3
<1>14. ASSUME NEW w \in DOMAIN reportVariants
       PROVE  /\ reportVariants'[w].hash = reportVariants[w].hash
              /\ reportVariants'[w].support = reportVariants[w].support
                   - (IF Cancels(a) /\ w = v THEN 1 ELSE 0)
  <2>1. reportVariants[w] \in Variant
    BY <1>0, ElementOfSeq, LenProperties DEF TypeOK
  <2>2. CASE Cancels(a) /\ w = v
    BY <1>3, <2>1, <2>2 DEF Variant
  <2>3. CASE ~(Cancels(a) /\ w = v)
    <3>1. reportVariants'[w] = reportVariants[w]
      BY <1>3, <2>3
    <3> QED BY <2>1, <2>3, <3>1 DEF Variant
  <2> QED BY <2>2, <2>3
<1>15. RefSlot \in Nat /\ lastReportRefSlot <= RefSlot
       /\ StateOf(a).lastReportRefSlot \in Nat
       /\ StateOf(a).lastReportRefSlot <= lastReportRefSlot
  BY <1>0, <1>5, RefSlotType
     DEF OInv, ReportingStateOrdered, VInv, SupportCoversVotes, MemberState
<1>16. Cancels(a) => a \in Voters(v)
  <2>1. Cancels(a) => StateOf(a).lastReportRefSlot = lastReportRefSlot
    BY <1>0, <1>4, <1>15
  <2> QED BY <1>5, <2>1 DEF Voters, v, PrevVariant
<1>17. ASSUME IsOpen, lastReportRefSlot = RefSlot, NEW w, a \in Voters(w)
       PROVE  Cancels(a) /\ w = v
  <2>1. LastProcessingRefSlot \in Nat
    BY <1>0 DEF TypeOK, Register, LastProcessingRefSlot
  <2>2. RefSlot > 0 /\ LastProcessingRefSlot < RefSlot
    BY <1>15, <1>17, <2>1 DEF IsOpen
  <2>3. HasCurrentFrame /\ RefSlot = CurrentFrame.refSlot
    BY <2>2 DEF RefSlot
  <2> QED BY <1>17, <2>2, <2>3 DEF Voters, Cancels, MustCancelReport, v, PrevVariant
<1>18. UNCHANGED RefSlot
  BY <1>2 DEF RefSlot, HasCurrentFrame, CurrentFrame
<1> QED
  BY <1>2, <1>5, <1>9, <1>11, <1>12, <1>13, <1>14, <1>16, <1>17, <1>18
     DEF MemberRemoved, v

(* Removing a member keeps every variant's surplus of support over votes,  *)
(* or leaves a vote of a slot that is closed counted.                      *)
LEMMA SurplusAfterRemoval ==
  ASSUME VInv, NEW a \in Addresses, MemberRemoved(a),
         NEW w \in DOMAIN reportVariants
  PROVE  LET before == reportVariants[w].support - Cardinality(Voters(w))
             after  == reportVariants'[w].support - Cardinality(Voters(w)')
         IN  /\ after >= before
             /\ IsOpen /\ lastReportRefSlot = RefSlot => after = before
<1>1. /\ IsFiniteSet(Voters(w)) /\ Cardinality(Voters(w)) \in Nat
      /\ reportVariants[w].support \in Nat
  BY VotersFinite, VariantType DEF VInv, OInv, TInv, TypeOK
<1>2. Cardinality(Voters(w)') =
        Cardinality(Voters(w)) - (IF a \in Voters(w) THEN 1 ELSE 0)
  <2>1. CASE a \in Voters(w)
    <3>1. Cardinality(Voters(w) \ {a}) = Cardinality(Voters(w)) - 1
      BY <1>1, <2>1, FS_RemoveElement
    <3> QED BY <1>1, <2>1, <3>1 DEF MemberRemoved
  <2>2. CASE a \notin Voters(w)
    <3>1. Voters(w)' = Voters(w)
      BY <2>2 DEF MemberRemoved
    <3> QED BY <1>1, <2>2, <3>1
  <2> QED BY <2>1, <2>2
<1>3. reportVariants'[w].support = reportVariants[w].support
        - (IF Cancels(a) /\ w = PrevVariant(a) THEN 1 ELSE 0)
  BY DEF MemberRemoved
<1>4. Cancels(a) /\ w = PrevVariant(a) => a \in Voters(w)
  BY DEF MemberRemoved
<1>5. IsOpen /\ lastReportRefSlot = RefSlot /\ a \in Voters(w)
        => Cancels(a) /\ w = PrevVariant(a)
  BY DEF MemberRemoved
<1> HIDE DEF IsOpen
<1> QED BY <1>1, <1>2, <1>3, <1>4, <1>5

LEMMA RemoveMemberVotes ==
  ASSUME VInv, OInv', NEW a \in Addresses, NEW q, RemoveMember(a, q)
  PROVE  VInv'
<1>1. MemberRemoved(a)
  BY RemoveMemberRemoved
<1>2. DOMAIN reportVariants' = DOMAIN reportVariants
      /\ UNCHANGED lastReportRefSlot
  BY <1>1 DEF MemberRemoved
<1>3. ASSUME NEW w \in DOMAIN reportVariants
      PROVE  reportVariants'[w].support >= Cardinality(Voters(w)')
  <2>1. reportVariants[w].support \in Nat /\ reportVariants'[w].support \in Nat
    BY <1>2, <1>3, VariantType DEF VInv, OInv, TInv, TypeOK
  <2>2. Cardinality(Voters(w)) \in Nat /\ IsFiniteSet(Voters(w))
    BY VotersFinite
  <2>3. Cardinality(Voters(w)') \in Nat
    <3>1. Voters(w)' \subseteq Voters(w)
      BY <1>1 DEF MemberRemoved
    <3> QED BY <2>2, <3>1, FS_Subset, FS_CardinalityType
  <2>4. reportVariants[w].support >= Cardinality(Voters(w))
    BY DEF VInv, SupportCoversVotes
  <2>5. reportVariants'[w].support - Cardinality(Voters(w)')
          >= reportVariants[w].support - Cardinality(Voters(w))
    BY <1>1, SurplusAfterRemoval
  <2> QED BY <2>1, <2>2, <2>3, <2>4, <2>5
<1>4. \A b \in Members' :
         /\ StateOf(b)'.lastReportRefSlot <= lastReportRefSlot'
         /\ StateOf(b)'.lastReportRefSlot = lastReportRefSlot'
            /\ lastReportRefSlot' > 0
              => StateOf(b)'.lastReportVariantIndex \in DOMAIN reportVariants'
  BY <1>1, <1>2 DEF VInv, SupportCoversVotes, MemberRemoved
<1>5. lastReportRefSlot' = 0 => reportVariants' = <<>>
  <2>1. lastReportRefSlot = 0 => reportVariants = <<>> /\ DOMAIN reportVariants = {}
    BY DEF VInv
  <2>2. reportVariants' \in Seq(Variant)
    BY DEF OInv, TInv, TypeOK
  <2>3. DOMAIN reportVariants' = {} => reportVariants' = <<>>
    BY <2>2, LenProperties, EmptySeq
  <2> QED BY <1>2, <2>1, <2>3
<1> QED BY <1>2, <1>3, <1>4, <1>5 DEF VInv, SupportCoversVotes

LEMMA InitVInv ==
  Init => VInv
<1> SUFFICES ASSUME Init PROVE VInv
  OBVIOUS
<1>1. OInv
  BY InitOInv
<1>2. Members = {} /\ DOMAIN reportVariants = {}
  BY DEF Init, Members, IsMember
<1> QED BY <1>1, <1>2 DEF Init, VInv, SupportCoversVotes

LEMMA NextVInv ==
  VInv /\ [Next]_vars => VInv'
<1> SUFFICES ASSUME VInv, [Next]_vars PROVE VInv'
  OBVIOUS
<1>1. OInv'
  BY NextOInv DEF VInv
<1>2. ASSUME UNCHANGED <<memberStates, memberIndices1b, lastReportRefSlot,
                         reportVariants>>
      PROVE  VInv'
  BY <1>1, <1>2
     DEF VInv, SupportCoversVotes, Voters, Members, IsMember, StateOf
<1>3. ASSUME NEW m \in Addresses, NEW h \in Hashes, SubmitReport(m, h)
      PROVE  VInv'
  BY <1>1, <1>3, SubmitReportVotes
<1>4. ASSUME NEW a \in Addresses, NEW q \in Quorums, AddMember(a, q)
      PROVE  VInv'
  BY <1>1, <1>4, AddMemberVotes
<1>5. ASSUME NEW a \in Addresses, NEW q \in Quorums, RemoveMember(a, q)
      PROVE  VInv'
  BY <1>1, <1>5, RemoveMemberVotes
<1> QED
  BY <1>2, <1>3, <1>4, <1>5
     DEF Next, vars, memberVars, SetQuorum, DisableConsensus,
         SetReportProcessor, UpdateInitialEpoch, SetFrameConfig,
         SetFastLaneLengthSlots, ReconfigureFrames, Tick, ProcessReport

(* The counters cover the votes of the current members, for any committee, *)
(* any number of hashes and any sequence of calls: no decrement of a       *)
(* counter and no assert on a variant index can revert a legal call.       *)
THEOREM VotesCovered == Spec => []SupportCoversVotes
<1>1. VInv => SupportCoversVotes
  BY DEF VInv
<1>2. Spec => []VInv
  BY InitVInv, NextVInv, PTL DEF Spec
<1> QED BY <1>1, <1>2, PTL

-----------------------------------------------------------------------------
(***************************************************************************)
(* The consensus the contract records is the consensus of the votes: while *)
(* a slot is open the counters are exact, the recorded variant is the one  *)
(* that a quorum of the current members votes for, the processor holds its *)
(* hash, and so the contract implements Committee.                         *)
(*                                                                         *)
(* A new report processor may never have heard of a slot the old one has   *)
(* closed, and then the slot is open again with counters nobody maintained *)
(* in the meantime.  The theorems about open slots therefore suppose that  *)
(* a processed slot is not opened again, or that the processor is kept:    *)
(* a deployment sets it once.                                              *)
(***************************************************************************)


ProcessedSlotStays == [][LastProcessingRefSlot' >= LastProcessingRefSlot]_vars

ProcessorKept == [][reportProcessor' = reportProcessor]_vars

-----------------------------------------------------------------------------
(* A quorum is a majority *)

(* The quorum is zero only before there are members.                       *)
QuorumIsMajority ==
  IF quorum = 0 THEN TotalMembers = 0 /\ lastReportRefSlot = 0
                ELSE quorum > TotalMembers \div 2

DistinctHashes ==
  \A v, w \in DOMAIN reportVariants :
    reportVariants[v].hash = reportVariants[w].hash => v = w

RegistersOrdered ==
  \A p \in Processors : oracle[p].lastProcessingRefSlot <= oracle[p].refSlot

BInv ==
  /\ VInv
  /\ QuorumIsMajority
  /\ DistinctHashes
  /\ RegistersOrdered

(* The arrays count the members.                                           *)
LEMMA MembersCounted ==
  ASSUME TInv
  PROVE  /\ IsFiniteSet(Members)
         /\ Cardinality(Members) = TotalMembers
         /\ TotalMembers \in Nat
<1> DEFINE n == TotalMembers
           f == [i \in 1 .. n |-> memberAddresses[i]]
<1>1. n \in Nat /\ n = Len(memberAddresses) /\ n = Len(memberStates)
  BY LenProperties DEF TInv, TypeOK, MemberIndicesConsistent, TotalMembers
<1> HIDE DEF n
<1>2. \A i \in 1 .. n : memberAddresses[i] \in Addresses
                        /\ memberIndices1b[memberAddresses[i]] = i
  BY <1>1, ElementOfSeq DEF TInv, TypeOK, MemberIndicesConsistent, n
<1>3. f \in [1 .. n -> Members]
  BY <1>1, <1>2 DEF Members, IsMember
<1>4. \A i, j \in 1 .. n : f[i] = f[j] => i = j
  BY <1>2
<1>5. \A a \in Members : \E i \in 1 .. n : f[i] = a
  BY <1>1 DEF TInv, MemberIndicesConsistent, n
<1> HIDE DEF f
<1>6. f \in Bijection(1 .. n, Members)
  <2>1. f \in Injection(1 .. n, Members)
    BY <1>3, <1>4 DEF Injection, IsInjective
  <2>2. f \in Surjection(1 .. n, Members)
    BY <1>3, <1>5 DEF Surjection
  <2> QED BY <2>1, <2>2 DEF Bijection
<1>7. ExistsBijection(1 .. n, Members)
  BY <1>6 DEF ExistsBijection
<1>8. Cardinality(Members) = n
  BY <1>1, <1>7, FS_CountingElements
<1>9. IsFiniteSet(Members)
  BY HashConsensusAssumption, FS_Subset DEF Members
<1> QED BY <1>1, <1>8, <1>9 DEF n

(* Two variants cannot both have a quorum of the current members.          *)
LEMMA QuorumsMeet ==
  ASSUME BInv, NEW v, NEW w, quorum > 0,
         Cardinality(Voters(v)) >= quorum, Cardinality(Voters(w)) >= quorum
  PROVE  v = w
<1>1. /\ IsFiniteSet(Members) /\ Cardinality(Members) = TotalMembers
      /\ TotalMembers \in Nat /\ quorum \in Nat
  BY MembersCounted DEF BInv, VInv, OInv, TInv, TypeOK
<1>2. Voters(v) \subseteq Members /\ Voters(w) \subseteq Members
  BY DEF Voters
<1>3. Cardinality(Voters(v)) \in Nat /\ Cardinality(Voters(w)) \in Nat
  BY VotersFinite
<1>4. quorum > TotalMembers \div 2
  BY DEF BInv, QuorumIsMajority
<1>5. Cardinality(Voters(v)) + Cardinality(Voters(w)) > Cardinality(Members)
  BY <1>1, <1>3, <1>4
<1>6. PICK a : a \in Voters(v) \cap Voters(w)
  BY <1>1, <1>2, <1>5, FS_MajoritiesIntersect
<1> QED BY <1>6 DEF Voters

-----------------------------------------------------------------------------
(* What a step does to the register of a processor *)

Submits(p) ==
  /\ HasCurrentFrame
  /\ RefSlot > oracle[p].lastProcessingRefSlot
  /\ oracle'[p].refSlot = RefSlot
  /\ oracle'[p].processingDeadlineTime =
       ComputeTimestampAtSlot(CurrentFrame.reportProcessingDeadlineSlot)
  /\ oracle'[p].lastProcessingRefSlot = oracle[p].lastProcessingRefSlot

Discards(p) == oracle'[p] = [oracle[p] EXCEPT !.hash = NoHash]

Starts(p) ==
  /\ CanStartProcessing(oracle[p], now)
  /\ oracle'[p] = StartProcessing(oracle[p])

RegisterMoves(p) ==
  \/ UNCHANGED oracle[p]
  \/ /\ UNCHANGED <<now, frameConfig, RefSlot>>
     /\ Submits(p) \/ Discards(p) \/ Starts(p)

LEMMA SubmissionMoves ==
  ASSUME OInv, UNCHANGED <<now, frameConfig>>, NEW r \in Processors, NEW hash,
         HasCurrentFrame, SubmitReportForProcessing(r, CurrentFrame, hash),
         NEW p \in Processors
  PROVE  RegisterMoves(p)
<1> DEFINE slot == CurrentFrame.refSlot
           deadline == ComputeTimestampAtSlot(CurrentFrame.reportProcessingDeadlineSlot)
<1>1. /\ oracle' = [oracle EXCEPT ![r] = SubmitConsensusReport(@, hash, slot, deadline)]
      /\ slot > oracle[r].lastProcessingRefSlot
  BY DEF SubmitReportForProcessing, CanSubmitConsensusReport
<1>2. UNCHANGED RefSlot /\ RefSlot = slot
  BY DEF RefSlot, HasCurrentFrame, CurrentFrame
<1>3. oracle \in [Processors -> Register(Hashes)]
  BY DEF OInv, TInv, TypeOK
<1> HIDE DEF slot, deadline
<1>4. CASE p # r
  BY <1>1, <1>3, <1>4 DEF RegisterMoves
<1>5. CASE p = r
  <2>1. oracle'[p] = SubmitConsensusReport(oracle[p], hash, slot, deadline)
    BY <1>1, <1>3, <1>5
  <2>2. oracle[p] \in Register(Hashes)
    BY <1>3
  <2>3. /\ oracle'[p].refSlot = slot
        /\ oracle'[p].processingDeadlineTime = deadline
        /\ oracle'[p].lastProcessingRefSlot = oracle[p].lastProcessingRefSlot
    BY <2>1, <2>2 DEF SubmitConsensusReport, Register
  <2> QED BY <1>1, <1>2, <1>5, <2>3 DEF RegisterMoves, Submits, deadline
<1> QED BY <1>4, <1>5

LEMMA ReachedMoves ==
  ASSUME OInv, UNCHANGED <<now, frameConfig>>, HasCurrentFrame, NEW hash, NEW v,
         ConsensusReached(CurrentFrame, hash, v), NEW p \in Processors
  PROVE  RegisterMoves(p)
<1>1. CASE UNCHANGED oracle
  BY <1>1 DEF RegisterMoves
<1>2. CASE ~UNCHANGED oracle
  <2>1. SubmitReportForProcessing(reportProcessor, CurrentFrame, hash)
    BY <1>2 DEF ConsensusReached, consensusVars
  <2>2. reportProcessor \in Processors
    BY DEF OInv, TInv, TypeOK
  <2> QED BY <2>1, <2>2, SubmissionMoves
<1> QED BY <1>1, <1>2

LEMMA NotReachedMoves ==
  ASSUME OInv, UNCHANGED <<now, frameConfig>>,
         ConsensusNotReached(CurrentFrame), NEW p \in Processors
  PROVE  RegisterMoves(p)
<1>1. CASE UNCHANGED oracle
  BY <1>1 DEF RegisterMoves
<1>2. CASE ~UNCHANGED oracle
  <2>1. oracle' = [oracle EXCEPT ![reportProcessor] =
                     DiscardConsensusReport(@, CurrentFrame.refSlot)]
    BY <1>2 DEF ConsensusNotReached, CancelReportProcessing, consensusVars
  <2>2. oracle \in [Processors -> Register(Hashes)]
    BY DEF OInv, TInv, TypeOK
  <2>3. UNCHANGED RefSlot
    BY DEF RefSlot, HasCurrentFrame, CurrentFrame
  <2>4. oracle'[p] = IF p = reportProcessor
                       THEN DiscardConsensusReport(oracle[p], CurrentFrame.refSlot)
                       ELSE oracle[p]
    BY <2>1, <2>2
  <2> QED BY <2>3, <2>4 DEF RegisterMoves, Discards, DiscardConsensusReport
<1> QED BY <1>1, <1>2

LEMMA NextMoves ==
  ASSUME OInv, [Next]_vars, NEW p \in Processors
  PROVE  RegisterMoves(p)
<1>1. CASE UNCHANGED oracle
  BY <1>1 DEF RegisterMoves
<1>2. ASSUME NEW m \in Addresses, NEW h \in Hashes, SubmitReport(m, h)
      PROVE  RegisterMoves(p)
  <2>1. \/ UNCHANGED oracle
        \/ ConsensusNotReached(CurrentFrame)
        \/ \E v : ConsensusReached(CurrentFrame, h, v)
    BY <1>2 DEF SubmitReport, consensusVars
  <2>2. HasCurrentFrame /\ UNCHANGED <<now, frameConfig>>
    BY <1>2 DEF SubmitReport, CanReport
  <2> QED BY <1>1, <2>1, <2>2, NotReachedMoves, ReachedMoves
<1>3. ASSUME NEW q, NEW n, NEW variants, UNCHANGED <<now, frameConfig>>,
             SetQuorumAndCheckConsensus(q, n, variants)
      PROVE  RegisterMoves(p)
  <2>1. \/ UNCHANGED oracle
        \/ ConsensusNotReached(CurrentFrame)
        \/ /\ HasCurrentFrame
           /\ \E v : ConsensusReached(CurrentFrame, variants[v].hash, v)
    BY <1>3 DEF SetQuorumAndCheckConsensus, CheckConsensus, consensusVars
  <2> QED BY <1>1, <1>3, <2>1, NotReachedMoves, ReachedMoves
<1>4. ASSUME NEW r \in Processors, SetReportProcessor(r) PROVE RegisterMoves(p)
  <2>1. \/ UNCHANGED oracle
        \/ SubmitReportForProcessing(r, CurrentFrame,
             reportVariants[lastConsensusVariantIndex].hash)
    BY <1>4 DEF SetReportProcessor
  <2>2. HasCurrentFrame /\ UNCHANGED <<now, frameConfig>>
    BY <1>4 DEF SetReportProcessor
  <2> QED BY <1>1, <2>1, <2>2, SubmissionMoves
<1>5. ASSUME NEW r \in Processors, ProcessReport(r) PROVE RegisterMoves(p)
  <2>1. /\ oracle' = [oracle EXCEPT ![r] = StartProcessing(@)]
        /\ CanStartProcessing(oracle[r], now)
        /\ UNCHANGED <<now, frameConfig>>
    BY <1>5 DEF ProcessReport
  <2>2. UNCHANGED RefSlot
    BY <2>1 DEF RefSlot, HasCurrentFrame, CurrentFrame
  <2>3. oracle'[p] = IF p = r THEN StartProcessing(oracle[p]) ELSE oracle[p]
    BY <2>1 DEF OInv, TInv, TypeOK
  <2> QED BY <2>1, <2>2, <2>3 DEF RegisterMoves, Starts
<1>6. ASSUME NEW a \in Addresses, NEW q \in Quorums,
             AddMember(a, q) \/ RemoveMember(a, q)
      PROVE  RegisterMoves(p)
  BY <1>3, <1>6 DEF AddMember, RemoveMember
<1>7. ASSUME NEW q, SetQuorum(q) PROVE RegisterMoves(p)
  BY <1>3, <1>7 DEF SetQuorum
<1> QED
  BY <1>1, <1>2, <1>4, <1>5, <1>6, <1>7
     DEF Next, vars, consensusVars, DisableConsensus, UpdateInitialEpoch,
         SetFrameConfig, SetFastLaneLengthSlots, ReconfigureFrames, Tick

-----------------------------------------------------------------------------
(* The invariant for any use of the processors *)

LEMMA InitBInv ==
  Init => BInv
<1> SUFFICES ASSUME Init PROVE BInv
  OBVIOUS
<1>1. VInv
  BY InitVInv
<1>2. RegistersOrdered
  <2>1. ASSUME NEW p \in Processors
        PROVE  oracle[p].lastProcessingRefSlot <= oracle[p].refSlot
    <3>1. PICK s \in InitialRefSlots : oracle[p] = InitRegister(s)
      BY DEF Init
    <3>2. s \in Nat
      BY HashConsensusAssumption
    <3> QED BY <3>1, <3>2 DEF InitRegister
  <2> QED BY <2>1 DEF RegistersOrdered
<1>3. QuorumIsMajority
  BY DEF Init, QuorumIsMajority, TotalMembers
<1>4. DistinctHashes
  <2>1. DOMAIN reportVariants = {}
    BY DEF Init
  <2> QED BY <2>1 DEF DistinctHashes
<1> QED BY <1>1, <1>2, <1>3, <1>4 DEF BInv

LEMMA NextRegistersOrdered ==
  ASSUME BInv, [Next]_vars
  PROVE  RegistersOrdered'
<1>1. ASSUME NEW p \in Processors
      PROVE  oracle'[p].lastProcessingRefSlot <= oracle'[p].refSlot
  <2>1. OInv /\ oracle[p] \in Register(Hashes)
        /\ oracle[p].lastProcessingRefSlot <= oracle[p].refSlot
    BY DEF BInv, RegistersOrdered, VInv, OInv, TInv, TypeOK
  <2>2. RegisterMoves(p)
    BY <2>1, NextMoves
  <2>3. CASE UNCHANGED oracle[p]
    BY <2>1, <2>3
  <2>4. CASE Submits(p)
    <3>1. RefSlot \in Nat /\ oracle[p].lastProcessingRefSlot \in Nat
      BY <2>1, RefSlotType DEF OInv, TInv, Register
    <3> QED BY <2>4, <3>1 DEF Submits
  <2>5. CASE Discards(p)
    BY <2>1, <2>5 DEF Discards, Register
  <2>6. CASE Starts(p)
    BY <2>1, <2>6 DEF Starts, StartProcessing, Register
  <2> QED BY <2>2, <2>3, <2>4, <2>5, <2>6 DEF RegisterMoves
<1> QED BY <1>1 DEF RegistersOrdered

LEMMA NextQuorumIsMajority ==
  ASSUME BInv, TInv', [Next]_vars
  PROVE  QuorumIsMajority'
<1>0. /\ VInv /\ TInv /\ TypeOK /\ QuorumIsMajority
      /\ TotalMembers \in Nat
      /\ memberStates \in Seq(MemberState)
  BY MembersCounted DEF BInv, VInv, OInv, TInv, TypeOK
<1>1. CASE UNCHANGED <<quorum, memberStates, lastReportRefSlot>>
  BY <1>0, <1>1 DEF QuorumIsMajority, TotalMembers
<1>2. ASSUME NEW m \in Addresses, NEW h \in Hashes, SubmitReport(m, h)
      PROVE  QuorumIsMajority'
  <2>1. TotalMembers' = TotalMembers
    <3>1. UNCHANGED memberAddresses
      BY <1>2 DEF SubmitReport
    <3> QED BY <1>0, <3>1 DEF TInv, MemberIndicesConsistent, TotalMembers
  <2>2. IsMember(m) /\ quorum' = quorum
    BY <1>2 DEF SubmitReport, CanReport
  <2>3. TotalMembers # 0
    BY <1>0, <2>2, StateOfMember DEF TotalMembers
  <2> QED BY <1>0, <2>1, <2>2, <2>3 DEF QuorumIsMajority
<1>3. ASSUME NEW q \in Nat, NEW n \in Nat, NEW variants,
             SetQuorumAndCheckConsensus(q, n, variants), TotalMembers' = n
      PROVE  QuorumIsMajority'
  <2>1. quorum' = q /\ q > n \div 2
    BY <1>3 DEF SetQuorumAndCheckConsensus
  <2>2. n \div 2 \in Nat
    BY QuotientType
  <2> HIDE DEF TotalMembers
  <2> QED BY <1>3, <2>1, <2>2 DEF QuorumIsMajority
<1>4. ASSUME NEW a \in Addresses, NEW q \in Quorums, AddMember(a, q)
      PROVE  QuorumIsMajority'
  <2>1. SetQuorumAndCheckConsensus(q, TotalMembers + 1, reportVariants)
    BY <1>4 DEF AddMember
  <2>2. TotalMembers' = TotalMembers + 1
    <3> DEFINE fresh == [lastReportRefSlot |-> 0, lastReportVariantIndex |-> 1]
    <3>1. memberStates' = Append(memberStates, fresh)
      BY <1>4 DEF AddMember
    <3>2. fresh \in MemberState
      BY DEF MemberState
    <3> HIDE DEF fresh
    <3> QED BY <1>0, <3>1, <3>2, AppendProperties DEF TotalMembers
  <2>3. q \in Nat
    BY HashConsensusAssumption
  <2> QED BY <1>0, <1>3, <2>1, <2>2, <2>3
<1>5. ASSUME NEW a \in Addresses, NEW q \in Quorums, RemoveMember(a, q)
      PROVE  QuorumIsMajority'
  <2>1. SetQuorumAndCheckConsensus(q, TotalMembers - 1, reportVariants')
        /\ memberStates' = SwapRemove(memberStates, memberIndices1b[a])
        /\ IsMember(a)
    BY <1>5 DEF RemoveMember
  <2>2. memberIndices1b[a] \in 1 .. Len(memberStates)
    BY <1>0, <2>1, StateOfMember
  <2>3. TotalMembers' = TotalMembers - 1 /\ TotalMembers - 1 \in Nat
    BY <1>0, <2>1, <2>2, SwapRemoveType DEF TotalMembers
  <2>4. q \in Nat
    BY HashConsensusAssumption
  <2> QED BY <1>3, <2>1, <2>3, <2>4
<1>6. ASSUME NEW q \in Nat, SetQuorum(q) PROVE QuorumIsMajority'
  BY <1>0, <1>3, <1>6 DEF SetQuorum, TotalMembers, memberVars
<1>7. \A q \in Quorums \cup {UNREACHABLE_QUORUM} : q \in Nat
  BY HashConsensusAssumption
<1> QED
  BY <1>1, <1>2, <1>4, <1>5, <1>6, <1>7
     DEF Next, vars, memberVars, DisableConsensus, SetReportProcessor,
         UpdateInitialEpoch, SetFrameConfig, SetFastLaneLengthSlots,
         ReconfigureFrames, Tick, ProcessReport

(* A report is counted for the variant of its hash, or for a new one if    *)
(* there is none.                                                          *)
LEMMA NextDistinctHashes ==
  ASSUME BInv, [Next]_vars
  PROVE  DistinctHashes'
<1>0. VInv /\ DistinctHashes
  BY DEF BInv
<1>1. CASE UNCHANGED reportVariants
  BY <1>0, <1>1 DEF DistinctHashes
<1>2. ASSUME NEW m \in Addresses, NEW h \in Hashes, SubmitReport(m, h)
      PROVE  DistinctHashes'
  <2>1. PICK v \in Nat : ReportCounted(m, h, v)
    BY <1>0, <1>2, SubmitReportCounted
  <2>2. Prior \in Seq(Variant)
    BY <1>0, <1>2, SubmitReportContext DEF ReportContext
  <2>3. \A w, x \in DOMAIN Prior : Prior[w].hash = Prior[x].hash => w = x
    BY <1>0 DEF DistinctHashes, Prior, PriorVariants
  <2>4. ASSUME v \notin DOMAIN Prior, NEW w \in DOMAIN Prior
        PROVE  Prior[w].hash # h
    <3>1. DOMAIN Prior = 1 .. Len(Prior) /\ Len(Prior) \in Nat
      BY <2>2, LenProperties
    <3>2. w \in 1 .. v - 1
      BY <2>1, <2>4, <3>1 DEF ReportCounted, StopsAt
    <3> QED BY <2>1, <3>2 DEF ReportCounted, StopsAt
  <2>5. /\ DOMAIN reportVariants' = DOMAIN Prior \cup {v}
        /\ \A w \in DOMAIN Prior : reportVariants'[w].hash = Prior[w].hash
        /\ reportVariants'[v].hash = h
    BY <2>1 DEF ReportCounted, SupportMoves
  <2> QED BY <2>3, <2>4, <2>5 DEF DistinctHashes
<1>3. ASSUME NEW a \in Addresses, NEW q \in Quorums, RemoveMember(a, q)
      PROVE  DistinctHashes'
  <2>1. /\ DOMAIN reportVariants' = DOMAIN reportVariants
        /\ \A w \in DOMAIN reportVariants :
             reportVariants'[w].hash = reportVariants[w].hash
    BY <1>0, <1>3, RemoveMemberRemoved DEF MemberRemoved
  <2> QED BY <1>0, <2>1 DEF DistinctHashes
<1> QED
  BY <1>1, <1>2, <1>3
     DEF Next, vars, AddMember, SetQuorum, DisableConsensus, SetReportProcessor,
         UpdateInitialEpoch, SetFrameConfig, SetFastLaneLengthSlots,
         ReconfigureFrames, Tick, ProcessReport

LEMMA NextBInv ==
  BInv /\ [Next]_vars => BInv'
<1> SUFFICES ASSUME BInv, [Next]_vars PROVE BInv'
  OBVIOUS
<1>1. VInv' /\ TInv'
  BY NextVInv DEF BInv, VInv, OInv
<1> QED
  BY <1>1, NextRegistersOrdered, NextQuorumIsMajority, NextDistinctHashes DEF BInv

(* The registers of the processors are ordered, the quorum is a majority    *)
(* and no two variants have the same hash.                                 *)
THEOREM BaseInvariance == Spec => []BInv
BY InitBInv, NextBInv, PTL DEF Spec

-----------------------------------------------------------------------------
(* The counters of an open slot are exact *)

EInv == BInv /\ OpenSupportIsExact

(* A step that moves no vote either leaves the slot as open as it was, or  *)
(* moves on to a slot nobody has reported on.                              *)
LEMMA ExactWhileUntouched ==
  ASSUME EInv, OInv', RefSlot' >= RefSlot,
         LastProcessingRefSlot' >= LastProcessingRefSlot,
         UNCHANGED <<memberStates, memberIndices1b, lastReportRefSlot,
                     reportVariants>>
  PROVE  OpenSupportIsExact'
<1>1. /\ RefSlot \in Nat /\ LastProcessingRefSlot \in Nat
      /\ lastReportRefSlot \in Nat /\ lastReportRefSlot <= RefSlot
  BY RefSlotType
     DEF EInv, BInv, VInv, OInv, TInv, TypeOK, Register, LastProcessingRefSlot,
         ReportingStateOrdered
<1>2. RefSlot' \in Nat /\ LastProcessingRefSlot' \in Nat
  <2>1. RefSlot' \in Nat
    BY FrameType
       DEF OInv, TInv, TypeOK, RefSlot, HasCurrentFrame, CurrentFrame, FrameComputable
  <2>2. LastProcessingRefSlot' \in Nat
    BY DEF OInv, TInv, TypeOK, Register, LastProcessingRefSlot
  <2> QED BY <2>1, <2>2
<1>3. lastReportRefSlot' = lastReportRefSlot
  OBVIOUS
<1> HIDE DEF RefSlot, LastProcessingRefSlot
<1>4. IsOpen' /\ lastReportRefSlot' = RefSlot' => IsOpen /\ lastReportRefSlot = RefSlot
  BY <1>1, <1>2, <1>3 DEF IsOpen
<1>5. \A v : Voters(v)' = Voters(v)
  BY DEF Voters, Members, IsMember, StateOf
<1> QED BY <1>4, <1>5 DEF EInv, OpenSupportIsExact

LEMMA ExactAfterReport ==
  ASSUME EInv, OInv', NEW m \in Addresses, NEW h \in Hashes, SubmitReport(m, h)
  PROVE  OpenSupportIsExact'
<1>0. VInv
  BY DEF EInv, BInv
<1>1. PICK v \in Nat : ReportCounted(m, h, v)
  BY <1>0, SubmitReportCounted
<1>2. ReportContext(m)
  BY <1>0, SubmitReportContext
<1>3. ASSUME NEW w \in DOMAIN reportVariants'
      PROVE  reportVariants'[w].support = Cardinality(Voters(w)')
  <2>1. CASE w \notin DOMAIN Prior
    BY <1>0, <1>1, <1>2, <2>1, SurplusKept
  <2>2. CASE w \in DOMAIN Prior
    <3>1. Prior[w].support \in Nat
      BY <1>2, <2>2, VariantType DEF ReportContext
    <3>2. Cardinality(PriorVoters(w)) \in Nat
      BY VotersFinite, FS_EmptySet DEF PriorVoters
    <3>3. lastReportRefSlot = CurrentFrame.refSlot
      BY <2>2 DEF Prior, PriorVariants
    <3>4. Prior = reportVariants /\ PriorVoters(w) = Voters(w)
          /\ IsOpen /\ lastReportRefSlot = RefSlot
      BY <1>2, <3>3 DEF Prior, PriorVariants, PriorVoters, ReportContext
    <3>5. Prior[w].support = Cardinality(PriorVoters(w))
      BY <2>2, <3>4 DEF EInv, OpenSupportIsExact
    <3>6. reportVariants'[w].support - Cardinality(Voters(w)')
            = Prior[w].support - Cardinality(PriorVoters(w))
      BY <1>0, <1>1, <1>2, <2>2, SurplusKept
    <3>7. reportVariants'[w].support \in Nat
      BY VariantType DEF OInv, TInv, TypeOK
    <3>8. Cardinality(Voters(w)') \in Nat
      <4>1. IsFiniteSet(PriorVoters(w))
        BY VotersFinite, FS_EmptySet DEF PriorVoters
      <4>2. IsFiniteSet(Voters(w)')
        BY <1>1, <4>1, FS_AddElement, FS_RemoveElement DEF ReportCounted, VoteMoves
      <4> QED BY <4>2, FS_CardinalityType
    <3> QED BY <3>1, <3>2, <3>5, <3>6, <3>7, <3>8
  <2> QED BY <2>1, <2>2
<1> QED BY <1>3 DEF OpenSupportIsExact

LEMMA ExactAfterAdding ==
  ASSUME EInv, OInv', NEW a \in Addresses, NEW q, AddMember(a, q),
         LastProcessingRefSlot' >= LastProcessingRefSlot
  PROVE  OpenSupportIsExact'
<1>1. MemberAdded(a)
  BY AddMemberAdded DEF EInv, BInv
<1>2. /\ lastReportRefSlot \in Nat /\ RefSlot \in Nat
      /\ LastProcessingRefSlot \in Nat /\ LastProcessingRefSlot' \in Nat
  BY RefSlotType
     DEF EInv, BInv, VInv, OInv, TInv, TypeOK, Register, LastProcessingRefSlot
<1>3. UNCHANGED <<lastReportRefSlot, reportVariants, RefSlot>>
  BY <1>1 DEF MemberAdded
<1> HIDE DEF RefSlot, LastProcessingRefSlot
<1>4. IsOpen' /\ lastReportRefSlot' = RefSlot' =>
        IsOpen /\ lastReportRefSlot = RefSlot /\ lastReportRefSlot > 0
  BY <1>2, <1>3 DEF IsOpen
<1> QED BY <1>1, <1>3, <1>4 DEF EInv, OpenSupportIsExact, MemberAdded

LEMMA ExactAfterRemoval ==
  ASSUME EInv, OInv', NEW a \in Addresses, NEW q, RemoveMember(a, q),
         LastProcessingRefSlot' >= LastProcessingRefSlot
  PROVE  OpenSupportIsExact'
<1>0. VInv
  BY DEF EInv, BInv
<1>1. MemberRemoved(a)
  BY <1>0, RemoveMemberRemoved
<1>2. /\ lastReportRefSlot \in Nat /\ RefSlot \in Nat
      /\ LastProcessingRefSlot \in Nat /\ LastProcessingRefSlot' \in Nat
  BY RefSlotType
     DEF EInv, BInv, VInv, OInv, TInv, TypeOK, Register, LastProcessingRefSlot
<1>3. UNCHANGED <<lastReportRefSlot, RefSlot>>
      /\ DOMAIN reportVariants' = DOMAIN reportVariants
  BY <1>1 DEF MemberRemoved
<1>4. IsOpen' /\ lastReportRefSlot' = RefSlot' => IsOpen /\ lastReportRefSlot = RefSlot
  <2> HIDE DEF RefSlot, LastProcessingRefSlot
  <2> QED BY <1>2, <1>3 DEF IsOpen
<1>5. ASSUME IsOpen, lastReportRefSlot = RefSlot, NEW w \in DOMAIN reportVariants
      PROVE  reportVariants'[w].support = Cardinality(Voters(w)')
  <2>1. reportVariants[w].support \in Nat /\ reportVariants'[w].support \in Nat
    BY <1>3, <1>5, VariantType DEF EInv, BInv, VInv, OInv, TInv, TypeOK
  <2>2. Cardinality(Voters(w)) \in Nat /\ IsFiniteSet(Voters(w))
    BY VotersFinite
  <2>3. Cardinality(Voters(w)') \in Nat
    <3>1. Voters(w)' \subseteq Voters(w)
      BY <1>1 DEF MemberRemoved
    <3> QED BY <2>2, <3>1, FS_Subset, FS_CardinalityType
  <2>4. reportVariants[w].support = Cardinality(Voters(w))
    BY <1>5 DEF EInv, OpenSupportIsExact
  <2>5. reportVariants'[w].support - Cardinality(Voters(w)')
          = reportVariants[w].support - Cardinality(Voters(w))
    BY <1>0, <1>1, <1>5, SurplusAfterRemoval
  <2> QED BY <2>1, <2>2, <2>3, <2>4, <2>5
<1> HIDE DEF IsOpen, RefSlot
<1> QED BY <1>3, <1>4, <1>5 DEF OpenSupportIsExact

LEMMA InitEInv ==
  Init => EInv
<1> SUFFICES ASSUME Init PROVE EInv
  OBVIOUS
<1>1. DOMAIN reportVariants = {}
  BY DEF Init
<1> QED BY <1>1, InitBInv DEF EInv, OpenSupportIsExact

LEMMA NextEInv ==
  EInv /\ BInv' /\ [Next]_vars /\ LastProcessingRefSlot' >= LastProcessingRefSlot
    => EInv'
<1> SUFFICES ASSUME EInv, BInv', [Next]_vars,
                    LastProcessingRefSlot' >= LastProcessingRefSlot
             PROVE  EInv'
  OBVIOUS
<1>1. OInv /\ OInv' /\ TInv' /\ RefSlot' >= RefSlot
  BY NextRefSlot DEF EInv, BInv, VInv, OInv, RefSlotStep
<1>2. ASSUME UNCHANGED <<memberStates, memberIndices1b, lastReportRefSlot,
                         reportVariants>>
      PROVE  OpenSupportIsExact'
  BY <1>1, <1>2, ExactWhileUntouched
<1>3. ASSUME NEW m \in Addresses, NEW h \in Hashes, SubmitReport(m, h)
      PROVE  OpenSupportIsExact'
  BY <1>1, <1>3, ExactAfterReport
<1>4. ASSUME NEW a \in Addresses, NEW q \in Quorums, AddMember(a, q)
      PROVE  OpenSupportIsExact'
  BY <1>1, <1>4, ExactAfterAdding
<1>5. ASSUME NEW a \in Addresses, NEW q \in Quorums, RemoveMember(a, q)
      PROVE  OpenSupportIsExact'
  BY <1>1, <1>5, ExactAfterRemoval
<1>6. OpenSupportIsExact'
  BY <1>2, <1>3, <1>4, <1>5
     DEF Next, vars, memberVars, SetQuorum, DisableConsensus,
         SetReportProcessor, UpdateInitialEpoch, SetFrameConfig,
         SetFastLaneLengthSlots, ReconfigureFrames, Tick, ProcessReport
<1> QED BY <1>6 DEF EInv

(* As long as no closed slot is opened again, the counters of the open     *)
(* slot count exactly the votes of the current members.                    *)
THEOREM SupportExact == Spec /\ ProcessedSlotStays => []OpenSupportIsExact
<1>1. EInv /\ BInv' /\ [Next]_vars
        /\ [LastProcessingRefSlot' >= LastProcessingRefSlot]_vars => EInv'
  <2>1. CASE UNCHANGED vars
    <3>1. EInv /\ BInv' /\ [Next]_vars /\ UNCHANGED vars => LastProcessingRefSlot' >= LastProcessingRefSlot
      BY DEF EInv, BInv, VInv, OInv, TInv, TypeOK, vars, consensusVars,
             LastProcessingRefSlot, Register
    <3> QED BY <2>1, <3>1, NextEInv
  <2> QED BY <2>1, NextEInv
<1>2. EInv => OpenSupportIsExact
  BY DEF EInv
<1> QED
  BY <1>1, <1>2, InitEInv, BaseInvariance, PTL DEF Spec, ProcessedSlotStays

-----------------------------------------------------------------------------
(* Contract and processor agree on the open slot *)

(* The processing deadline of the current frame is never behind: whoever   *)
(* checks the consensus does check it.                                     *)
LEMMA DeadlineAhead ==
  ASSUME TypeOK, HasCurrentFrame, FrameComputable(frameConfig)
  PROVE  /\ CurrentSlot <= CurrentFrame.reportProcessingDeadlineSlot
         /\ CurrentFrame.refSlot < CurrentSlot
         /\ CurrentFrame.reportProcessingDeadlineSlot =
              CurrentFrame.refSlot + frameConfig.epochsPerFrame * SLOTS_PER_EPOCH
BY FrameSpan DEF TypeOK, HasCurrentFrame, CurrentFrame, CurrentSlot

(* The processor holds no report of a slot that is still to come.          *)
HeldReportIsPast ==
  oracle[reportProcessor].hash # NoHash =>
    oracle[reportProcessor].refSlot <= RefSlot

(* While the slot is open, the recorded consensus is one of a variant with *)
(* a quorum of support, and none is recorded only if no variant has it.    *)
ConsensusIsRecorded ==
  IsOpen /\ lastReportRefSlot = RefSlot =>
    IF lastConsensusRefSlot = RefSlot
      THEN reportVariants[lastConsensusVariantIndex].support >= quorum
      ELSE \A v \in DOMAIN reportVariants : reportVariants[v].support < quorum

SInv ==
  /\ EInv
  /\ HeldReportIsPast
  /\ ProcessorInSync
  /\ ConsensusIsRecorded

LEMMA SInvTypes ==
  ASSUME SInv
  PROVE  /\ OInv /\ TypeOK /\ VInv /\ BInv
         /\ RefSlot \in Nat /\ lastReportRefSlot \in Nat
         /\ lastConsensusRefSlot \in Nat /\ quorum \in Nat
         /\ lastConsensusRefSlot <= lastReportRefSlot /\ lastReportRefSlot <= RefSlot
         /\ reportProcessor \in Processors
         /\ oracle \in [Processors -> Register(Hashes)]
         /\ oracle[reportProcessor] \in Register(Hashes)
         /\ LastProcessingRefSlot \in Nat
         /\ IsOpen => RefSlot > 0
         /\ lastConsensusRefSlot = RefSlot /\ RefSlot > 0 =>
              /\ lastReportRefSlot = RefSlot
              /\ lastConsensusVariantIndex \in DOMAIN reportVariants
<1>1. OInv /\ TypeOK /\ VInv /\ BInv
  BY DEF SInv, EInv, BInv, VInv, OInv, TInv
<1>2. /\ RefSlot \in Nat /\ lastReportRefSlot \in Nat
      /\ lastConsensusRefSlot \in Nat /\ quorum \in Nat
      /\ reportProcessor \in Processors
      /\ oracle \in [Processors -> Register(Hashes)]
  BY <1>1, RefSlotType DEF OInv, TypeOK
<1>3. /\ lastConsensusRefSlot <= lastReportRefSlot /\ lastReportRefSlot <= RefSlot
      /\ lastConsensusRefSlot > 0 /\ lastConsensusRefSlot = lastReportRefSlot =>
           lastConsensusVariantIndex \in DOMAIN reportVariants
  BY <1>1 DEF OInv, ReportingStateOrdered
<1>4. oracle[reportProcessor] \in Register(Hashes) /\ LastProcessingRefSlot \in Nat
  BY <1>2 DEF Register, LastProcessingRefSlot
<1> HIDE DEF RefSlot, LastProcessingRefSlot
<1>5. IsOpen => RefSlot > 0
  BY <1>2, <1>4 DEF IsOpen
<1>6. lastConsensusRefSlot = RefSlot /\ RefSlot > 0 =>
        /\ lastReportRefSlot = RefSlot
        /\ lastConsensusVariantIndex \in DOMAIN reportVariants
  BY <1>2, <1>3
<1> QED BY <1>1, <1>2, <1>3, <1>4, <1>5, <1>6

(* At most one variant of an open slot has a quorum of support.            *)
LEMMA OneWinner ==
  ASSUME SInv, IsOpen, lastReportRefSlot = RefSlot,
         NEW v \in DOMAIN reportVariants, NEW w \in DOMAIN reportVariants,
         reportVariants[v].support >= quorum, reportVariants[w].support >= quorum
  PROVE  v = w
<1>1. RefSlot > 0 /\ quorum \in Nat /\ BInv
  BY SInvTypes
<1>2. quorum > 0
  BY <1>1 DEF BInv, QuorumIsMajority
<1>3. Cardinality(Voters(v)) >= quorum /\ Cardinality(Voters(w)) >= quorum
  BY DEF SInv, EInv, OpenSupportIsExact
<1> QED BY <1>1, <1>2, <1>3, QuorumsMeet

(* What reaching and losing the consensus does to the processor.           *)
LEMMA ReachedEffect ==
  ASSUME TypeOK, UNCHANGED reportProcessor, NEW frame, NEW hash, NEW v,
         ConsensusReached(frame, hash, v)
  PROVE  /\ lastConsensusRefSlot' = frame.refSlot
         /\ lastConsensusVariantIndex' = v
         /\ UNCHANGED LastProcessingRefSlot
         /\ \/ /\ UNCHANGED oracle
               /\ lastConsensusRefSlot = frame.refSlot
               /\ lastConsensusVariantIndex = v
            \/ /\ hash # NoHash
               /\ oracle'[reportProcessor].hash = hash
               /\ oracle'[reportProcessor].refSlot = frame.refSlot
<1> DEFINE p == reportProcessor
           deadline == ComputeTimestampAtSlot(frame.reportProcessingDeadlineSlot)
<1>1. p \in Processors /\ oracle[p] \in Register(Hashes)
      /\ oracle \in [Processors -> Register(Hashes)]
  BY DEF TypeOK
<1>2. CASE UNCHANGED consensusVars /\ lastConsensusRefSlot = frame.refSlot
           /\ lastConsensusVariantIndex = v
  BY <1>2 DEF consensusVars, LastProcessingRefSlot
<1>3. CASE /\ lastConsensusRefSlot' = frame.refSlot
           /\ lastConsensusVariantIndex' = v
           /\ SubmitReportForProcessing(p, frame, hash)
  <2>1. /\ oracle' = [oracle EXCEPT ![p] =
                        SubmitConsensusReport(@, hash, frame.refSlot, deadline)]
        /\ hash # NoHash
    BY <1>3 DEF SubmitReportForProcessing, CanSubmitConsensusReport
  <2> HIDE DEF deadline, p
  <2>2. oracle'[p] = SubmitConsensusReport(oracle[p], hash, frame.refSlot, deadline)
    BY <1>1, <2>1
  <2>3. /\ oracle'[p].hash = hash /\ oracle'[p].refSlot = frame.refSlot
        /\ oracle'[p].lastProcessingRefSlot = oracle[p].lastProcessingRefSlot
    BY <1>1, <2>2 DEF SubmitConsensusReport, Register
  <2> QED BY <1>3, <2>1, <2>3 DEF p, LastProcessingRefSlot
<1> QED BY <1>2, <1>3 DEF ConsensusReached

LEMMA NotReachedEffect ==
  ASSUME TypeOK, UNCHANGED reportProcessor, NEW frame, ConsensusNotReached(frame)
  PROVE  /\ UNCHANGED <<lastConsensusVariantIndex, LastProcessingRefSlot>>
         /\ lastConsensusRefSlot # frame.refSlot => UNCHANGED consensusVars
         /\ lastConsensusRefSlot = frame.refSlot =>
              /\ lastConsensusRefSlot' = 0
              /\ \/ oracle'[reportProcessor].hash = NoHash
                 \/ UNCHANGED oracle /\ oracle[reportProcessor].refSlot < frame.refSlot
              /\ oracle'[reportProcessor].refSlot = oracle[reportProcessor].refSlot
<1> DEFINE p == reportProcessor
<1>1. p \in Processors /\ oracle[p] \in Register(Hashes)
      /\ oracle \in [Processors -> Register(Hashes)]
  BY DEF TypeOK
<1>2. CASE lastConsensusRefSlot # frame.refSlot
  BY <1>2 DEF ConsensusNotReached, consensusVars, LastProcessingRefSlot
<1>3. CASE lastConsensusRefSlot = frame.refSlot
  <2>1. /\ lastConsensusRefSlot' = 0 /\ UNCHANGED lastConsensusVariantIndex
        /\ oracle' = [oracle EXCEPT ![p] = DiscardConsensusReport(@, frame.refSlot)]
    BY <1>3 DEF ConsensusNotReached, CancelReportProcessing
  <2>2. oracle'[p] = DiscardConsensusReport(oracle[p], frame.refSlot)
    BY <1>1, <2>1
  <2>3. CASE frame.refSlot > oracle[p].refSlot
    <3>1. UNCHANGED oracle
      BY <1>1, <2>1, <2>3 DEF DiscardConsensusReport
    <3>2. oracle[p].refSlot < frame.refSlot
      BY <2>3
    <3> QED BY <1>3, <2>1, <3>1, <3>2 DEF LastProcessingRefSlot
  <2>4. CASE ~(frame.refSlot > oracle[p].refSlot)
    <3>1. oracle'[p] = [oracle[p] EXCEPT !.hash = NoHash]
      BY <2>2, <2>4 DEF DiscardConsensusReport
    <3>2. /\ oracle'[p].hash = NoHash
          /\ oracle'[p].refSlot = oracle[p].refSlot
          /\ oracle'[p].lastProcessingRefSlot = oracle[p].lastProcessingRefSlot
      BY <1>1, <3>1 DEF Register
    <3> QED BY <1>3, <2>1, <3>2 DEF LastProcessingRefSlot
  <2> QED BY <2>3, <2>4
<1> QED BY <1>2, <1>3

InSync == ProcessorInSync /\ HeldReportIsPast

(* The three outcomes of a call keep contract and processor in step, if    *)
(* the variants keep their hashes.                                         *)
LEMMA SyncAfterReached ==
  ASSUME SInv, UNCHANGED <<reportProcessor, RefSlot>>, RefSlot > 0,
         NEW frame, frame.refSlot = RefSlot, NEW hash, NEW v,
         ConsensusReached(frame, hash, v),
         reportVariants'[v].hash = hash,
         lastConsensusRefSlot = RefSlot =>
           reportVariants'[lastConsensusVariantIndex].hash
             = reportVariants[lastConsensusVariantIndex].hash
  PROVE  InSync'
<1>0. TypeOK /\ RefSlot \in Nat
  BY SInvTypes
<1>1. /\ lastConsensusRefSlot' = RefSlot' /\ lastConsensusVariantIndex' = v
      /\ RefSlot' = RefSlot /\ reportProcessor' = reportProcessor
      /\ \/ /\ UNCHANGED oracle
            /\ lastConsensusRefSlot = RefSlot
            /\ lastConsensusVariantIndex = v
         \/ /\ hash # NoHash
            /\ oracle'[reportProcessor].hash = hash
            /\ oracle'[reportProcessor].refSlot = RefSlot
  BY <1>0, ReachedEffect
<1> HIDE DEF RefSlot
<1> QED BY <1>0, <1>1 DEF SInv, ProcessorInSync, HeldReportIsPast, InSync

LEMMA SyncAfterNotReached ==
  ASSUME SInv, UNCHANGED <<reportProcessor, RefSlot>>, RefSlot > 0,
         NEW frame, frame.refSlot = RefSlot, ConsensusNotReached(frame)
  PROVE  InSync'
<1>0. TypeOK /\ RefSlot \in Nat /\ oracle[reportProcessor] \in Register(Hashes)
  BY SInvTypes
<1>1. RefSlot' = RefSlot /\ reportProcessor' = reportProcessor
  OBVIOUS
<1> HIDE DEF RefSlot
<1>2. CASE lastConsensusRefSlot # RefSlot
  <2>1. UNCHANGED <<oracle, lastConsensusRefSlot>>
    BY <1>0, <1>2, NotReachedEffect DEF consensusVars
  <2> QED BY <1>1, <1>2, <2>1 DEF SInv, ProcessorInSync, HeldReportIsPast, InSync
<1>3. CASE lastConsensusRefSlot = RefSlot
  <2>1. /\ lastConsensusRefSlot' = 0
        /\ \/ oracle'[reportProcessor].hash = NoHash
           \/ UNCHANGED oracle /\ oracle[reportProcessor].refSlot < RefSlot
        /\ oracle'[reportProcessor].refSlot = oracle[reportProcessor].refSlot
    BY <1>0, <1>3, NotReachedEffect
  <2>2. oracle[reportProcessor].refSlot = RefSlot
    BY <1>3 DEF SInv, ProcessorInSync
  <2>3. oracle'[reportProcessor].hash = NoHash
    BY <1>0, <2>1, <2>2
  <2> QED BY <1>0, <1>1, <2>1, <2>3 DEF ProcessorInSync, HeldReportIsPast, InSync
<1> QED BY <1>2, <1>3

LEMMA SyncUntouched ==
  ASSUME SInv, OInv', UNCHANGED <<reportProcessor, consensusVars>>,
         RefSlot' >= RefSlot,
         lastConsensusRefSlot = RefSlot /\ RefSlot > 0 =>
           reportVariants'[lastConsensusVariantIndex].hash
             = reportVariants[lastConsensusVariantIndex].hash
  PROVE  InSync'
<1>0. /\ RefSlot \in Nat /\ lastConsensusRefSlot \in Nat
      /\ lastConsensusRefSlot <= RefSlot
      /\ oracle[reportProcessor] \in Register(Hashes)
  BY SInvTypes
<1>1. RefSlot' \in Nat
  BY FrameType
     DEF OInv, TInv, TypeOK, RefSlot, HasCurrentFrame, CurrentFrame, FrameComputable
<1>2. UNCHANGED <<oracle, lastConsensusRefSlot, lastConsensusVariantIndex,
                  reportProcessor>>
  BY DEF consensusVars
<1> DEFINE o == oracle[reportProcessor]
<1>3. o' = o /\ o.refSlot \in Nat
  BY <1>0, <1>2 DEF Register
<1> HIDE DEF RefSlot, o
<1>4. o.hash # NoHash => o.refSlot <= RefSlot
  BY DEF SInv, HeldReportIsPast, o
<1>5. HeldReportIsPast'
  <2>1. o.hash # NoHash => o.refSlot <= RefSlot'
    BY <1>0, <1>1, <1>3, <1>4
  <2> QED BY <1>3, <2>1 DEF HeldReportIsPast, o
<1>6. CASE RefSlot' = RefSlot
  BY <1>2, <1>5, <1>6 DEF SInv, ProcessorInSync, InSync
<1>7. CASE RefSlot' # RefSlot
  <2>1. lastConsensusRefSlot' # RefSlot'
    BY <1>0, <1>1, <1>2, <1>7
  <2>2. ~(o'.hash # NoHash /\ o'.refSlot = RefSlot')
    BY <1>0, <1>1, <1>3, <1>4, <1>7
  <2> QED BY <1>5, <2>1, <2>2 DEF ProcessorInSync, InSync, o
<1> QED BY <1>6, <1>7

(* A call that checks the consensus anew with the quorum it sets.          *)
LEMMA CheckAgrees ==
  ASSUME SInv, OInv', NEW q \in Nat, NEW n,
         SetQuorumAndCheckConsensus(q, n, reportVariants'),
         UNCHANGED <<now, frameConfig, lastReportRefSlot, reportProcessor>>,
         DOMAIN reportVariants' = DOMAIN reportVariants,
         \A w \in DOMAIN reportVariants :
           reportVariants'[w].hash = reportVariants[w].hash
  PROVE  InSync' /\ ConsensusIsRecorded' /\ UNCHANGED LastProcessingRefSlot
<1> DEFINE frame == CurrentFrame
<1>0. /\ OInv /\ TypeOK /\ RefSlot \in Nat /\ lastReportRefSlot \in Nat
      /\ LastProcessingRefSlot \in Nat
      /\ lastConsensusRefSlot = RefSlot /\ RefSlot > 0 =>
           /\ lastReportRefSlot = RefSlot
           /\ lastConsensusVariantIndex \in DOMAIN reportVariants
  BY SInvTypes
<1>1. /\ UNCHANGED <<RefSlot, reportProcessor, lastReportRefSlot>>
      /\ quorum' = q
  BY DEF RefSlot, HasCurrentFrame, CurrentFrame, SetQuorumAndCheckConsensus
<1>2. lastConsensusRefSlot = RefSlot /\ RefSlot > 0 =>
        reportVariants'[lastConsensusVariantIndex].hash
          = reportVariants[lastConsensusVariantIndex].hash
  BY <1>0
<1>3. ASSUME NEW v \in DOMAIN reportVariants'
      PROVE  reportVariants'[v].support \in Nat
  BY <1>3, VariantType DEF OInv, TInv, TypeOK
<1>4. CASE ~HasCurrentFrame \/ LastProcessingRefSlot >= RefSlot
  <2>1. UNCHANGED consensusVars
    BY <1>4 DEF SetQuorumAndCheckConsensus, CheckConsensus, RefSlot
  <2>2. InSync'
    BY <1>0, <1>1, <1>2, <2>1, SyncUntouched
  <2>3. UNCHANGED LastProcessingRefSlot
    BY <1>1, <2>1 DEF consensusVars, LastProcessingRefSlot
  <2>4. ~HasCurrentFrame => RefSlot = 0
    BY DEF RefSlot
  <2>5. ~IsOpen'
    <3> HIDE DEF RefSlot, LastProcessingRefSlot
    <3> QED BY <1>0, <1>1, <1>4, <2>3, <2>4 DEF IsOpen
  <2> QED BY <2>2, <2>3, <2>5 DEF ConsensusIsRecorded
<1>5. CASE HasCurrentFrame /\ LastProcessingRefSlot < RefSlot
  <2>1. /\ frame.refSlot = RefSlot /\ RefSlot > 0
        /\ CurrentSlot <= frame.reportProcessingDeadlineSlot
    <3>1. RefSlot > 0
      BY <1>0, <1>5
    <3> QED BY <1>0, <1>5, <3>1, DeadlineAhead DEF OInv, RefSlot
  <2>2. CheckConsensus(q, reportVariants')
    BY <1>5 DEF SetQuorumAndCheckConsensus
  <2>3. CurrentSlot \in Nat /\ frame.reportProcessingDeadlineSlot \in Nat
    BY <1>0, <1>5, EpochType, CurrentFrameType DEF OInv, TypeOK, CurrentSlot
  <2>4. \/ /\ Winners(reportVariants', RefSlot, q) = {}
           /\ ConsensusNotReached(frame)
        \/ \E v \in Winners(reportVariants', RefSlot, q) :
             ConsensusReached(frame, reportVariants'[v].hash, v)
    <3> HIDE DEF LastProcessingRefSlot, RefSlot, CurrentFrame, CurrentSlot
    <3> QED BY <1>0, <1>5, <2>1, <2>2, <2>3 DEF CheckConsensus
  <2> HIDE DEF frame
  <2>5. CASE /\ Winners(reportVariants', RefSlot, q) = {}
             /\ ConsensusNotReached(frame)
    <3>1. InSync'
      BY <1>1, <2>1, <2>5, SyncAfterNotReached
    <3>2. /\ UNCHANGED LastProcessingRefSlot
          /\ lastConsensusRefSlot' # RefSlot
      BY <1>0, <1>1, <2>1, <2>5, NotReachedEffect DEF consensusVars
    <3>3. lastReportRefSlot = RefSlot =>
            \A v \in DOMAIN reportVariants' : ~(reportVariants'[v].support >= q)
      BY <2>5 DEF Winners
    <3>4. lastReportRefSlot = RefSlot =>
            \A v \in DOMAIN reportVariants' : reportVariants'[v].support < q
      BY <1>3, <3>3
    <3> HIDE DEF RefSlot, LastProcessingRefSlot
    <3> QED BY <1>1, <3>1, <3>2, <3>4 DEF ConsensusIsRecorded
  <2>6. CASE \E v \in Winners(reportVariants', RefSlot, q) :
               ConsensusReached(frame, reportVariants'[v].hash, v)
    <3>1. PICK v \in Winners(reportVariants', RefSlot, q) :
            ConsensusReached(frame, reportVariants'[v].hash, v)
      BY <2>6
    <3>2. InSync'
      BY <1>1, <1>2, <2>1, <3>1, SyncAfterReached
    <3>3. /\ UNCHANGED LastProcessingRefSlot
          /\ lastConsensusRefSlot' = RefSlot
          /\ lastConsensusVariantIndex' = v
      BY <1>0, <1>1, <2>1, <3>1, ReachedEffect
    <3>4. reportVariants'[v].support >= q
      BY <3>1 DEF Winners
    <3> HIDE DEF RefSlot, LastProcessingRefSlot
    <3> QED BY <1>1, <3>2, <3>3, <3>4 DEF ConsensusIsRecorded
  <2> QED BY <2>4, <2>5, <2>6
<1>6. LastProcessingRefSlot >= RefSlot \/ LastProcessingRefSlot < RefSlot
  BY <1>0
<1> QED BY <1>4, <1>5, <1>6

(* A report moves one vote; the contract looks at the two variants it      *)
(* concerns, and that is enough.                                           *)
LEMMA ReportAgrees ==
  ASSUME SInv, OInv', NEW m \in Addresses, NEW h \in Hashes, SubmitReport(m, h)
  PROVE  InSync' /\ ConsensusIsRecorded' /\ UNCHANGED LastProcessingRefSlot
<1> DEFINE frame == CurrentFrame
<1>0. /\ OInv /\ TypeOK /\ VInv /\ RefSlot \in Nat /\ lastReportRefSlot \in Nat
      /\ quorum \in Nat /\ lastConsensusRefSlot \in Nat
      /\ lastConsensusRefSlot <= lastReportRefSlot
      /\ lastConsensusRefSlot = RefSlot /\ RefSlot > 0 =>
           /\ lastReportRefSlot = RefSlot
           /\ lastConsensusVariantIndex \in DOMAIN reportVariants
  BY SInvTypes
<1>1. PICK v \in Nat : ReportCounted(m, h, v)
  BY <1>0, SubmitReportCounted
<1>2. /\ frame.refSlot = RefSlot /\ RefSlot > 0 /\ IsOpen
      /\ lastReportRefSlot' = RefSlot /\ lastReportRefSlot <= RefSlot
      /\ UNCHANGED <<reportProcessor, quorum, RefSlot>>
      /\ Prior \in Seq(Variant)
  BY <1>0, SubmitReportContext DEF ReportContext
<1>3. Prior = IF lastReportRefSlot = RefSlot THEN reportVariants ELSE <<>>
  BY <1>2 DEF Prior, PriorVariants
<1>4. /\ SupportMoves(m, h, v)
      /\ Reported(m) => v # PrevVariant(m) /\ PrevVariant(m) \in DOMAIN Prior
      /\ IF reportVariants'[v].support >= quorum
           THEN ConsensusReached(frame, h, v)
           ELSE IF Reported(m) /\ Prior[PrevVariant(m)].support = quorum
                  THEN ConsensusNotReached(frame)
                  ELSE UNCHANGED consensusVars
  BY <1>1 DEF ReportCounted, ConsensusFollows
<1> HIDE DEF frame, RefSlot, LastProcessingRefSlot, IsOpen
<1>5. lastConsensusRefSlot = RefSlot =>
        /\ lastConsensusVariantIndex \in DOMAIN Prior
        /\ Prior = reportVariants /\ lastReportRefSlot = RefSlot
  BY <1>0, <1>2, <1>3
<1>6. lastConsensusRefSlot = RefSlot =>
        reportVariants'[lastConsensusVariantIndex].hash
          = reportVariants[lastConsensusVariantIndex].hash
  BY <1>4, <1>5 DEF SupportMoves
<1>7. ASSUME NEW w \in DOMAIN Prior
      PROVE  Prior[w].support \in Nat
  BY <1>2, <1>7, VariantType
<1>8. ASSUME NEW w \in DOMAIN reportVariants'
      PROVE  reportVariants'[w].support \in Nat
  BY <1>8, VariantType DEF OInv, TInv, TypeOK
<1>9. CASE reportVariants'[v].support >= quorum
  <2>1. ConsensusReached(frame, h, v) /\ reportVariants'[v].hash = h
    BY <1>4, <1>9 DEF SupportMoves
  <2>2. InSync'
    BY <1>2, <1>6, <2>1, SyncAfterReached
  <2>3. /\ UNCHANGED LastProcessingRefSlot
        /\ lastConsensusRefSlot' = RefSlot
        /\ lastConsensusVariantIndex' = v
    BY <1>0, <1>2, <2>1, ReachedEffect
  <2> QED BY <1>2, <1>9, <2>2, <2>3 DEF ConsensusIsRecorded
<1>10. CASE /\ ~(reportVariants'[v].support >= quorum)
            /\ Reported(m) /\ Prior[PrevVariant(m)].support = quorum
  <2>1. ConsensusNotReached(frame)
    BY <1>4, <1>10
  <2>2. InSync'
    BY <1>2, <2>1, SyncAfterNotReached
  <2>3. UNCHANGED LastProcessingRefSlot /\ lastConsensusRefSlot' # RefSlot
    BY <1>0, <1>2, <2>1, NotReachedEffect DEF consensusVars
  <2>4. PrevVariant(m) \in DOMAIN Prior /\ v # PrevVariant(m)
        /\ Prior = reportVariants /\ lastReportRefSlot = RefSlot
    <3>1. PrevVariant(m) \in DOMAIN Prior /\ v # PrevVariant(m)
      BY <1>4, <1>10
    <3> QED BY <1>3, <3>1
  <2>5. ASSUME NEW w \in DOMAIN reportVariants'
        PROVE  reportVariants'[w].support < quorum
    <3>1. CASE w = v
      BY <1>0, <1>8, <1>10, <3>1
    <3>2. CASE w = PrevVariant(m)
      <4>1. reportVariants'[w].support = Prior[w].support - 1
        BY <1>4, <1>7, <1>10, <2>4, <3>2 DEF SupportMoves
      <4> QED BY <1>0, <1>7, <1>10, <2>4, <3>2, <4>1
    <3>3. CASE w # v /\ w # PrevVariant(m)
      <4>1. w \in DOMAIN Prior
        BY <1>4, <3>3 DEF SupportMoves
      <4>2. reportVariants'[w].support = Prior[w].support
        BY <1>4, <1>7, <3>3, <4>1 DEF SupportMoves
      <4>3. ~(Prior[w].support >= quorum)
        BY <1>0, <1>2, <1>10, <2>4, <3>3, <4>1, OneWinner
      <4> QED BY <1>0, <1>7, <4>1, <4>2, <4>3
    <3> QED BY <3>1, <3>2, <3>3
  <2> QED BY <1>2, <2>2, <2>3, <2>5 DEF ConsensusIsRecorded
<1>11. CASE /\ ~(reportVariants'[v].support >= quorum)
            /\ ~(Reported(m) /\ Prior[PrevVariant(m)].support = quorum)
  <2>1. UNCHANGED consensusVars
    BY <1>4, <1>11
  <2>2. InSync'
    BY <1>0, <1>2, <1>6, <2>1, SyncUntouched
  <2>3. /\ UNCHANGED LastProcessingRefSlot
        /\ UNCHANGED <<lastConsensusRefSlot, lastConsensusVariantIndex>>
    BY <1>2, <2>1 DEF consensusVars, LastProcessingRefSlot
  <2>4. ASSUME lastConsensusRefSlot = RefSlot
        PROVE  reportVariants'[lastConsensusVariantIndex].support >= quorum
    <3> DEFINE i == lastConsensusVariantIndex
    <3>1. i \in DOMAIN Prior /\ Prior = reportVariants /\ lastReportRefSlot = RefSlot
      BY <1>5, <2>4
    <3>2. Prior[i].support >= quorum
      BY <1>2, <2>4, <3>1 DEF SInv, ConsensusIsRecorded
    <3> HIDE DEF i
    <3>3. Prior[i].support \in Nat /\ reportVariants'[i].support = Prior[i].support
            + (IF i = v THEN 1 ELSE 0)
            - (IF Reported(m) /\ i = PrevVariant(m) THEN 1 ELSE 0)
      BY <1>4, <1>7, <3>1 DEF SupportMoves
    <3>4. ~(Reported(m) /\ i = PrevVariant(m) /\ Prior[i].support = quorum)
      BY <1>11
    <3>5. reportVariants'[i].support >= quorum
      BY <1>0, <3>2, <3>3, <3>4
    <3> QED BY <3>5 DEF i
  <2>5. ASSUME lastConsensusRefSlot # RefSlot, NEW w \in DOMAIN reportVariants'
        PROVE  reportVariants'[w].support < quorum
    <3>1. CASE w = v
      BY <1>0, <1>8, <1>11, <3>1
    <3>2. CASE w # v
      <4>1. w \in DOMAIN Prior
        BY <1>4, <3>2 DEF SupportMoves
      <4>2. Prior = reportVariants /\ lastReportRefSlot = RefSlot
        BY <1>3, <4>1
      <4>3. Prior[w].support < quorum
        BY <1>2, <2>5, <4>1, <4>2 DEF SInv, ConsensusIsRecorded
      <4>4. reportVariants'[w].support = Prior[w].support
              - (IF Reported(m) /\ w = PrevVariant(m) THEN 1 ELSE 0)
        BY <1>4, <1>7, <3>2, <4>1 DEF SupportMoves
      <4> QED BY <1>0, <1>7, <4>1, <4>3, <4>4
    <3> QED BY <3>1, <3>2
  <2> QED BY <1>2, <2>2, <2>3, <2>4, <2>5 DEF ConsensusIsRecorded
<1> QED BY <1>9, <1>10, <1>11

LEMMA ProcessedSlotMonotone ==
  ASSUME BInv, [Next]_vars, UNCHANGED reportProcessor
  PROVE  LastProcessingRefSlot' >= LastProcessingRefSlot
<1> DEFINE o == oracle[reportProcessor]
<1>1. /\ OInv /\ reportProcessor \in Processors /\ o \in Register(Hashes)
      /\ o.lastProcessingRefSlot <= o.refSlot
  BY DEF BInv, VInv, OInv, TInv, TypeOK, RegistersOrdered
<1>2. o.lastProcessingRefSlot \in Nat /\ o.refSlot \in Nat
  BY <1>1 DEF Register
<1>3. RegisterMoves(reportProcessor)
  BY <1>1, NextMoves
<1>4. o'.lastProcessingRefSlot >= o.lastProcessingRefSlot
  <2>1. oracle'[reportProcessor] = o'
    OBVIOUS
  <2> HIDE DEF o
  <2>2. \/ o' = o
        \/ o'.lastProcessingRefSlot = o.lastProcessingRefSlot
        \/ o' = [o EXCEPT !.hash = NoHash]
        \/ o' = [o EXCEPT !.lastProcessingRefSlot = o.refSlot]
    BY <1>3, <2>1
       DEF RegisterMoves, Submits, Discards, Starts, StartProcessing, o
  <2> QED BY <1>1, <1>2, <2>2 DEF Register
<1> QED BY <1>4 DEF LastProcessingRefSlot

(* A step that reports nothing and checks nothing.                         *)
LEMMA UntouchedAgrees ==
  ASSUME SInv, OInv', RefSlot' >= RefSlot,
         LastProcessingRefSlot' >= LastProcessingRefSlot,
         UNCHANGED <<lastReportRefSlot, lastConsensusRefSlot,
                     lastConsensusVariantIndex, quorum, reportVariants>>
  PROVE  ConsensusIsRecorded'
<1>1. /\ RefSlot \in Nat /\ LastProcessingRefSlot \in Nat
      /\ lastReportRefSlot \in Nat /\ lastReportRefSlot <= RefSlot
  BY SInvTypes
<1>2. RefSlot' \in Nat /\ LastProcessingRefSlot' \in Nat
  <2>1. RefSlot' \in Nat
    BY FrameType
       DEF OInv, TInv, TypeOK, RefSlot, HasCurrentFrame, CurrentFrame, FrameComputable
  <2>2. LastProcessingRefSlot' \in Nat
    BY DEF OInv, TInv, TypeOK, Register, LastProcessingRefSlot
  <2> QED BY <2>1, <2>2
<1>3. /\ lastReportRefSlot' = lastReportRefSlot
      /\ lastConsensusRefSlot' = lastConsensusRefSlot
      /\ lastConsensusVariantIndex' = lastConsensusVariantIndex
      /\ quorum' = quorum /\ reportVariants' = reportVariants
  OBVIOUS
<1> HIDE DEF RefSlot, LastProcessingRefSlot
<1>4. IsOpen' /\ lastReportRefSlot' = RefSlot' =>
        IsOpen /\ lastReportRefSlot = RefSlot /\ RefSlot' = RefSlot
  BY <1>1, <1>2, <1>3 DEF IsOpen
<1> QED BY <1>3, <1>4 DEF SInv, ConsensusIsRecorded

LEMMA ProcessingAgrees ==
  ASSUME SInv, OInv', NEW p \in Processors, ProcessReport(p)
  PROVE  InSync'
<1> DEFINE o == oracle[reportProcessor]
<1>1. oracle \in [Processors -> Register(Hashes)] /\ o \in Register(Hashes)
  BY SInvTypes
<1>2. /\ oracle' = [oracle EXCEPT ![p] = StartProcessing(@)]
      /\ UNCHANGED <<RefSlot, reportProcessor, lastConsensusRefSlot,
                     lastConsensusVariantIndex, reportVariants>>
  BY DEF ProcessReport, RefSlot, HasCurrentFrame, CurrentFrame
<1>3. o'.hash = o.hash /\ o'.refSlot = o.refSlot
  <2>1. o' = IF reportProcessor = p THEN StartProcessing(o) ELSE o
    BY <1>1, <1>2
  <2> HIDE DEF o
  <2> QED BY <1>1, <2>1 DEF StartProcessing, Register
<1> HIDE DEF RefSlot
<1> QED BY <1>2, <1>3 DEF SInv, ProcessorInSync, HeldReportIsPast, InSync

LEMMA InitSInv ==
  Init => SInv
<1> SUFFICES ASSUME Init PROVE SInv
  OBVIOUS
<1>1. oracle[reportProcessor].hash = NoHash /\ lastConsensusRefSlot = 0
      /\ DOMAIN reportVariants = {} /\ lastReportRefSlot = 0
  <2>1. PICK s \in InitialRefSlots : oracle[reportProcessor] = InitRegister(s)
    BY DEF Init
  <2> QED BY <2>1 DEF InitRegister, Init
<1>2. EInv
  BY InitEInv
<1>3. RefSlot \in Nat /\ LastProcessingRefSlot \in Nat
  BY <1>2, RefSlotType
     DEF EInv, BInv, VInv, OInv, TInv, TypeOK, Register, LastProcessingRefSlot
<1> HIDE DEF RefSlot, LastProcessingRefSlot
<1>4. RefSlot > 0 => lastConsensusRefSlot # RefSlot
  BY <1>1, <1>3
<1>5. ProcessorInSync /\ HeldReportIsPast
  BY <1>1, <1>4 DEF ProcessorInSync, HeldReportIsPast
<1>6. ConsensusIsRecorded
  BY <1>1, <1>3 DEF ConsensusIsRecorded, IsOpen
<1> QED BY <1>2, <1>5, <1>6 DEF SInv

LEMMA NextSInv ==
  SInv /\ BInv' /\ [Next]_vars /\ reportProcessor' = reportProcessor => SInv'
<1> SUFFICES ASSUME SInv, BInv', [Next]_vars, reportProcessor' = reportProcessor
             PROVE  SInv'
  OBVIOUS
<1>1. /\ OInv /\ OInv' /\ TInv' /\ RefSlot' >= RefSlot /\ BInv /\ VInv
      /\ LastProcessingRefSlot' >= LastProcessingRefSlot
  BY SInvTypes, NextRefSlot, ProcessedSlotMonotone
     DEF BInv, VInv, OInv, RefSlotStep
<1>2. EInv'
  BY <1>1, NextEInv DEF SInv
<1>3. ASSUME UNCHANGED <<consensusVars, lastReportRefSlot, quorum, reportVariants>>
      PROVE  InSync' /\ ConsensusIsRecorded'
  BY <1>1, <1>3, SyncUntouched, UntouchedAgrees DEF consensusVars
<1>4. ASSUME NEW m \in Addresses, NEW h \in Hashes, SubmitReport(m, h)
      PROVE  InSync' /\ ConsensusIsRecorded'
  BY <1>1, <1>4, ReportAgrees
<1>5. \A q \in Quorums \cup {UNREACHABLE_QUORUM} : q \in Nat
  BY HashConsensusAssumption
<1>6. ASSUME NEW a \in Addresses, NEW q \in Quorums, AddMember(a, q)
      PROVE  InSync' /\ ConsensusIsRecorded'
  <2>1. UNCHANGED <<now, frameConfig, lastReportRefSlot, reportVariants>>
        /\ SetQuorumAndCheckConsensus(q, TotalMembers + 1, reportVariants')
    BY <1>6 DEF AddMember
  <2>2. q \in Nat /\ DOMAIN reportVariants' = DOMAIN reportVariants
        /\ \A w \in DOMAIN reportVariants :
             reportVariants'[w].hash = reportVariants[w].hash
    BY <1>5, <2>1
  <2> QED BY <1>1, <2>1, <2>2, CheckAgrees
<1>7. ASSUME NEW a \in Addresses, NEW q \in Quorums, RemoveMember(a, q)
      PROVE  InSync' /\ ConsensusIsRecorded'
  <2>1. MemberRemoved(a)
    BY <1>1, <1>7, RemoveMemberRemoved
  <2>2. SetQuorumAndCheckConsensus(q, TotalMembers - 1, reportVariants')
    BY <1>7 DEF RemoveMember
  <2>3. /\ q \in Nat /\ UNCHANGED <<now, frameConfig, lastReportRefSlot>>
        /\ DOMAIN reportVariants' = DOMAIN reportVariants
        /\ \A w \in DOMAIN reportVariants :
             reportVariants'[w].hash = reportVariants[w].hash
    BY <1>5, <2>1 DEF MemberRemoved
  <2> QED BY <1>1, <2>2, <2>3, CheckAgrees
<1>8. ASSUME NEW q \in Nat, SetQuorum(q)
      PROVE  InSync' /\ ConsensusIsRecorded'
  <2>1. UNCHANGED <<now, frameConfig, lastReportRefSlot, reportVariants>>
        /\ SetQuorumAndCheckConsensus(q, TotalMembers, reportVariants')
    BY <1>8 DEF SetQuorum
  <2>2. DOMAIN reportVariants' = DOMAIN reportVariants
        /\ \A w \in DOMAIN reportVariants :
             reportVariants'[w].hash = reportVariants[w].hash
    BY <2>1
  <2> QED BY <1>1, <2>1, <2>2, CheckAgrees
<1>9. ASSUME NEW p \in Processors, ProcessReport(p)
      PROVE  InSync' /\ ConsensusIsRecorded'
  <2>1. UNCHANGED <<lastReportRefSlot, lastConsensusRefSlot,
                    lastConsensusVariantIndex, quorum, reportVariants>>
    BY <1>9 DEF ProcessReport
  <2> QED BY <1>1, <1>9, <2>1, ProcessingAgrees, UntouchedAgrees
<1>10. ASSUME NEW p \in Processors, SetReportProcessor(p) PROVE FALSE
  BY <1>10 DEF SetReportProcessor
<1>11. InSync' /\ ConsensusIsRecorded'
  BY <1>3, <1>4, <1>5, <1>6, <1>7, <1>8, <1>9, <1>10
     DEF Next, vars, DisableConsensus, UpdateInitialEpoch, SetFrameConfig,
         SetFastLaneLengthSlots, ReconfigureFrames, Tick
<1> QED BY <1>2, <1>11 DEF SInv, InSync

(* The recorded consensus is the one of the votes and the processor has it. *)
THEOREM SyncInvariance == Spec /\ ProcessorKept => []SInv
<1>1. SInv /\ BInv' /\ [Next]_vars /\ [reportProcessor' = reportProcessor]_vars
        => SInv'
  BY NextSInv DEF vars
<1> QED
  BY <1>1, InitSInv, BaseInvariance, PTL DEF Spec, ProcessorKept

(* The processor holds a report of the current slot exactly when the       *)
(* contract records a consensus for it, and it is the report agreed on,    *)
(* for any committee and any sequence of calls that keeps the processor.   *)
THEOREM InSyncWithProcessor == Spec /\ ProcessorKept => []ProcessorInSync
<1>1. SInv => ProcessorInSync
  BY DEF SInv
<1> QED BY <1>1, SyncInvariance, PTL

(* Whatever is changed after a report was agreed on, a report of the       *)
(* current slot that can still be processed has the votes of a quorum of   *)
(* the members of that moment.                                             *)
THEOREM ProcessableQuorum == Spec /\ ProcessorKept => []ProcessableHasQuorum
<1>1. SInv => ProcessableHasQuorum
  <2> SUFFICES ASSUME SInv,
                      CanStartProcessing(oracle[reportProcessor], now),
                      oracle[reportProcessor].refSlot = RefSlot
               PROVE  Cardinality(Voters(lastConsensusVariantIndex)) >= quorum
    BY DEF ProcessableHasQuorum
  <2> DEFINE o == oracle[reportProcessor]
  <2>1. /\ RefSlot \in Nat /\ o \in Register(Hashes) /\ reportProcessor \in Processors
        /\ lastConsensusRefSlot = RefSlot /\ RefSlot > 0 =>
             /\ lastReportRefSlot = RefSlot
             /\ lastConsensusVariantIndex \in DOMAIN reportVariants
    BY SInvTypes
  <2>2. o.hash # NoHash /\ o.lastProcessingRefSlot # o.refSlot
        /\ o.refSlot = RefSlot /\ o.lastProcessingRefSlot <= o.refSlot
        /\ o.lastProcessingRefSlot \in Nat
    BY <2>1 DEF CanStartProcessing, SInv, EInv, BInv, RegistersOrdered, Register
  <2>3. LastProcessingRefSlot = o.lastProcessingRefSlot
    BY DEF LastProcessingRefSlot
  <2> HIDE DEF RefSlot, LastProcessingRefSlot, o
  <2>4. IsOpen /\ RefSlot > 0
    BY <2>1, <2>2, <2>3 DEF IsOpen
  <2>5. lastConsensusRefSlot = RefSlot
    BY <2>2, <2>4 DEF SInv, ProcessorInSync, o
  <2>6. reportVariants[lastConsensusVariantIndex].support >= quorum
    BY <2>1, <2>4, <2>5 DEF SInv, ConsensusIsRecorded
  <2> QED BY <2>1, <2>4, <2>5, <2>6 DEF SInv, EInv, OpenSupportIsExact
<1> QED BY <1>1, SyncInvariance, PTL

-----------------------------------------------------------------------------
(* HashConsensus implements Committee *)

Closed == RefSlot > 0 /\ ~IsOpen

(* Counting the votes of the current members anew gives what the contract  *)
(* has recorded, as long as the slot is not closed.                        *)
TallyAgrees ==
  ~Closed /\ quorum > 0 => AgreedReport = Abstract!Tally(Votes, Members, quorum)

MInv ==
  /\ SInv
  /\ TallyAgrees
  /\ Cardinality(Members) = TotalMembers /\ TotalMembers \in Nat

LEMMA StateOfVoter ==
  ASSUME SInv, NEW a \in Members
  PROVE  /\ a \in Addresses /\ IsMember(a)
         /\ StateOf(a).lastReportRefSlot \in Nat
         /\ StateOf(a).lastReportRefSlot <= lastReportRefSlot
         /\ StateOf(a).lastReportRefSlot = RefSlot /\ RefSlot > 0 =>
              /\ lastReportRefSlot = RefSlot
              /\ StateOf(a).lastReportVariantIndex \in DOMAIN reportVariants
<1>1. VInv /\ TInv /\ RefSlot \in Nat /\ lastReportRefSlot \in Nat
      /\ lastReportRefSlot <= RefSlot
  BY SInvTypes DEF OInv
<1>2. a \in Addresses /\ IsMember(a) /\ StateOf(a) \in MemberState
  BY <1>1, StateOfMember DEF Members, StateOf
<1>3. /\ StateOf(a).lastReportRefSlot \in Nat
      /\ StateOf(a).lastReportRefSlot <= lastReportRefSlot
      /\ StateOf(a).lastReportRefSlot = lastReportRefSlot /\ lastReportRefSlot > 0
           => StateOf(a).lastReportVariantIndex \in DOMAIN reportVariants
  BY <1>1, <1>2 DEF VInv, SupportCoversVotes, MemberState
<1> HIDE DEF RefSlot
<1> QED BY <1>1, <1>2, <1>3

(* The supporters of a hash are the voters of its variant.                 *)
LEMMA SupportersAreVoters ==
  ASSUME SInv, NEW h \in Hashes
  PROVE  LET supporters == Abstract!Supporters(h, Votes, Members)
         IN  \/ supporters = {}
             \/ /\ RefSlot > 0 /\ lastReportRefSlot = RefSlot
                /\ \E w \in DOMAIN reportVariants :
                     reportVariants[w].hash = h /\ supporters = Voters(w)
<1> DEFINE supporters == {a \in Members : VoteOf(a) = h}
<1>1. Abstract!Supporters(h, Votes, Members) = supporters
  BY DEF Abstract!Supporters, Votes, Members
<1>2. NoHash # h
  BY HashConsensusAssumption
<1>3. \A a \in Members : VoteOf(a) = h <=>
        /\ RefSlot > 0 /\ StateOf(a).lastReportRefSlot = RefSlot
        /\ reportVariants[StateOf(a).lastReportVariantIndex].hash = h
  BY <1>2, StateOfVoter DEF VoteOf
<1> HIDE DEF RefSlot
<1>4. ASSUME supporters # {}
      PROVE  /\ RefSlot > 0 /\ lastReportRefSlot = RefSlot
             /\ \E w \in DOMAIN reportVariants :
                  reportVariants[w].hash = h /\ supporters = Voters(w)
  <2>1. PICK a \in Members : VoteOf(a) = h
    BY <1>4
  <2> DEFINE w == StateOf(a).lastReportVariantIndex
  <2>2. /\ RefSlot > 0 /\ lastReportRefSlot = RefSlot
        /\ w \in DOMAIN reportVariants /\ reportVariants[w].hash = h
    BY <1>3, <2>1, StateOfVoter
  <2> HIDE DEF w
  <2>3. ASSUME NEW b \in Members
        PROVE  VoteOf(b) = h <=> /\ StateOf(b).lastReportRefSlot = lastReportRefSlot
                                 /\ StateOf(b).lastReportVariantIndex = w
    <3>1. StateOf(b).lastReportRefSlot = RefSlot =>
            StateOf(b).lastReportVariantIndex \in DOMAIN reportVariants
      BY <2>2, StateOfVoter
    <3>2. \A x \in DOMAIN reportVariants : reportVariants[x].hash = h => x = w
      BY <2>2 DEF SInv, EInv, BInv, DistinctHashes
    <3> QED BY <1>3, <2>2, <3>1, <3>2
  <2>4. supporters = Voters(w)
    BY <2>3 DEF Voters
  <2> QED BY <2>2, <2>4
<1> QED BY <1>1, <1>4

(* The instance of Committee counts the way this module does.              *)
LEMMA SameCardinality ==
  ASSUME NEW S
  PROVE  Abstract!Cardinality(S) = Cardinality(S)
BY DEF Abstract!Cardinality, Cardinality

LEMMA TallyOfVotes ==
  ASSUME SInv
  PROVE  TallyAgrees
<1> SUFFICES ASSUME ~Closed, quorum > 0
             PROVE  AgreedReport = Abstract!Tally(Votes, Members, quorum)
  BY DEF TallyAgrees
<1> DEFINE Size(h) == Cardinality(Abstract!Supporters(h, Votes, Members))
           tally == IF \E h \in Hashes : Size(h) >= quorum
                      THEN CHOOSE h \in Hashes : Size(h) >= quorum ELSE NoHash
<1>0. /\ RefSlot \in Nat /\ quorum \in Nat /\ BInv /\ TypeOK
      /\ lastConsensusRefSlot = RefSlot /\ RefSlot > 0 =>
           /\ lastReportRefSlot = RefSlot
           /\ lastConsensusVariantIndex \in DOMAIN reportVariants
  BY SInvTypes
<1>1. Abstract!Tally(Votes, Members, quorum) = tally
  <2>1. \A h : Abstract!Cardinality(Abstract!Supporters(h, Votes, Members)) = Size(h)
    BY SameCardinality
  <2> QED BY <2>1 DEF Abstract!Tally
<1>2. ASSUME NEW h \in Hashes, Size(h) >= quorum
      PROVE  /\ RefSlot > 0 /\ lastReportRefSlot = RefSlot
             /\ \E w \in DOMAIN reportVariants :
                  /\ reportVariants[w].hash = h
                  /\ Cardinality(Voters(w)) >= quorum
  <2>1. Abstract!Supporters(h, Votes, Members) # {}
    <3>1. Cardinality({}) = 0
      BY FS_EmptySet
    <3> QED BY <1>0, <1>2, <3>1
  <2> QED BY <1>2, <2>1, SupportersAreVoters
<1> HIDE DEF tally, Size, RefSlot
<1>3. CASE RefSlot > 0 /\ lastConsensusRefSlot = RefSlot
  <2> DEFINE i == lastConsensusVariantIndex
             agreed == reportVariants[i].hash
  <2>1. i \in DOMAIN reportVariants /\ lastReportRefSlot = RefSlot /\ IsOpen
    BY <1>0, <1>3 DEF Closed
  <2>2. agreed \in Hashes /\ reportVariants \in Seq(Variant)
    BY <1>0, <2>1, VariantType DEF TypeOK
  <2>3. AgreedReport = agreed
    BY <1>3 DEF AgreedReport
  <2>4. Cardinality(Voters(i)) >= quorum
    BY <1>3, <2>1 DEF SInv, EInv, OpenSupportIsExact, ConsensusIsRecorded
  <2>5. Size(agreed) >= quorum
    <3>1. PICK a : a \in Voters(i)
      <4>1. Voters(i) # {}
        BY <1>0, <2>4, FS_EmptySet
      <4> QED BY <4>1
    <3>2. a \in Abstract!Supporters(agreed, Votes, Members)
      <4>1. a \in Members /\ VoteOf(a) = agreed
        BY <1>3, <2>1, <3>1 DEF Voters, VoteOf, Members
      <4> QED BY <4>1 DEF Abstract!Supporters, Votes, Members
    <3>3. PICK w \in DOMAIN reportVariants :
            /\ reportVariants[w].hash = agreed
            /\ Abstract!Supporters(agreed, Votes, Members) = Voters(w)
      BY <2>2, <3>2, SupportersAreVoters
    <3>4. w = i
      BY <1>0, <2>1, <3>3 DEF BInv, DistinctHashes
    <3> QED BY <2>4, <3>3, <3>4 DEF Size
  <2>6. ASSUME NEW h \in Hashes, Size(h) >= quorum PROVE h = agreed
    <3>1. PICK w \in DOMAIN reportVariants :
            reportVariants[w].hash = h /\ Cardinality(Voters(w)) >= quorum
      BY <1>2, <2>6
    <3>2. w = i
      BY <1>0, <2>4, <3>1, QuorumsMeet
    <3> QED BY <3>1, <3>2
  <2> HIDE DEF agreed
  <2>7. tally = agreed
    BY <2>2, <2>5, <2>6 DEF tally
  <2> QED BY <1>1, <2>3, <2>7
<1>4. CASE ~(RefSlot > 0 /\ lastConsensusRefSlot = RefSlot)
  <2>1. AgreedReport = NoHash
    BY <1>4 DEF AgreedReport
  <2>2. ASSUME NEW h \in Hashes, Size(h) >= quorum PROVE FALSE
    <3>1. RefSlot > 0 /\ lastReportRefSlot = RefSlot /\ IsOpen
      BY <1>2, <2>2 DEF Closed
    <3>2. PICK w \in DOMAIN reportVariants : Cardinality(Voters(w)) >= quorum
      BY <1>2, <2>2
    <3>3. reportVariants[w].support < quorum
      BY <1>4, <3>1 DEF SInv, ConsensusIsRecorded
    <3>4. reportVariants[w].support = Cardinality(Voters(w))
      BY <3>1 DEF SInv, EInv, OpenSupportIsExact
    <3> QED BY <1>0, <3>2, <3>3, <3>4, VotersFinite
  <2>3. tally = NoHash
    BY <2>2 DEF tally
  <2> QED BY <1>1, <2>1, <2>3
<1> QED BY <1>3, <1>4

LEMMA SInvMInv ==
  SInv => MInv
BY TallyOfVotes, MembersCounted, SInvTypes DEF MInv, OInv

LEMMA InitMaps ==
  ASSUME Init
  PROVE  Abstract!Init
<1>1. ~HasCurrentFrame
  <2>1. ComputeEpochAtTimestamp(GENESIS_TIME) = 0
    BY ChainSpecAssumption DEF ComputeEpochAtTimestamp, ComputeSlotAtTimestamp
  <2>2. frameConfig.initialEpoch = FarFutureEpoch /\ now = GENESIS_TIME
    BY DEF Init
  <2> QED BY <2>1, <2>2, HashConsensusAssumption DEF HasCurrentFrame, HasArrived
<1>2. RefSlot = 0
  BY <1>1 DEF RefSlot
<1>3. Members = {}
  BY DEF Init, Members, IsMember
<1>4. Votes = [a \in Addresses |-> NoHash]
  BY <1>2 DEF Votes, VoteOf
<1> QED
  BY <1>2, <1>3, <1>4 DEF Abstract!Init, Abstract!NoVotes, AgreedReport, Init

(* A report is a vote.                                                     *)
LEMMA SubmitReportMaps ==
  ASSUME MInv, MInv', NEW m \in Addresses, NEW h \in Hashes, SubmitReport(m, h)
  PROVE  Abstract!Vote(m, h)
<1>0. SInv /\ SInv' /\ OInv' /\ VInv /\ BInv' /\ BInv
  BY SInvTypes DEF MInv, SInv, EInv, BInv, VInv
<1>1. PICK v \in Nat : ReportCounted(m, h, v)
  BY <1>0, SubmitReportCounted
<1>2. ReportContext(m)
  BY <1>0, SubmitReportContext
<1>3. /\ CurrentFrame.refSlot = RefSlot /\ RefSlot > 0 /\ IsOpen /\ m \in Members
      /\ RefSlot' = RefSlot /\ quorum' = quorum
      /\ lastReportRefSlot' = RefSlot /\ lastReportRefSlot <= RefSlot
      /\ Prior \in Seq(Variant)
  BY <1>2 DEF ReportContext
<1>4. Prior = IF lastReportRefSlot = RefSlot THEN reportVariants ELSE <<>>
  BY <1>3 DEF Prior, PriorVariants
<1>5. /\ Members' = Members
      /\ StateOf(m)' = [lastReportRefSlot |-> RefSlot, lastReportVariantIndex |-> v]
      /\ \A a \in Members : a # m => StateOf(a)' = StateOf(a)
  BY <1>1, <1>3 DEF ReportCounted, VoteMoves
<1>6. /\ \A w \in DOMAIN Prior : reportVariants'[w].hash = Prior[w].hash
      /\ reportVariants'[v].hash = h
  BY <1>1 DEF ReportCounted, SupportMoves
<1>7. UNCHANGED LastProcessingRefSlot
  BY <1>0, ReportAgrees
<1>8. \A a \in Addresses : IsMember(a)' <=> a \in Members
  BY <1>5 DEF Members
<1>9. \A a \in Addresses : IsMember(a) <=> a \in Members
  BY DEF Members
<1>10. VoteOf(m) # h
  <2> SUFFICES ASSUME VoteOf(m) = h PROVE FALSE
    OBVIOUS
  <2> DEFINE w == PrevVariant(m)
  <2>1. NoHash # h
    BY HashConsensusAssumption
  <2>2. StateOf(m).lastReportRefSlot = RefSlot /\ reportVariants[w].hash = h
    BY <2>1 DEF VoteOf, PrevVariant
  <2>3. Reported(m) /\ w # v /\ w \in DOMAIN Prior
    BY <1>1, <1>3, <2>2 DEF Reported, ReportCounted
  <2>4. Prior[w].hash = h
    BY <1>4, <2>2, <2>3
  <2>5. StopsAt(v, Prior, h)
    BY <1>1 DEF ReportCounted
  <2>6. Len(Prior) \in Nat /\ DOMAIN Prior = 1 .. Len(Prior)
    BY <1>3, LenProperties
  <2>7. v \in 1 .. Len(Prior) /\ Prior[v].hash = h
    BY <2>3, <2>4, <2>5, <2>6 DEF StopsAt
  <2>8. \A x, y \in DOMAIN Prior : Prior[x].hash = Prior[y].hash => x = y
    BY <1>0, <1>4 DEF BInv, DistinctHashes
  <2> QED BY <2>3, <2>4, <2>6, <2>7, <2>8
<1> HIDE DEF RefSlot, LastProcessingRefSlot
<1>11. VoteOf(m)' = h
  <2>1. /\ IsMember(m)' /\ RefSlot' > 0
        /\ StateOf(m)'.lastReportRefSlot = RefSlot'
        /\ StateOf(m)'.lastReportVariantIndex = v
    BY <1>3, <1>5, <1>8
  <2> QED BY <1>6, <2>1 DEF VoteOf
<1>12. ASSUME NEW a \in Addresses, a # m PROVE VoteOf(a)' = VoteOf(a)
  <2>1. CASE a \in Members
    <3>1. /\ StateOf(a)' = StateOf(a) /\ IsMember(a)' /\ IsMember(a)
      BY <1>5, <1>8, <1>9, <1>12, <2>1
    <3>2. StateOf(a).lastReportRefSlot = RefSlot =>
            /\ StateOf(a).lastReportVariantIndex \in DOMAIN Prior
            /\ Prior = reportVariants
      BY <1>0, <1>3, <1>4, <2>1, StateOfVoter
    <3> QED BY <1>3, <1>6, <3>1, <3>2 DEF VoteOf
  <2>2. CASE a \notin Members
    BY <1>8, <1>9, <2>2 DEF VoteOf
  <2> QED BY <2>1, <2>2
<1>13. Votes' = [Votes EXCEPT ![m] = h]
  BY <1>11, <1>12 DEF Votes
<1>14. Votes[m] # h
  BY <1>10 DEF Votes
<1>15. ~Closed /\ ~Closed'
  BY <1>3, <1>7 DEF Closed, IsOpen
<1>16. quorum' > 0
  BY <1>0, <1>3, SInvTypes DEF BInv, QuorumIsMajority
<1>17. AgreedReport' = Abstract!Tally(Votes', Members', quorum')
  BY <1>15, <1>16 DEF MInv, TallyAgrees
<1> QED
  BY <1>3, <1>5, <1>13, <1>14, <1>15, <1>17
     DEF Abstract!Vote, Abstract!Recount, Closed

(* A call that adds or removes a member or sets the quorum reorganises the *)
(* committee.                                                              *)
LEMMA ReorganiseMaps ==
  ASSUME MInv, MInv', NEW q \in Nat,
         SetQuorumAndCheckConsensus(q, TotalMembers', reportVariants'),
         UNCHANGED <<now, frameConfig, lastReportRefSlot, reportProcessor>>,
         DOMAIN reportVariants' = DOMAIN reportVariants,
         \A w \in DOMAIN reportVariants :
           reportVariants'[w].hash = reportVariants[w].hash,
         Cardinality(Members' \ Members) + Cardinality(Members \ Members') <= 1,
         \A a \in Members \cap Members' : StateOf(a)' = StateOf(a),
         \A a \in Members' \ Members : StateOf(a)'.lastReportRefSlot = 0
  PROVE  Abstract!Reorganise
<1>0. /\ SInv /\ SInv' /\ OInv' /\ RefSlot \in Nat /\ LastProcessingRefSlot \in Nat
      /\ lastConsensusRefSlot = RefSlot /\ RefSlot > 0 =>
           lastConsensusVariantIndex \in DOMAIN reportVariants
      /\ TotalMembers' \in Nat /\ Cardinality(Members') = TotalMembers'
  BY SInvTypes DEF MInv, SInv, EInv, BInv, VInv
<1>1. UNCHANGED <<LastProcessingRefSlot, RefSlot>>
  BY <1>0, CheckAgrees DEF RefSlot, HasCurrentFrame, CurrentFrame
<1>2. quorum' = q /\ q > TotalMembers' \div 2
  BY DEF SetQuorumAndCheckConsensus
<1>3. TotalMembers' \div 2 \in Nat
  <2> DEFINE n == TotalMembers'
  <2>1. n \in Nat
    BY <1>0
  <2> HIDE DEF n
  <2>2. n \div 2 \in Nat
    BY <2>1, QuotientType
  <2> QED BY <2>2 DEF n
<1>4. Closed => UNCHANGED consensusVars
  <2> SUFFICES ASSUME Closed PROVE UNCHANGED consensusVars
    OBVIOUS
  <2>1. RefSlot > 0 /\ LastProcessingRefSlot >= RefSlot
    <3>1. RefSlot > 0 /\ ~(RefSlot > LastProcessingRefSlot)
      BY DEF Closed, IsOpen
    <3> HIDE DEF RefSlot, LastProcessingRefSlot
    <3> QED BY <1>0, <3>1
  <2>2. HasCurrentFrame /\ CurrentFrame.refSlot = RefSlot
    BY <2>1 DEF RefSlot
  <2> HIDE DEF RefSlot, LastProcessingRefSlot, CurrentFrame, HasCurrentFrame
  <2> QED BY <2>1, <2>2 DEF SetQuorumAndCheckConsensus, CheckConsensus
<1>5. \A a \in Addresses : IsMember(a) <=> a \in Members
  BY DEF Members
<1>6. \A a \in Addresses : IsMember(a)' <=> a \in Members'
  BY DEF Members
<1> HIDE DEF RefSlot, LastProcessingRefSlot
<1>7. (Closed' <=> Closed) /\ quorum' > 0
  <2>1. Closed' <=> Closed
    BY <1>1 DEF Closed, IsOpen
  <2>2. quorum' > 0
    BY <1>2, <1>3
  <2> QED BY <2>1, <2>2
<1>8. ASSUME NEW a \in Addresses
      PROVE  VoteOf(a)' = IF a \in Members' THEN VoteOf(a) ELSE NoHash
  <2>1. CASE a \notin Members'
    BY <1>6, <2>1 DEF VoteOf
  <2>2. CASE a \in Members' /\ a \notin Members
    <3>1. StateOf(a)'.lastReportRefSlot = 0 /\ ~IsMember(a)
      BY <1>5, <2>2
    <3> QED BY <1>1, <2>2, <3>1 DEF VoteOf
  <2>3. CASE a \in Members' /\ a \in Members
    <3>1. StateOf(a)' = StateOf(a) /\ IsMember(a)' /\ IsMember(a)
      BY <1>5, <1>6, <2>3
    <3>2. StateOf(a).lastReportRefSlot = RefSlot /\ RefSlot > 0 =>
            StateOf(a).lastReportVariantIndex \in DOMAIN reportVariants
      BY <1>0, <2>3, StateOfVoter
    <3> QED BY <1>1, <2>3, <3>1, <3>2 DEF VoteOf
  <2> QED BY <2>1, <2>2, <2>3
<1>9. Votes' = [a \in Addresses |-> IF a \in Members' THEN Votes[a] ELSE NoHash]
  BY <1>8 DEF Votes
<1>10. AgreedReport' = IF Closed THEN AgreedReport
                                 ELSE Abstract!Tally(Votes', Members', quorum')
  <2>1. CASE Closed
    BY <1>0, <1>1, <1>4, <2>1 DEF AgreedReport, consensusVars
  <2>2. CASE ~Closed
    BY <1>7, <2>2 DEF MInv, TallyAgrees
  <2> QED BY <2>1, <2>2
<1>11. quorum' \in Nat /\ quorum' > Abstract!Cardinality(Members') \div 2
  BY <1>0, <1>2, SameCardinality
<1>12. Abstract!Cardinality(Members' \ Members)
         + Abstract!Cardinality(Members \ Members') <= 1
  BY SameCardinality
<1>13. Members' \in SUBSET Addresses
  BY DEF Members
<1> QED
  BY <1>1, <1>7, <1>9, <1>10, <1>11, <1>12, <1>13
     DEF Abstract!Reorganise, Abstract!Recount, Closed

(* A step of the clock or of the frame configuration starts a new slot if  *)
(* it moves the reference slot, and is not noticed otherwise.              *)
LEMMA IdleMaps ==
  ASSUME MInv, MInv', RefSlot' >= RefSlot,
         UNCHANGED <<memberVars, lastReportRefSlot, consensusVars, quorum,
                     reportVariants, reportProcessor>>
  PROVE  Abstract!NewSlot \/ UNCHANGED Abstract!vars
<1>0. /\ SInv /\ RefSlot \in Nat /\ RefSlot' \in Nat
      /\ lastReportRefSlot <= RefSlot /\ lastReportRefSlot \in Nat
      /\ lastConsensusRefSlot \in Nat /\ lastConsensusRefSlot <= RefSlot
  <2>1. OInv'
    BY DEF MInv, SInv, EInv, BInv, VInv
  <2>2. RefSlot' \in Nat
    BY <2>1, FrameType
       DEF OInv, TInv, TypeOK, RefSlot, HasCurrentFrame, CurrentFrame, FrameComputable
  <2>3. /\ SInv /\ RefSlot \in Nat
        /\ lastReportRefSlot <= RefSlot /\ lastReportRefSlot \in Nat
        /\ lastConsensusRefSlot \in Nat /\ lastConsensusRefSlot <= lastReportRefSlot
    BY SInvTypes DEF MInv
  <2> HIDE DEF RefSlot
  <2> QED BY <2>2, <2>3
<1>1. /\ UNCHANGED <<oracle, lastConsensusRefSlot, lastConsensusVariantIndex,
                     Members, LastProcessingRefSlot>>
      /\ \A a \in Addresses : StateOf(a)' = StateOf(a) /\ IsMember(a)' = IsMember(a)
  BY DEF memberVars, consensusVars, Members, IsMember, StateOf, LastProcessingRefSlot
<1> HIDE DEF RefSlot, LastProcessingRefSlot
<1>2. CASE RefSlot' = RefSlot
  <2>1. Votes' = Votes
    BY <1>1, <1>2 DEF Votes, VoteOf
  <2>2. AgreedReport' = AgreedReport /\ (Closed' <=> Closed)
    BY <1>1, <1>2 DEF AgreedReport, Closed, IsOpen
  <2> QED BY <1>1, <1>2, <2>1, <2>2 DEF Abstract!vars, Closed
<1>3. CASE RefSlot' # RefSlot
  <2>1. RefSlot' > RefSlot
    BY <1>0, <1>3
  <2>2. AgreedReport' = NoHash
    BY <1>0, <1>1, <2>1 DEF AgreedReport
  <2>3. ASSUME NEW a \in Addresses PROVE VoteOf(a)' = NoHash
    <3>1. CASE a \in Members
      <4>1. StateOf(a)' = StateOf(a) /\ StateOf(a).lastReportRefSlot \in Nat
            /\ StateOf(a).lastReportRefSlot <= lastReportRefSlot
        BY <1>0, <1>1, <3>1, StateOfVoter
      <4>2. StateOf(a)'.lastReportRefSlot # RefSlot'
        BY <1>0, <2>1, <4>1
      <4> QED BY <4>2 DEF VoteOf
    <3>2. CASE a \notin Members
      BY <1>1, <3>2 DEF VoteOf, Members
    <3> QED BY <3>1, <3>2
  <2>4. Votes' = Abstract!NoVotes
    BY <2>3 DEF Votes, Abstract!NoVotes
  <2>5. (RefSlot' > 0 /\ ~IsOpen') \in BOOLEAN
    OBVIOUS
  <2> QED
    BY <1>0, <1>1, <2>1, <2>2, <2>4, <2>5 DEF Abstract!NewSlot
<1> QED BY <1>2, <1>3

(* A processor that starts on the report of the slot closes it.            *)
LEMMA ProcessReportMaps ==
  ASSUME MInv, MInv', NEW p \in Processors, ProcessReport(p)
  PROVE  Abstract!Close \/ UNCHANGED Abstract!vars
<1> DEFINE o == oracle[reportProcessor]
<1>0. /\ SInv /\ BInv /\ RefSlot \in Nat /\ LastProcessingRefSlot \in Nat
      /\ oracle \in [Processors -> Register(Hashes)] /\ o \in Register(Hashes)
      /\ o.lastProcessingRefSlot <= o.refSlot
      /\ lastConsensusRefSlot = RefSlot /\ RefSlot > 0 =>
           lastConsensusVariantIndex \in DOMAIN reportVariants
  BY SInvTypes DEF MInv, SInv, EInv, BInv, RegistersOrdered
<1>1. /\ oracle' = [oracle EXCEPT ![p] = StartProcessing(@)]
      /\ CanStartProcessing(oracle[p], now)
      /\ UNCHANGED <<RefSlot, reportProcessor, lastConsensusRefSlot, quorum,
                     lastConsensusVariantIndex, reportVariants, Members, Votes,
                     AgreedReport>>
  BY DEF ProcessReport, RefSlot, HasCurrentFrame, CurrentFrame, memberVars,
         Members, IsMember, Votes, VoteOf, StateOf, AgreedReport
<1>2. o' = IF p = reportProcessor THEN StartProcessing(o) ELSE o
  BY <1>0, <1>1
<1>3. o.lastProcessingRefSlot \in Nat /\ o.refSlot \in Nat
  BY <1>0 DEF Register
<1>4. /\ LastProcessingRefSlot = o.lastProcessingRefSlot
      /\ LastProcessingRefSlot' = o'.lastProcessingRefSlot
  BY DEF LastProcessingRefSlot
<1> HIDE DEF RefSlot, LastProcessingRefSlot, o
<1>5. ASSUME Closed' <=> Closed PROVE UNCHANGED Abstract!vars
  BY <1>1, <1>5 DEF Abstract!vars, Closed
<1>6. CASE p # reportProcessor
  <2>1. LastProcessingRefSlot' = LastProcessingRefSlot
    BY <1>2, <1>4, <1>6
  <2>2. Closed' <=> Closed
    BY <1>1, <2>1 DEF Closed, IsOpen
  <2> QED BY <1>5, <2>2
<1>7. CASE p = reportProcessor
  <2>1. /\ o.hash # NoHash /\ o.lastProcessingRefSlot # o.refSlot
        /\ LastProcessingRefSlot' = o.refSlot
    <3>1. o.hash # NoHash /\ o.lastProcessingRefSlot # o.refSlot
      BY <1>1, <1>7 DEF CanStartProcessing, o
    <3>2. o'.lastProcessingRefSlot = o.refSlot
      BY <1>0, <1>2, <1>7 DEF StartProcessing, Register
    <3> QED BY <1>4, <3>1, <3>2
  <2>2. o.refSlot <= RefSlot /\ LastProcessingRefSlot < o.refSlot
    BY <1>0, <1>3, <1>4, <2>1 DEF SInv, HeldReportIsPast, o
  <2>3. CASE o.refSlot < RefSlot
    <3>1. ~Closed /\ ~Closed'
      BY <1>0, <1>1, <1>3, <2>1, <2>2, <2>3 DEF Closed, IsOpen
    <3> QED BY <1>5, <3>1
  <2>4. CASE o.refSlot = RefSlot
    <3>1. RefSlot > 0 /\ lastConsensusRefSlot = RefSlot
          /\ o.hash = reportVariants[lastConsensusVariantIndex].hash
      BY <1>0, <2>1, <2>2, <2>4 DEF SInv, ProcessorInSync, o
    <3>2. AgreedReport # NoHash
      BY <2>1, <3>1 DEF AgreedReport
    <3>3. Closed' = TRUE
      BY <1>1, <2>1, <2>4, <3>1, <1>0 DEF Closed, IsOpen
    <3> QED BY <1>1, <3>2, <3>3 DEF Abstract!Close, Closed
  <2> QED BY <1>0, <1>3, <2>2, <2>3, <2>4
<1> QED BY <1>6, <1>7

LEMMA NextMaps ==
  ASSUME MInv, MInv', [Next]_vars, reportProcessor' = reportProcessor
  PROVE  [Abstract!Next]_(Abstract!vars)
<1>0. /\ SInv /\ VInv /\ RefSlot' >= RefSlot
      /\ TInv /\ TotalMembers \in Nat
      /\ IsFiniteSet(Members) /\ IsFiniteSet(Members')
      /\ UNREACHABLE_QUORUM \in Nat /\ Quorums \subseteq Nat
  <2>1. OInv /\ TInv' /\ VInv
    BY DEF MInv, SInv, EInv, BInv, VInv, OInv
  <2>2. TInv
    BY <2>1 DEF OInv
  <2>3. IsFiniteSet(Members) /\ IsFiniteSet(Members')
    BY HashConsensusAssumption, FS_Subset DEF Members
  <2>4. RefSlot' >= RefSlot
    BY <2>1, NextRefSlot DEF RefSlotStep
  <2> QED BY <2>1, <2>2, <2>3, <2>4, HashConsensusAssumption DEF MInv
<1>1. CASE UNCHANGED <<memberVars, lastReportRefSlot, consensusVars, quorum,
                       reportVariants>>
  BY <1>0, <1>1, IdleMaps DEF Abstract!Next
<1>2. ASSUME NEW m \in Addresses, NEW h \in Hashes, SubmitReport(m, h)
      PROVE  Abstract!Next
  BY <1>2, SubmitReportMaps DEF Abstract!Next
<1>3. Cardinality({}) = 0 /\ \A a : Cardinality({a}) = 1
  BY FS_EmptySet, FS_Singleton
<1>4. ASSUME NEW a \in Addresses, NEW q \in Quorums, AddMember(a, q)
      PROVE  Abstract!Next
  <2>1. MemberAdded(a)
    BY <1>0, <1>4, AddMemberAdded
  <2>2. SetQuorumAndCheckConsensus(q, TotalMembers + 1, reportVariants')
        /\ UNCHANGED <<now, frameConfig, lastReportRefSlot, reportProcessor,
                       reportVariants>>
    BY <1>4 DEF AddMember
  <2>3. Members' \ Members = {a} /\ Members \ Members' = {}
    BY <2>1 DEF MemberAdded
  <2>4. Cardinality(Members' \ Members) + Cardinality(Members \ Members') <= 1
    <3>1. Cardinality(Members' \ Members) = 1
      BY <1>3, <2>3
    <3>2. Cardinality(Members \ Members') = 0
      BY <1>3, <2>3
    <3> QED BY <3>1, <3>2
  <2>5. TotalMembers' = TotalMembers + 1
    <3>1. Cardinality(Members') = Cardinality(Members) + 1
      BY <1>0, <2>1, FS_AddElement DEF MemberAdded
    <3> QED BY <3>1 DEF MInv
  <2>6. /\ \A b \in Members \cap Members' : StateOf(b)' = StateOf(b)
        /\ \A b \in Members' \ Members : StateOf(b)'.lastReportRefSlot = 0
    BY <2>1 DEF MemberAdded
  <2>7. Abstract!Reorganise
    BY <1>0, <2>2, <2>4, <2>5, <2>6, ReorganiseMaps
  <2> QED BY <2>7 DEF Abstract!Next
<1>5. ASSUME NEW a \in Addresses, NEW q \in Quorums, RemoveMember(a, q)
      PROVE  Abstract!Next
  <2>1. MemberRemoved(a)
    BY <1>0, <1>5, RemoveMemberRemoved
  <2>2. SetQuorumAndCheckConsensus(q, TotalMembers - 1, reportVariants')
    BY <1>5 DEF RemoveMember
  <2>3. Members' \ Members = {} /\ Members \ Members' = {a}
    BY <2>1 DEF MemberRemoved
  <2>4. Cardinality(Members' \ Members) + Cardinality(Members \ Members') <= 1
    <3>1. Cardinality(Members' \ Members) = 0
      BY <1>3, <2>3
    <3>2. Cardinality(Members \ Members') = 1
      BY <1>3, <2>3
    <3> QED BY <3>1, <3>2
  <2>5. TotalMembers' = TotalMembers - 1
    <3>1. Cardinality(Members') = Cardinality(Members) - 1
      BY <1>0, <2>1, FS_RemoveElement DEF MemberRemoved
    <3> QED BY <3>1 DEF MInv
  <2>6. /\ \A b \in Members \cap Members' : StateOf(b)' = StateOf(b)
        /\ \A b \in Members' \ Members : StateOf(b)'.lastReportRefSlot = 0
        /\ UNCHANGED <<now, frameConfig, lastReportRefSlot, reportProcessor>>
        /\ DOMAIN reportVariants' = DOMAIN reportVariants
        /\ \A w \in DOMAIN reportVariants :
             reportVariants'[w].hash = reportVariants[w].hash
    BY <2>1 DEF MemberRemoved
  <2>7. Abstract!Reorganise
    BY <1>0, <2>2, <2>4, <2>5, <2>6, ReorganiseMaps
  <2> QED BY <2>7 DEF Abstract!Next
<1>6. ASSUME NEW q \in Nat, SetQuorum(q) PROVE Abstract!Next
  <2>1. SetQuorumAndCheckConsensus(q, TotalMembers, reportVariants')
        /\ UNCHANGED <<now, frameConfig, memberVars, lastReportRefSlot,
                       reportProcessor, reportVariants>>
    BY <1>6 DEF SetQuorum
  <2>2. /\ Members' = Members /\ TotalMembers' = TotalMembers
        /\ \A b : StateOf(b)' = StateOf(b)
    BY <2>1 DEF memberVars, Members, IsMember, TotalMembers, StateOf
  <2>3. Members' \ Members = {} /\ Members \ Members' = {}
    BY <2>2
  <2>4. Cardinality(Members' \ Members) + Cardinality(Members \ Members') <= 1
    <3>1. Cardinality(Members' \ Members) = 0
      BY <1>3, <2>3
    <3>2. Cardinality(Members \ Members') = 0
      BY <1>3, <2>3
    <3> QED BY <3>1, <3>2
  <2>5. /\ \A b \in Members \cap Members' : StateOf(b)' = StateOf(b)
        /\ \A b \in Members' \ Members : StateOf(b)'.lastReportRefSlot = 0
    BY <2>2, <2>3
  <2>6. Abstract!Reorganise
    BY <2>1, <2>2, <2>4, <2>5, ReorganiseMaps
  <2> QED BY <2>6 DEF Abstract!Next
<1>7. ASSUME NEW p \in Processors, ProcessReport(p)
      PROVE  [Abstract!Next]_(Abstract!vars)
  BY <1>7, ProcessReportMaps DEF Abstract!Next
<1>8. ASSUME NEW p \in Processors, SetReportProcessor(p) PROVE FALSE
  BY <1>8 DEF SetReportProcessor
<1> QED
  BY <1>0, <1>1, <1>2, <1>4, <1>5, <1>6, <1>7, <1>8
     DEF Next, vars, DisableConsensus, UpdateInitialEpoch, SetFrameConfig,
         SetFastLaneLengthSlots, ReconfigureFrames, Tick

(* The counters, the variants and the incremental detection of a reached   *)
(* or lost consensus amount to counting the votes anew after each call.    *)
THEOREM Refinement == Spec /\ ProcessorKept => ImplementsCommittee
<1>1. MInv /\ MInv' /\ [Next]_vars /\ [reportProcessor' = reportProcessor]_vars
        => [Abstract!Next]_(Abstract!vars)
  <2>1. UNCHANGED vars => reportProcessor' = reportProcessor
    BY DEF vars
  <2> QED BY <2>1, NextMaps
<1>2. Spec /\ ProcessorKept => []MInv
  BY SInvMInv, SyncInvariance, PTL
<1> QED
  BY <1>1, <1>2, InitMaps, PTL
     DEF Spec, ProcessorKept, ImplementsCommittee, Abstract!Spec

-----------------------------------------------------------------------------
(* The fast lane *)

LEMMA Remainders ==
  ASSUME NEW n \in Nat \ {0}, NEW x \in Nat
  PROVE  /\ x % n \in 0 .. n - 1
         /\ x < n => x % n = x /\ (x + n) % n = x
<1>1. x % n \in 0 .. n - 1
  OBVIOUS
<1>2. x < n => x % n = x
  OBVIOUS
<1>3. x < n => (x + n) % n = x
  OBVIOUS
<1> QED BY <1>1, <1>2, <1>3

(* The q positions from `start` on, modulo n.                              *)
LaneFrom(start, q, n) ==
  {i \in 1 .. n : PointInClosedIntervalModN(i - 1, start, start + q - 1, n)}

LEMMA LaneLength ==
  ASSUME NEW n \in Nat, NEW q \in Nat, 0 < q, q <= n,
         NEW start \in 0 .. n - 1
  PROVE  Cardinality(LaneFrom(start, q, n)) = q
<1> DEFINE lane == LaneFrom(start, q, n)
           distance(i) == IF i > start THEN i - start - 1 ELSE i - start - 1 + n
           f == [k \in 1 .. q |-> IF start + k <= n THEN start + k
                                                    ELSE start + k - n]
<1>1. n \in Nat \ {0}
  OBVIOUS
<1>2. ASSUME NEW i \in 1 .. n PROVE (i - 1 + n - start) % n = distance(i)
  <2>1. CASE i > start
    <3> DEFINE x == i - start - 1
    <3>1. x \in Nat /\ x < n /\ i - 1 + n - start = x + n
      BY <2>1
    <3> HIDE DEF x
    <3>2. (x + n) % n = x
      BY <1>1, <3>1, Remainders
    <3> QED BY <2>1, <3>1, <3>2 DEF x
  <2>2. CASE ~(i > start)
    <3> DEFINE x == i - start - 1 + n
    <3>1. x \in Nat /\ x < n /\ i - 1 + n - start = x
      BY <2>2
    <3> HIDE DEF x
    <3>2. x % n = x
      BY <1>1, <3>1, Remainders
    <3> QED BY <2>2, <3>1, <3>2 DEF x
  <2> QED BY <2>1, <2>2
<1>3. (start + q - 1 - start) % n = q - 1
  <2> DEFINE x == q - 1
  <2>1. x \in Nat /\ x < n /\ start + q - 1 - start = x
    OBVIOUS
  <2> HIDE DEF x
  <2>2. x % n = x
    BY <1>1, <2>1, Remainders
  <2> QED BY <2>1, <2>2 DEF x
<1>4. lane = {i \in 1 .. n : distance(i) <= q - 1}
  BY <1>2, <1>3 DEF PointInClosedIntervalModN, LaneFrom
<1> HIDE DEF lane
<1>5. f \in [1 .. q -> lane]
  BY <1>4
<1>6. \A j, k \in 1 .. q : f[j] = f[k] => j = k
  OBVIOUS
<1>7. ASSUME NEW i \in lane PROVE \E k \in 1 .. q : f[k] = i
  <2>1. i \in 1 .. n /\ distance(i) + 1 \in 1 .. q
    BY <1>4
  <2>2. f[distance(i) + 1] = i
    BY <2>1
  <2> QED BY <2>1, <2>2
<1> HIDE DEF f
<1>8. f \in Bijection(1 .. q, lane)
  <2>1. f \in Injection(1 .. q, lane)
    BY <1>5, <1>6 DEF Injection, IsInjective
  <2>2. f \in Surjection(1 .. q, lane)
    BY <1>5, <1>7 DEF Surjection
  <2> QED BY <2>1, <2>2 DEF Bijection
<1>9. Cardinality(lane) = q
  BY <1>8, FS_CountingElements DEF ExistsBijection
<1> QED BY <1>9 DEF lane

(* The fast lane of every frame has a quorum of members, or all of them    *)
(* when there are fewer.                                                   *)
THEOREM FastLaneQuorum == Spec => []FastLaneHasQuorum
<1>1. BInv => FastLaneHasQuorum
  <2> SUFFICES ASSUME BInv, HasCurrentFrame
               PROVE  LET lane == {i \in 1 .. TotalMembers :
                                     IsFastLaneMember(i - 1, CurrentFrame.index)}
                      IN  Cardinality(lane) = IF quorum < TotalMembers
                                                THEN quorum ELSE TotalMembers
    BY DEF FastLaneHasQuorum
  <2> DEFINE n == TotalMembers
             index == CurrentFrame.index
             lane == {i \in 1 .. n : IsFastLaneMember(i - 1, index)}
  <2>1. n \in Nat /\ quorum \in Nat /\ index \in Nat
    BY MembersCounted, CurrentFrameType DEF BInv, VInv, OInv, TInv, TypeOK
  <2>2. quorum = 0 => n = 0
    BY DEF BInv, QuorumIsMajority
  <2> HIDE DEF n, index
  <2>3. CASE n = 0
    <3>1. lane = {}
      BY <2>3
    <3> QED BY <2>1, <2>3, <3>1, FS_EmptySet DEF n, index
  <2>4. CASE quorum >= n /\ n # 0
    <3>1. FastLaneSubset(index) = [left |-> 0, pastRight |-> n]
      BY <2>4 DEF FastLaneSubset, n
    <3>2. ASSUME NEW i \in 1 .. n
          PROVE  IsFastLaneMember(i - 1, index) <=>
                   PointInClosedIntervalModN(i - 1, 0, 0 + n - 1, n)
      BY <2>1, <2>4, <3>1 DEF IsFastLaneMember, n
    <3>3. lane = LaneFrom(0, n, n)
      BY <3>2 DEF LaneFrom
    <3>4. 0 \in 0 .. n - 1 /\ 0 < n /\ n <= n
      BY <2>1, <2>4
    <3>5. Cardinality(LaneFrom(0, n, n)) = n
      BY <2>1, <3>4, LaneLength
    <3> QED BY <2>1, <2>4, <3>3, <3>5 DEF n, index
  <2>5. CASE quorum < n
    <3> DEFINE start == index % n
    <3>1. start \in 0 .. n - 1
      BY <2>1, <2>5, Remainders
    <3>2. FastLaneSubset(index) = [left |-> start, pastRight |-> start + quorum]
      BY <2>1, <2>5 DEF FastLaneSubset, n
    <3> HIDE DEF start
    <3>3. start + quorum # 0 /\ 0 < quorum /\ quorum <= n
      BY <2>1, <2>2, <2>5, <3>1
    <3>4. ASSUME NEW i \in 1 .. n
          PROVE  IsFastLaneMember(i - 1, index) <=>
                   PointInClosedIntervalModN(i - 1, start, start + quorum - 1, n)
      BY <2>1, <3>1, <3>2, <3>3 DEF IsFastLaneMember, n
    <3>5. lane = LaneFrom(start, quorum, n)
      BY <3>4 DEF LaneFrom
    <3>6. Cardinality(LaneFrom(start, quorum, n)) = quorum
      BY <2>1, <3>1, <3>3, LaneLength
    <3> QED BY <2>5, <3>5, <3>6 DEF n, index
  <2> QED BY <2>1, <2>3, <2>4, <2>5
<1> QED BY <1>1, BaseInvariance, PTL

-----------------------------------------------------------------------------
(* Processing within the frame *)

(* The report register of a processor outlives the frame it was written    *)
(* in, and its deadline is the one of the frame size of that moment.       *)
FrameLength == frameConfig.epochsPerFrame * SLOTS_PER_EPOCH

HeldSinceFirstFrame ==
  \A p \in Processors : oracle[p].hash # NoHash => HasCurrentFrame

FInv == BInv /\ HeldSinceFirstFrame

LEMMA TimestampMonotone ==
  ASSUME NEW a \in Nat, NEW b \in Nat, a <= b
  PROVE  /\ ComputeTimestampAtSlot(a) \in Nat /\ ComputeTimestampAtSlot(b) \in Nat
         /\ ComputeTimestampAtSlot(a) <= ComputeTimestampAtSlot(b)
<1> DEFINE x == a * SECONDS_PER_SLOT
           y == b * SECONDS_PER_SLOT
<1>1. GENESIS_TIME \in Nat /\ x \in Nat /\ y \in Nat /\ x <= y
  BY ProductType, ProductMonotone, ChainSpecAssumption
<1>2. ComputeTimestampAtSlot(a) = GENESIS_TIME + x
      /\ ComputeTimestampAtSlot(b) = GENESIS_TIME + y
  BY DEF ComputeTimestampAtSlot
<1> HIDE DEF x, y
<1> QED BY <1>1, <1>2

(* Once begun, frames go on.                                               *)
LEMMA FrameStays ==
  ASSUME OInv, TInv', [Next]_vars, HasCurrentFrame
  PROVE  HasCurrentFrame'
<1>0. TypeOK /\ TypeOK' /\ FrameComputable(frameConfig)
  BY DEF OInv, TInv
<1>1. CASE UNCHANGED <<now, frameConfig>>
  BY <1>1 DEF HasCurrentFrame
<1>2. CASE Tick
  BY <1>0, <1>2, FrameStartMonotone DEF Tick, HasCurrentFrame, TypeOK
<1>3. ASSUME NEW e \in InitialEpochs, UpdateInitialEpoch(e) PROVE FALSE
  BY <1>3 DEF UpdateInitialEpoch
<1>4. ASSUME NEW fc \in FrameConfigs, SetFrameConfig(fc[1], fc[2])
      PROVE  HasCurrentFrame'
  <2>1. fc[1] \in Nat /\ fc[2] \in Nat
    BY HashConsensusAssumption
  <2> QED BY <1>0, <1>4, <2>1, RefSlotAfterSetFrameConfig
<1>5. ASSUME NEW l, SetFastLaneLengthSlots(l) PROVE HasCurrentFrame'
  BY <1>0, <1>5
     DEF SetFastLaneLengthSlots, ReconfigureFrames, HasCurrentFrame, HasArrived,
         TypeOK, FrameConfigType
<1> QED
  BY <1>1, <1>2, <1>3, <1>4, <1>5
     DEF Next, vars, SubmitReport, AddMember, RemoveMember, SetQuorum,
         DisableConsensus, SetReportProcessor, ProcessReport

(* Unless frames are shortened, a step keeps the frame or moves by at least *)
(* the length it had.                                                      *)
LEMMA FrameAdvances ==
  ASSUME OInv, TInv', [Next]_vars, HasCurrentFrame,
         frameConfig'.epochsPerFrame >= frameConfig.epochsPerFrame
  PROVE  /\ HasCurrentFrame'
         /\ RefSlot' = RefSlot \/ RefSlot' >= RefSlot + FrameLength
         /\ RefSlot \in Nat /\ RefSlot' \in Nat
         /\ FrameLength \in Nat /\ FrameLength' \in Nat /\ FrameLength <= FrameLength'
<1>0. /\ TypeOK /\ TypeOK' /\ FrameComputable(frameConfig)
      /\ FrameComputable(frameConfig') /\ RefSlotStep
  BY NextRefSlot DEF OInv, TInv, RefSlotStep
<1>1. RefSlot \in Nat /\ RefSlot' \in Nat
  BY <1>0, RefSlotType, FrameType
     DEF TypeOK, RefSlot, HasCurrentFrame, CurrentFrame
<1>2. FrameLength \in Nat /\ FrameLength' \in Nat /\ FrameLength <= FrameLength'
  <2>1. /\ frameConfig.epochsPerFrame \in Nat /\ frameConfig'.epochsPerFrame \in Nat
        /\ frameConfig.epochsPerFrame <= frameConfig'.epochsPerFrame
        /\ SLOTS_PER_EPOCH \in Nat
    BY <1>0, ChainSpecAssumption DEF TypeOK, FrameConfigType
  <2> QED BY <2>1, ProductType, ProductMonotone DEF FrameLength
<1>3. HasCurrentFrame'
  BY FrameStays
<1>4. RefSlot' = RefSlot \/ RefSlot' >= RefSlot + FrameLength
  <2>1. CASE now' = now
    <3>1. RefSlot' = RefSlot \/ RefSlot' - RefSlot >= FrameLength'
      BY <1>0, <2>1 DEF RefSlotStep, FrameLength
    <3> DEFINE slot == RefSlot
               next == RefSlot'
    <3>2. slot \in Nat /\ next \in Nat /\ (next = slot \/ next - slot >= FrameLength')
      BY <1>1, <3>1
    <3> HIDE DEF slot, next
    <3>3. next = slot \/ next >= slot + FrameLength
      BY <1>2, <3>2
    <3> QED BY <3>3 DEF slot, next
  <2>2. CASE now' # now
    <3>1. Tick
      BY <2>2
         DEF Next, vars, SubmitReport, AddMember, RemoveMember, SetQuorum,
             DisableConsensus, SetReportProcessor, ProcessReport,
             UpdateInitialEpoch, SetFrameConfig, SetFastLaneLengthSlots,
             ReconfigureFrames
    <3> DEFINE first == ComputeFrameStartEpoch(now, frameConfig) * SLOTS_PER_EPOCH
               second == ComputeFrameStartEpoch(now', frameConfig) * SLOTS_PER_EPOCH
    <3>2. now' = now + 1 /\ frameConfig' = frameConfig
      BY <3>1 DEF Tick
    <3>3. second = first \/ second >= first + FrameLength
      BY <1>0, <3>2, FrameStartSteps DEF TypeOK, HasCurrentFrame, FrameLength
    <3>4. RefSlot = first - 1
      BY <1>0, RefSlotType
    <3>5. RefSlot' = second - 1
      BY <1>0, <1>3, <3>2, FrameType DEF TypeOK, RefSlot, HasCurrentFrame, CurrentFrame
    <3>6. first \in Nat /\ second \in Nat
      BY <1>0, <1>3, <3>2, FrameType, ProductType, ChainSpecAssumption
         DEF TypeOK, HasCurrentFrame
    <3> HIDE DEF RefSlot, first, second
    <3> QED BY <1>2, <3>3, <3>4, <3>5, <3>6
  <2> QED BY <2>1, <2>2
<1> QED BY <1>1, <1>2, <1>3, <1>4

LEMMA NextFInv ==
  ASSUME FInv, BInv', [Next]_vars
  PROVE  FInv'
<1>0. /\ OInv /\ TInv'
      /\ oracle \in [Processors -> Register(Hashes)]
  BY DEF FInv, BInv, VInv, OInv, TInv, TypeOK
<1>1. ASSUME NEW p \in Processors, oracle'[p].hash # NoHash
      PROVE  HasCurrentFrame'
  <2> SUFFICES HasCurrentFrame
    BY <1>0, FrameStays
  <2>1. RegisterMoves(p) /\ oracle[p] \in Register(Hashes)
    BY <1>0, NextMoves
  <2>2. CASE Submits(p)
    BY <2>2 DEF Submits
  <2>3. CASE ~Submits(p)
    <3>1. oracle[p].hash # NoHash
      BY <1>1, <2>1, <2>3 DEF RegisterMoves, Discards, Starts, StartProcessing, Register
    <3> QED BY <3>1 DEF FInv, HeldSinceFirstFrame
  <2> QED BY <2>2, <2>3
<1> QED BY <1>1 DEF FInv, HeldSinceFirstFrame

LEMMA InitFInv ==
  Init => FInv
<1>1. ASSUME Init, NEW p \in Processors PROVE oracle[p].hash = NoHash
  <2>1. PICK s \in InitialRefSlots : oracle[p] = InitRegister(s)
    BY <1>1 DEF Init
  <2> QED BY <2>1 DEF InitRegister
<1> QED BY <1>1, InitBInv DEF FInv, HeldSinceFirstFrame

THEOREM FrameInvariance == Spec => []FInv
BY InitFInv, NextFInv, BaseInvariance, PTL DEF Spec

(* No step but a shortening of the frames under a report that can be       *)
(* processed lets it outlive its frame.                                    *)
LEMMA StepWithinFrame ==
  ASSUME FInv, BInv', [Next]_vars, NEW p \in Processors,
         ~OutlivesFrame(p),
         \/ ~CanStartProcessing(oracle[p], now)
         \/ frameConfig'.epochsPerFrame >= frameConfig.epochsPerFrame
  PROVE  ~OutlivesFrame(p)'
<1> DEFINE o == oracle[p]
           end == RefSlot + FrameLength
<1>0. /\ OInv /\ TInv' /\ TypeOK /\ TypeOK'
      /\ FrameComputable(frameConfig) /\ FrameComputable(frameConfig')
      /\ o \in Register(Hashes) /\ oracle'[p] \in Register(Hashes)
  BY DEF FInv, BInv, VInv, OInv, TInv, TypeOK
<1> SUFFICES ASSUME CanStartProcessing(oracle'[p], now')
             PROVE  /\ oracle'[p].refSlot = RefSlot'
                    /\ oracle'[p].processingDeadlineTime <=
                         ComputeTimestampAtSlot(RefSlot' + FrameLength')
  <2>1. ComputeTimestampAtSlot(RefSlot' + FrameLength') \in Nat
    <3>1. RefSlot' \in Nat /\ FrameLength' \in Nat
      BY <1>0, FrameType, ProductType, ChainSpecAssumption
         DEF TypeOK, RefSlot, HasCurrentFrame, CurrentFrame, FrameConfigType, FrameLength
    <3> DEFINE slot == RefSlot'
               length == FrameLength'
    <3>2. slot \in Nat /\ length \in Nat
      BY <3>1
    <3> HIDE DEF slot, length
    <3>3. slot + length \in Nat
      BY <3>2
    <3>4. ComputeTimestampAtSlot(slot + length) \in Nat
      BY <3>3, TimestampMonotone
    <3> QED BY <3>4 DEF slot, length
  <2>2. oracle'[p].processingDeadlineTime \in Nat
    BY <1>0 DEF Register
  <2> QED BY <2>1, <2>2 DEF OutlivesFrame, FrameLength
<1>1. RegisterMoves(p)
  BY <1>0, NextMoves
<1>2. CASE UNCHANGED o
  <2>1. now' >= now /\ now \in Nat /\ now' \in Nat
    <3>1. now' = now \/ now' = now + 1
      BY Zenon
         DEF Next, vars, SubmitReport, AddMember, RemoveMember, SetQuorum,
             DisableConsensus, SetReportProcessor, ProcessReport, UpdateInitialEpoch,
             SetFrameConfig, SetFastLaneLengthSlots, ReconfigureFrames, Tick
    <3>2. now \in Nat /\ now' \in Nat
      BY <1>0 DEF TypeOK
    <3> QED BY <3>1, <3>2
  <2>2. o.processingDeadlineTime \in Nat
    BY <1>0 DEF Register
  <2>3. CanStartProcessing(o, now) /\ HasCurrentFrame
    BY <1>2, <2>1, <2>2 DEF CanStartProcessing, FInv, HeldSinceFirstFrame
  <2>4. /\ HasCurrentFrame'
        /\ RefSlot' = RefSlot \/ RefSlot' >= end
        /\ RefSlot \in Nat /\ RefSlot' \in Nat
        /\ FrameLength \in Nat /\ FrameLength' \in Nat /\ FrameLength <= FrameLength'
    BY <1>0, <2>3, FrameAdvances
  <2>5. /\ o.refSlot = RefSlot
        /\ ~(o.processingDeadlineTime > ComputeTimestampAtSlot(end))
    BY <2>3 DEF OutlivesFrame, FrameLength
  <2>6. end \in Nat /\ ComputeTimestampAtSlot(end) \in Nat
    BY <2>4, TimestampMonotone
  <2>7. o.processingDeadlineTime <= ComputeTimestampAtSlot(end)
    BY <2>2, <2>5, <2>6
  <2>8. RefSlot' = RefSlot
    <3> SUFFICES ASSUME RefSlot' >= end PROVE FALSE
      BY <2>4
    <3>1. ComputeTimestampAtSlot(end) <= ComputeTimestampAtSlot(RefSlot')
          /\ ComputeTimestampAtSlot(RefSlot') \in Nat
      BY <2>4, <2>6, TimestampMonotone
    <3>2. now' <= o.processingDeadlineTime
      BY <1>2 DEF CanStartProcessing
    <3>3. now' <= ComputeTimestampAtSlot(RefSlot')
      BY <2>1, <2>2, <2>6, <2>7, <3>1, <3>2
    <3>4. now' >= GENESIS_TIME /\ frameConfig' \in FrameConfigType
          /\ HasArrived(now', frameConfig')
          /\ RefSlot' = GetFrameAtTimestamp(now', frameConfig').refSlot
      BY <1>0, <2>4 DEF TypeOK, HasCurrentFrame, RefSlot, CurrentFrame
    <3>5. RefSlot' < ComputeSlotAtTimestamp(now')
      BY <1>0, <2>1, <3>4, FrameSpan
    <3>6. ComputeSlotAtTimestamp(now') <= RefSlot'
      BY <2>1, <2>4, <3>3, <3>4, SlotNotAfter
    <3>7. ComputeSlotAtTimestamp(now') \in Nat
      BY <2>1, <3>4, EpochType
    <3> QED BY <2>4, <3>5, <3>6, <3>7
  <2> DEFINE later == RefSlot' + FrameLength'
  <2>9. later \in Nat /\ end <= later
    <3> DEFINE slot == RefSlot
               length == FrameLength
               longer == FrameLength'
    <3>1. slot \in Nat /\ length \in Nat /\ longer \in Nat /\ length <= longer
      BY <2>4
    <3>2. end = slot + length /\ later = slot + longer
      BY <2>8
    <3> HIDE DEF slot, length, longer, end, later
    <3> QED BY <3>1, <3>2
  <2>10. ComputeTimestampAtSlot(end) <= ComputeTimestampAtSlot(later)
         /\ ComputeTimestampAtSlot(later) \in Nat
    BY <2>6, <2>9, TimestampMonotone
  <2>11. o.processingDeadlineTime <= ComputeTimestampAtSlot(later)
    BY <2>2, <2>6, <2>7, <2>10
  <2> QED BY <1>2, <2>5, <2>8, <2>11
<1>3. CASE Submits(p) /\ UNCHANGED <<now, frameConfig, RefSlot>>
  <2>1. CurrentFrame.reportProcessingDeadlineSlot = RefSlot + FrameLength
    BY <1>0, <1>3, DeadlineAhead DEF Submits, RefSlot, FrameLength
  <2>2. RefSlot' = RefSlot /\ FrameLength' = FrameLength
    BY <1>3 DEF FrameLength
  <2>3. RefSlot \in Nat /\ FrameLength \in Nat
    BY <1>0, RefSlotType, ProductType, ChainSpecAssumption
       DEF TypeOK, FrameConfigType, FrameLength
  <2>4. end \in Nat /\ ComputeTimestampAtSlot(end) \in Nat
    BY <2>3, TimestampMonotone
  <2>5. oracle'[p].refSlot = RefSlot
        /\ oracle'[p].processingDeadlineTime = ComputeTimestampAtSlot(end)
    BY <1>3, <2>1 DEF Submits
  <2> HIDE DEF RefSlot, FrameLength
  <2>6. ComputeTimestampAtSlot(end) <= ComputeTimestampAtSlot(end)
    BY <2>4
  <2> QED BY <2>2, <2>5, <2>6
<1>4. CASE Discards(p)
  BY <1>0, <1>4 DEF Discards, Register, CanStartProcessing
<1>5. CASE Starts(p)
  BY <1>0, <1>5 DEF Starts, StartProcessing, Register, CanStartProcessing
<1> QED BY <1>1, <1>2, <1>3, <1>4, <1>5 DEF RegisterMoves

(* Whatever becomes of frames, processors and consensus: a report that can *)
(* be processed belongs to the current frame and expires with it, unless   *)
(* the frames are shortened under it.                                      *)
THEOREM OutlivesWhenShortened == Spec => OutlivesOnlyShortenedFrame
<1>1. FInv /\ FInv' /\ [Next]_vars =>
        [ \A p \in Processors :
            OutlivesFrame(p)' =>
              \/ OutlivesFrame(p)
              \/ /\ CanStartProcessing(oracle[p], now)
                 /\ frameConfig'.epochsPerFrame < frameConfig.epochsPerFrame ]_vars
  <2> SUFFICES ASSUME FInv, FInv', [Next]_vars, NEW p \in Processors,
                      OutlivesFrame(p)', ~OutlivesFrame(p)
               PROVE  /\ CanStartProcessing(oracle[p], now)
                      /\ frameConfig'.epochsPerFrame < frameConfig.epochsPerFrame
    OBVIOUS
  <2>1. frameConfig.epochsPerFrame \in Nat /\ frameConfig'.epochsPerFrame \in Nat
    BY DEF FInv, BInv, VInv, OInv, TInv, TypeOK, FrameConfigType
  <2>2. /\ CanStartProcessing(oracle[p], now)
        /\ ~(frameConfig'.epochsPerFrame >= frameConfig.epochsPerFrame)
    BY StepWithinFrame DEF FInv
  <2> QED BY <2>1, <2>2
<1> QED BY <1>1, FrameInvariance, PTL DEF Spec, OutlivesOnlyShortenedFrame

(* The frames are shortened only between reports: while no processor holds *)
(* one that it could still process.                                        *)
ShortenedBetweenReports ==
  [][ frameConfig'.epochsPerFrame < frameConfig.epochsPerFrame =>
        \A p \in Processors : ~CanStartProcessing(oracle[p], now) ]_vars

NoneOutlivesFrame == \A p \in Processors : ~OutlivesFrame(p)

(* "All state changes a report processing could entail are guaranteed to   *)
(* be observed while gathering data for the next frame's report", with any *)
(* processors and frames lengthened at any time and shortened between      *)
(* reports: the condition the guarantee needs, since HashConsensus_shortened *)
(* refutes it otherwise.                                                   *)
THEOREM ProcessedInFrame ==
  Spec /\ ShortenedBetweenReports => ProcessedWithinFrame
<1>1. Init => NoneOutlivesFrame
  <2>1. ASSUME Init, NEW p \in Processors PROVE oracle[p].hash = NoHash
    <3>1. PICK s \in InitialRefSlots : oracle[p] = InitRegister(s)
      BY <2>1 DEF Init
    <3> QED BY <3>1 DEF InitRegister
  <2> QED BY <2>1 DEF NoneOutlivesFrame, OutlivesFrame, CanStartProcessing
<1>2. /\ FInv /\ FInv' /\ [Next]_vars /\ NoneOutlivesFrame
      /\ [ frameConfig'.epochsPerFrame < frameConfig.epochsPerFrame =>
             \A p \in Processors : ~CanStartProcessing(oracle[p], now) ]_vars
      => NoneOutlivesFrame'
  <2> SUFFICES ASSUME FInv, FInv', [Next]_vars, NoneOutlivesFrame,
                      NEW p \in Processors,
                      \/ UNCHANGED vars
                      \/ frameConfig'.epochsPerFrame < frameConfig.epochsPerFrame =>
                           ~CanStartProcessing(oracle[p], now)
               PROVE  ~OutlivesFrame(p)'
    BY DEF NoneOutlivesFrame
  <2>1. frameConfig.epochsPerFrame \in Nat /\ frameConfig'.epochsPerFrame \in Nat
    BY DEF FInv, BInv, VInv, OInv, TInv, TypeOK, FrameConfigType
  <2>2. UNCHANGED vars => UNCHANGED frameConfig
    BY DEF vars
  <2>3. \/ ~CanStartProcessing(oracle[p], now)
        \/ frameConfig'.epochsPerFrame >= frameConfig.epochsPerFrame
    BY <2>1, <2>2
  <2> QED BY <2>3, StepWithinFrame DEF FInv, NoneOutlivesFrame
<1>3. FInv /\ NoneOutlivesFrame /\ [Next]_vars =>
        [ \A p \in Processors :
            oracle'[p].lastProcessingRefSlot # oracle[p].lastProcessingRefSlot =>
              oracle[p].refSlot = RefSlot ]_vars
  <2> SUFFICES ASSUME FInv, NoneOutlivesFrame, [Next]_vars, NEW p \in Processors,
                      oracle'[p].lastProcessingRefSlot
                        # oracle[p].lastProcessingRefSlot
               PROVE  oracle[p].refSlot = RefSlot
    OBVIOUS
  <2>1. RegisterMoves(p) /\ oracle[p] \in Register(Hashes)
    BY NextMoves DEF FInv, BInv, VInv, OInv, TInv, TypeOK
  <2>2. Starts(p)
    BY <2>1 DEF RegisterMoves, Submits, Discards, Register
  <2> QED BY <2>2 DEF Starts, NoneOutlivesFrame, OutlivesFrame
<1>4. Spec /\ ShortenedBetweenReports => []NoneOutlivesFrame
  BY <1>1, <1>2, FrameInvariance, PTL DEF Spec, ShortenedBetweenReports
<1> QED BY <1>3, <1>4, FrameInvariance, PTL DEF Spec, ProcessedWithinFrame
=============================================================================
