------------------------ MODULE AccountingOracle_proof ------------------------
(***************************************************************************)
(* Machine-checked proofs about AccountingOracle, for every value of its   *)
(* constants.                                                              *)
(***************************************************************************)
EXTENDS AccountingOracle, ReportingFrames_proof, TLAPS

ExtraState ==
  [refSlot : Nat,
   items : UNION {[ops -> 0 .. MaxCount] : ops \in SUBSET Operators},
   submitted : BOOLEAN]

TypeOK ==
  /\ now \in Nat /\ now >= GENESIS_TIME
  /\ candidates \subseteq ConsensusContracts
  /\ consensusContract \in candidates
  /\ consensusVersion \in ConsensusVersions
  /\ report \in Register(ReportData)
  /\ extra \in ExtraState
  /\ stuck \in [Operators -> 0 .. MaxCount]
  /\ chainStuck \in [Operators -> 0 .. MaxCount]
  /\ observed \in [ConsensusContracts -> Observation]

(* The extra data state follows the processed slot, which follows the slot *)
(* of the register.                                                        *)
SlotsOrdered ==
  /\ extra.refSlot <= report.lastProcessingRefSlot
  /\ report.lastProcessingRefSlot <= report.refSlot

(* A block comes at the start of its slot.                                 *)
Aligned == now = ComputeTimestampAtSlot(ComputeSlotAtTimestamp(now))

(* The slot of the register is processed, or one that a contract has       *)
(* reached.                                                                *)
SlotIsReached ==
  \/ report.refSlot = report.lastProcessingRefSlot
  \/ \E c \in candidates :
       HasFrame(c, now) /\ report.refSlot <= Frame(c, now).refSlot

FrameLength(c) == FrameConfigOf[c].epochsPerFrame * SLOTS_PER_EPOCH

(* With one consensus contract, a held report is one of the current frame, *)
(* with what the daemons observed for it, or one whose deadline is over.   *)
HeldReport(c) ==
  report.hash # NoHash =>
    /\ HasFrame(c, now)
    /\ report.processingDeadlineTime =
         ComputeTimestampAtSlot(report.refSlot + FrameLength(c))
    /\ \/ report.refSlot = Frame(c, now).refSlot /\ report.hash.seen = observed[c]
       \/ report.refSlot + FrameLength(c) <= Frame(c, now).refSlot

(* Until the extra data of the frame is in, the stored counts of the       *)
(* operators that are not outdated are the observed ones.                  *)
RestIsCurrent(c) ==
  HasFrame(c, now) =>
    /\ observed[c].refSlot = Frame(c, now).refSlot
    /\ ~(extra.refSlot = Frame(c, now).refSlot /\ extra.submitted) =>
         \A op \in Operators \ observed[c].outdated :
           stuck[op] = observed[c].counts[op]

OneContract ==
  candidates = {consensusContract} =>
    HeldReport(consensusContract) /\ RestIsCurrent(consensusContract)

Inv ==
  /\ TypeOK
  /\ SlotsOrdered
  /\ ExtraDataOfReport
  /\ Aligned
  /\ SlotIsReached
  /\ OneContract

-----------------------------------------------------------------------------
(* Facts about the frames of the consensus contracts *)

(* The frame configurations are ones the contracts accept.                 *)
LEMMA ConfigType ==
  ASSUME NEW c \in ConsensusContracts
  PROVE  /\ FrameConfigOf[c] \in FrameConfigType
         /\ FrameComputable(FrameConfigOf[c])
         /\ FrameLength(c) \in Nat
<1>1. FrameConfigOf[c] \in FrameConfigType /\ FrameComputable(FrameConfigOf[c])
  BY AccountingOracleAssumption
<1>2. FrameConfigOf[c].epochsPerFrame \in Nat
  BY <1>1 DEF FrameConfigType
<1> QED BY <1>1, <1>2, ProductType, ChainSpecAssumption DEF FrameLength

(* A frame that has begun has natural slots, one frame length apart, and   *)
(* the current slot lies between them.                                     *)
LEMMA CurrentFrame ==
  ASSUME NEW c \in ConsensusContracts, NEW t \in Nat, t >= GENESIS_TIME,
         HasFrame(c, t)
  PROVE  /\ Frame(c, t).refSlot \in Nat
         /\ Frame(c, t).reportProcessingDeadlineSlot = Frame(c, t).refSlot + FrameLength(c)
         /\ ComputeSlotAtTimestamp(t) \in Nat
         /\ Frame(c, t).refSlot < ComputeSlotAtTimestamp(t)
         /\ ComputeSlotAtTimestamp(t) <= Frame(c, t).refSlot + FrameLength(c)
<1>1. FrameConfigOf[c] \in FrameConfigType /\ FrameComputable(FrameConfigOf[c])
  BY ConfigType
<1>2. HasArrived(t, FrameConfigOf[c])
  BY DEF HasFrame
<1> QED
  BY <1>1, <1>2, FrameType, FrameSpan, EpochType DEF Frame, FrameLength

(* Timestamps of slots are natural and rise with them.                     *)
LEMMA TimestampMonotone ==
  ASSUME NEW a \in Nat, NEW b \in Nat, a <= b
  PROVE  /\ ComputeTimestampAtSlot(a) \in Nat
         /\ ComputeTimestampAtSlot(a) <= ComputeTimestampAtSlot(b)
<1>1. /\ a * SECONDS_PER_SLOT \in Nat /\ b * SECONDS_PER_SLOT \in Nat
      /\ a * SECONDS_PER_SLOT <= b * SECONDS_PER_SLOT
  BY ProductType, ProductMonotone, ChainSpecAssumption
<1> QED BY <1>1, ChainSpecAssumption DEF ComputeTimestampAtSlot

(* No frame has begun at genesis.                                          *)
LEMMA NoFrameAtGenesis ==
  ASSUME NEW c \in ConsensusContracts
  PROVE  ~HasFrame(c, GENESIS_TIME)
<1>1. FrameConfigOf[c].initialEpoch \in Nat
      /\ FrameConfigOf[c].initialEpoch * SLOTS_PER_EPOCH > 0
  BY ConfigType DEF FrameConfigType, FrameComputable, ComputeStartSlotAtEpoch
<1>2. FrameConfigOf[c].initialEpoch > 0
  BY <1>1, ChainSpecAssumption
<1>3. GENESIS_TIME - GENESIS_TIME = 0
      /\ 0 \div SECONDS_PER_SLOT = 0 /\ 0 \div SLOTS_PER_EPOCH = 0
  BY ChainSpecAssumption
<1>4. ComputeEpochAtTimestamp(GENESIS_TIME) = 0
  BY <1>3 DEF ComputeEpochAtTimestamp, ComputeSlotAtTimestamp
<1> QED BY <1>1, <1>2, <1>4 DEF HasFrame, HasArrived

(* A frame that has begun stays begun, and its slot only rises.            *)
LEMMA FrameAdvances ==
  ASSUME NEW c \in ConsensusContracts, NEW t \in Nat, t >= GENESIS_TIME,
         HasFrame(c, t)
  PROVE  /\ HasFrame(c, t + SECONDS_PER_SLOT)
         /\ \/ Frame(c, t + SECONDS_PER_SLOT).refSlot = Frame(c, t).refSlot
            \/ /\ Frame(c, t + SECONDS_PER_SLOT).refSlot = ComputeSlotAtTimestamp(t)
               /\ Frame(c, t + SECONDS_PER_SLOT).refSlot
                    >= Frame(c, t).refSlot + FrameLength(c)
<1>1. FrameConfigOf[c] \in FrameConfigType /\ FrameComputable(FrameConfigOf[c])
  BY ConfigType
<1>2. HasArrived(t, FrameConfigOf[c])
  BY DEF HasFrame
<1>3. t + SECONDS_PER_SLOT \in Nat /\ t <= t + SECONDS_PER_SLOT
  BY ChainSpecAssumption
<1>4. HasArrived(t + SECONDS_PER_SLOT, FrameConfigOf[c])
  BY <1>1, <1>2, <1>3, FrameStartMonotone
<1> QED BY <1>1, <1>2, <1>4, NewFrame DEF HasFrame, Frame, FrameLength

-----------------------------------------------------------------------------
(* Types *)

(* A listed count is one of a listed operator.                             *)
LEMMA ItemsType ==
  ASSUME NEW seen \in Observation
  PROVE  /\ ItemsOf(seen) \in [seen.outdated -> 0 .. MaxCount]
         /\ ItemsOf(seen) \in UNION {[ops -> 0 .. MaxCount] : ops \in SUBSET Operators}
<1>1. seen.outdated \in SUBSET Operators /\ seen.counts \in [Operators -> 0 .. MaxCount]
  BY DEF Observation
<1>2. ItemsOf(seen) \in [seen.outdated -> 0 .. MaxCount]
  BY <1>1 DEF ItemsOf
<1> QED BY <1>1, <1>2

(* Items to be written are counts of operators.                            *)
LEMMA ItemsWritten ==
  ASSUME NEW items \in UNION {[ops -> 0 .. MaxCount] : ops \in SUBSET Operators},
         NEW old \in [Operators -> 0 .. MaxCount]
  PROVE  [op \in Operators |-> IF op \in DOMAIN items THEN items[op] ELSE old[op]]
           \in [Operators -> 0 .. MaxCount]
<1>1. PICK ops \in SUBSET Operators : items \in [ops -> 0 .. MaxCount]
  OBVIOUS
<1> QED BY <1>1

(* The initial state satisfies the invariant.                              *)
LEMMA InitInv == Init => Inv
<1> SUFFICES ASSUME Init PROVE Inv
  OBVIOUS
<1>0. MaxCount \in Nat /\ GENESIS_TIME \in Nat /\ 0 \in 0 .. MaxCount
  BY AccountingOracleAssumption, ChainSpecAssumption
<1>1. candidates \subseteq ConsensusContracts /\ consensusContract \in candidates
  BY AccountingOracleAssumption DEF Init
<1>2. PICK slot \in Nat : report = InitRegister(slot)
  BY AccountingOracleAssumption DEF Init
<1>3. TypeOK
  <2>1. report \in Register(ReportData)
    BY <1>2 DEF Register, InitRegister
  <2>2. Zero \in [Operators -> 0 .. MaxCount]
    BY <1>0 DEF Zero
  <2>3. NoItems \in [{} -> 0 .. MaxCount]
    BY DEF NoItems
  <2>4. NoItems \in UNION {[ops -> 0 .. MaxCount] : ops \in SUBSET Operators}
    BY <2>3
  <2>5. extra \in ExtraState
    BY <2>4 DEF Init, ExtraState
  <2>6. observed \in [ConsensusContracts -> Observation]
    BY <2>2 DEF Init, Observation
  <2>7. /\ now = GENESIS_TIME /\ consensusVersion \in ConsensusVersions
        /\ stuck = Zero /\ chainStuck = Zero
    BY DEF Init
  <2> QED BY <1>0, <1>1, <2>1, <2>2, <2>5, <2>6, <2>7 DEF TypeOK
<1>4. SlotsOrdered /\ ExtraDataOfReport /\ SlotIsReached
  BY <1>2 DEF SlotsOrdered, ExtraDataOfReport, SlotIsReached, InitRegister, Init
<1>5. Aligned
  <2>1. GENESIS_TIME - GENESIS_TIME = 0 /\ 0 \div SECONDS_PER_SLOT = 0
        /\ 0 * SECONDS_PER_SLOT = 0
    BY ChainSpecAssumption
  <2> QED BY <2>1, ChainSpecAssumption
          DEF Aligned, Init, ComputeTimestampAtSlot, ComputeSlotAtTimestamp
<1>6. OneContract
  BY <1>1, <1>2, NoFrameAtGenesis
  DEF OneContract, HeldReport, RestIsCurrent, InitRegister, Init
<1> QED BY <1>3, <1>4, <1>5, <1>6 DEF Inv

(* Every step preserves the types.                                         *)
LEMMA TypeStep == TypeOK /\ [Next]_vars => TypeOK'
<1> SUFFICES ASSUME TypeOK, [Next]_vars PROVE TypeOK'
  OBVIOUS
<1> USE DEF TypeOK
<1>1. CASE ConsensusReached
  <2> DEFINE frame == Frame(consensusContract, now)
  <2>1. frame.refSlot \in Nat
        /\ ComputeTimestampAtSlot(frame.reportProcessingDeadlineSlot) \in Nat
    BY <1>1, CurrentFrame, ConfigType, TimestampMonotone DEF ConsensusReached
  <2>2. Agreed \in ReportData
    BY DEF Agreed, ReportData
  <2>3. report' \in Register(ReportData)
    BY <1>1, <2>1, <2>2 DEF ConsensusReached, SubmitConsensusReport, Register
  <2> QED BY <1>1, <2>3 DEF ConsensusReached
<1>2. CASE ConsensusLost
  <2>1. report' \in Register(ReportData)
    BY <1>2 DEF ConsensusLost, DiscardConsensusReport, Register
  <2> QED BY <1>2, <2>1 DEF ConsensusLost
<1>3. CASE SubmitReportData
  <2>1. report' \in Register(ReportData) /\ report.refSlot \in Nat
    BY <1>3 DEF SubmitReportData, StartProcessing, Register
  <2>2. report.hash \in ReportData
    BY <1>3 DEF SubmitReportData, CanStartProcessing, Register
  <2>3. report.hash.seen \in Observation
    BY <2>2 DEF ReportData
  <2>4. extra' \in ExtraState
    BY <1>3, <2>1, <2>3, ItemsType DEF SubmitReportData, ExtraState
  <2> QED BY <1>3, <2>1, <2>4 DEF SubmitReportData
<1>4. CASE SubmitReportExtraDataEmpty
  <2>1. extra' \in ExtraState
    BY <1>4 DEF SubmitReportExtraDataEmpty, ExtraState
  <2> QED BY <1>4, <2>1 DEF SubmitReportExtraDataEmpty
<1>5. CASE SubmitReportExtraDataList
  <2>1. extra' \in ExtraState
    BY <1>5 DEF SubmitReportExtraDataList, ExtraState
  <2>2. extra.items \in UNION {[ops -> 0 .. MaxCount] : ops \in SUBSET Operators}
    BY DEF ExtraState
  <2>3. stuck' \in [Operators -> 0 .. MaxCount]
    BY <1>5, <2>2, ItemsWritten DEF SubmitReportExtraDataList
  <2> QED BY <1>5, <2>1, <2>3 DEF SubmitReportExtraDataList
<1>6. CASE \E v \in ConsensusVersions : SetConsensusVersion(v)
  BY <1>6 DEF SetConsensusVersion
<1>7. CASE \E c \in candidates : SetConsensusContract(c)
  BY <1>7 DEF SetConsensusContract
<1>8. CASE \E op \in Operators, n \in 0 .. MaxCount : ChainStep(op, n)
  BY <1>8 DEF ChainStep
<1>9. CASE Tick
  <2>1. now' \in Nat /\ now' >= GENESIS_TIME
    BY <1>9, ChainSpecAssumption DEF Tick
  <2>2. Seen(ComputeSlotAtTimestamp(now)) \in Observation
    BY EpochType DEF Seen, Observation
  <2>3. observed' \in [ConsensusContracts -> Observation]
    BY <1>9, <2>2 DEF Tick
  <2> QED BY <1>9, <2>1, <2>3 DEF Tick
<1>10. CASE UNCHANGED vars
  BY <1>10 DEF vars
<1> QED
  BY <1>1, <1>2, <1>3, <1>4, <1>5, <1>6, <1>7, <1>8, <1>9, <1>10 DEF Next

-----------------------------------------------------------------------------
(* Preservation of the other parts of the invariant *)

(* The order of the slots, and the action property about them.             *)
LEMMA SlotsStep ==
  ASSUME TypeOK, SlotsOrdered, [Next]_vars
  PROVE  /\ SlotsOrdered'
         /\ report'.lastProcessingRefSlot >= report.lastProcessingRefSlot
         /\ report'.refSlot >= report.refSlot
         /\ report'.lastProcessingRefSlot <= report'.refSlot
         /\ extra'.refSlot # extra.refSlot => extra'.refSlot > extra.refSlot
<1>0. /\ report \in Register(ReportData)
      /\ report.refSlot \in Nat /\ report.lastProcessingRefSlot \in Nat
      /\ extra.refSlot \in Nat
  BY DEF TypeOK, Register, ExtraState
<1> USE DEF SlotsOrdered
<1>1. CASE ConsensusReached
  <2>1. Frame(consensusContract, now).refSlot \in Nat
    BY <1>1, CurrentFrame, ConfigType DEF ConsensusReached, TypeOK
  <2>2. /\ report'.refSlot = Frame(consensusContract, now).refSlot
        /\ report'.refSlot >= report.refSlot
        /\ report'.lastProcessingRefSlot = report.lastProcessingRefSlot
        /\ extra' = extra
    BY <1>0, <1>1
    DEF ConsensusReached, SubmitConsensusReport, CanSubmitConsensusReport, Register
  <2> QED BY <1>0, <2>1, <2>2
<1>2. CASE ConsensusLost
  <2>1. /\ report'.refSlot = report.refSlot
        /\ report'.lastProcessingRefSlot = report.lastProcessingRefSlot
        /\ extra' = extra
    BY <1>0, <1>2 DEF ConsensusLost, DiscardConsensusReport, Register
  <2> QED BY <1>0, <2>1
<1>3. CASE SubmitReportData
  <2>1. /\ report'.refSlot = report.refSlot
        /\ report'.lastProcessingRefSlot = report.refSlot
        /\ extra'.refSlot = report.refSlot
    BY <1>0, <1>3 DEF SubmitReportData, StartProcessing, Register
  <2> QED BY <1>0, <2>1
<1>4. CASE SubmitReportExtraDataEmpty \/ SubmitReportExtraDataList
  <2>1. extra'.refSlot = extra.refSlot /\ report' = report
    BY <1>4 DEF SubmitReportExtraDataEmpty, SubmitReportExtraDataList, TypeOK, ExtraState
  <2> QED BY <1>0, <2>1
<1>5. CASE UNCHANGED <<report, extra>>
  BY <1>0, <1>5
<1> QED
  BY <1>1, <1>2, <1>3, <1>4, <1>5
  DEF Next, SetConsensusVersion, SetConsensusContract, ChainStep, Tick, vars

(* The extra data stays the one of the report in the register.             *)
LEMMA ExtraStep ==
  ASSUME TypeOK, SlotsOrdered, ExtraDataOfReport, [Next]_vars
  PROVE  ExtraDataOfReport'
<1>0. /\ report \in Register(ReportData)
      /\ report.refSlot \in Nat /\ report.lastProcessingRefSlot \in Nat
      /\ extra.refSlot \in Nat /\ extra \in ExtraState
  BY DEF TypeOK, Register, ExtraState
<1> USE DEF ExtraDataOfReport, IsProcessing
<1>1. CASE ConsensusReached
  <2>1. Frame(consensusContract, now).refSlot \in Nat
    BY <1>1, CurrentFrame, ConfigType DEF ConsensusReached, TypeOK
  <2>2. /\ report'.refSlot = Frame(consensusContract, now).refSlot
        /\ report'.refSlot > report.lastProcessingRefSlot
        /\ extra' = extra
    BY <1>0, <1>1
    DEF ConsensusReached, SubmitConsensusReport, Register
  <2> QED BY <1>0, <2>1, <2>2 DEF SlotsOrdered
<1>2. CASE ConsensusLost
  <2>1. /\ report' = report \/ report'.hash = NoHash
        /\ extra' = extra
    BY <1>0, <1>2 DEF ConsensusLost, DiscardConsensusReport, Register
  <2> QED BY <2>1
<1>3. CASE SubmitReportData
  <2>1. /\ report'.refSlot = report.refSlot /\ report'.hash = report.hash
        /\ report'.lastProcessingRefSlot = report.refSlot
        /\ extra'.items = ItemsOf(report.hash.seen)
    BY <1>0, <1>3 DEF SubmitReportData, StartProcessing, Register
  <2> QED BY <2>1
<1>4. CASE SubmitReportExtraDataEmpty \/ SubmitReportExtraDataList
  <2>1. extra'.refSlot = extra.refSlot /\ extra'.items = extra.items /\ report' = report
    BY <1>0, <1>4 DEF SubmitReportExtraDataEmpty, SubmitReportExtraDataList, ExtraState
  <2> QED BY <2>1
<1>5. CASE UNCHANGED <<report, extra>>
  BY <1>5
<1> QED
  BY <1>1, <1>2, <1>3, <1>4, <1>5
  DEF Next, SetConsensusVersion, SetConsensusContract, ChainStep, Tick, vars

(* Time moves by whole slots.                                              *)
LEMMA AlignedStep ==
  ASSUME TypeOK, Aligned, [Next]_vars
  PROVE  Aligned'
<1>1. CASE Tick
  <2> DEFINE P == SECONDS_PER_SLOT
             s == ComputeSlotAtTimestamp(now)
  <2>1. now' = now + P /\ ComputeSlotAtTimestamp(now') = s + 1
    BY <1>1, SlotAfter DEF Tick, TypeOK
  <2>2. s \in Nat /\ P \in Nat /\ GENESIS_TIME \in Nat
    BY EpochType, ChainSpecAssumption DEF TypeOK
  <2>3. now = GENESIS_TIME + s * P
    BY DEF Aligned, ComputeTimestampAtSlot
  <2>4. now' = GENESIS_TIME + (s + 1) * P
    <3> HIDE DEF s, P
    <3>1. (s + 1) * P = s * P + P /\ s * P \in Nat
      BY <2>2
    <3> QED BY <2>1, <2>2, <2>3, <3>1
  <2>5. now' = ComputeTimestampAtSlot(s + 1)
    BY <2>4 DEF ComputeTimestampAtSlot
  <2>6. Aligned' = (now' = ComputeTimestampAtSlot(ComputeSlotAtTimestamp(now')))
    BY DEF Aligned, ComputeTimestampAtSlot, ComputeSlotAtTimestamp
  <2> HIDE DEF s
  <2> QED BY <2>1, <2>5, <2>6
<1>2. CASE UNCHANGED now
  BY <1>2 DEF Aligned, ComputeTimestampAtSlot, ComputeSlotAtTimestamp
<1> QED
  BY <1>1, <1>2
  DEF Next, ConsensusReached, ConsensusLost, SubmitReportData, SubmitReportExtraDataEmpty,
      SubmitReportExtraDataList, SetConsensusVersion, SetConsensusContract, ChainStep, vars

(* The unprocessed slot of the register stays one that was reached.        *)
LEMMA ReachedStep ==
  ASSUME TypeOK, SlotIsReached, [Next]_vars
  PROVE  SlotIsReached'
<1>0. /\ report \in Register(ReportData)
      /\ report.refSlot \in Nat /\ report.lastProcessingRefSlot \in Nat
      /\ candidates' = candidates /\ candidates \subseteq ConsensusContracts
      /\ now \in Nat /\ now >= GENESIS_TIME
  BY DEF TypeOK, Register, Next, ConsensusReached, ConsensusLost, SubmitReportData,
         SubmitReportExtraDataEmpty, SubmitReportExtraDataList, SetConsensusVersion,
         SetConsensusContract, ChainStep, Tick, vars
<1>1. CASE ConsensusReached
  <2>1. Frame(consensusContract, now).refSlot \in Nat /\ HasFrame(consensusContract, now)
    BY <1>1, CurrentFrame, ConfigType DEF ConsensusReached, TypeOK
  <2>2. report'.refSlot = Frame(consensusContract, now).refSlot /\ now' = now
        /\ consensusContract \in candidates
    BY <1>0, <1>1
    DEF ConsensusReached, SubmitConsensusReport, Register, TypeOK
  <2>3. HasFrame(consensusContract, now') /\ report'.refSlot <= Frame(consensusContract, now').refSlot
    BY <2>1, <2>2
  <2> QED BY <1>0, <2>2, <2>3 DEF SlotIsReached, HasFrame, Frame
<1>2. CASE SubmitReportData
  BY <1>0, <1>2 DEF SubmitReportData, StartProcessing, Register, SlotIsReached
<1>3. CASE UNCHANGED now /\ report'.refSlot = report.refSlot
           /\ report'.lastProcessingRefSlot = report.lastProcessingRefSlot
  BY <1>0, <1>3 DEF SlotIsReached, HasFrame, Frame
<1>4. CASE Tick
  <2>1. now' = now + SECONDS_PER_SLOT /\ report' = report
    BY <1>4 DEF Tick
  <2>2. ASSUME NEW c \in candidates, HasFrame(c, now), report.refSlot <= Frame(c, now).refSlot
        PROVE  HasFrame(c, now') /\ report.refSlot <= Frame(c, now').refSlot
    <3>1. c \in ConsensusContracts /\ FrameLength(c) \in Nat /\ Frame(c, now).refSlot \in Nat
      BY <1>0, <2>2, CurrentFrame, ConfigType
    <3>2. HasFrame(c, now')
      BY <1>0, <2>1, <2>2, <3>1, FrameAdvances
    <3>3. \/ Frame(c, now').refSlot = Frame(c, now).refSlot
          \/ /\ Frame(c, now').refSlot = ComputeSlotAtTimestamp(now)
             /\ Frame(c, now').refSlot >= Frame(c, now).refSlot + FrameLength(c)
      BY <1>0, <2>1, <2>2, <3>1, FrameAdvances
    <3>4. ComputeSlotAtTimestamp(now) \in Nat
      BY <1>0, EpochType
    <3> QED BY <1>0, <2>2, <3>1, <3>2, <3>3, <3>4
  <2> QED BY <1>0, <2>1, <2>2 DEF SlotIsReached, HasFrame, Frame
<1>5. CASE ConsensusLost
  <2>1. UNCHANGED now /\ report'.refSlot = report.refSlot
        /\ report'.lastProcessingRefSlot = report.lastProcessingRefSlot
    BY <1>0, <1>5 DEF ConsensusLost, DiscardConsensusReport, Register
  <2> QED BY <2>1, <1>3
<1> QED
  BY <1>1, <1>2, <1>3, <1>4, <1>5
  DEF Next, SubmitReportExtraDataEmpty,
      SubmitReportExtraDataList, SetConsensusVersion, SetConsensusContract, ChainStep, vars

-----------------------------------------------------------------------------
(* One consensus contract *)

(* A held report whose deadline is not over is one of the current frame.   *)
LEMMA CurrentReport ==
  ASSUME TypeOK, NEW c \in ConsensusContracts, HeldReport(c),
         report.hash # NoHash, now <= report.processingDeadlineTime
  PROVE  /\ HasFrame(c, now)
         /\ report.refSlot = Frame(c, now).refSlot
         /\ report.hash.seen = observed[c]
<1>1. /\ HasFrame(c, now)
      /\ report.processingDeadlineTime =
           ComputeTimestampAtSlot(report.refSlot + FrameLength(c))
      /\ \/ report.refSlot = Frame(c, now).refSlot /\ report.hash.seen = observed[c]
         \/ report.refSlot + FrameLength(c) <= Frame(c, now).refSlot
  BY DEF HeldReport
<1>2. ASSUME report.refSlot + FrameLength(c) <= Frame(c, now).refSlot PROVE FALSE
  <2>1. report.refSlot + FrameLength(c) \in Nat /\ now \in Nat /\ now >= GENESIS_TIME
    BY ConfigType DEF TypeOK, Register
  <2>2. ComputeSlotAtTimestamp(now) <= report.refSlot + FrameLength(c)
    BY <1>1, <2>1, SlotNotAfter
  <2>3. /\ Frame(c, now).refSlot < ComputeSlotAtTimestamp(now)
        /\ Frame(c, now).refSlot \in Nat /\ ComputeSlotAtTimestamp(now) \in Nat
    BY <1>1, <2>1, CurrentFrame
  <2> QED BY <1>2, <2>1, <2>2, <2>3
<1> QED BY <1>1, <1>2

(* When the clock reaches the next slot, the observation of a contract     *)
(* stays with its frame, or both are new.                                  *)
LEMMA ObservationStep ==
  ASSUME TypeOK, Tick, NEW c \in ConsensusContracts, HasFrame(c, now')
  PROVE  \/ /\ HasFrame(c, now) /\ Frame(c, now').refSlot = Frame(c, now).refSlot
            /\ observed'[c] = observed[c]
         \/ /\ Frame(c, now').refSlot = ComputeSlotAtTimestamp(now)
            /\ HasFrame(c, now) =>
                 Frame(c, now').refSlot >= Frame(c, now).refSlot + FrameLength(c)
            /\ observed'[c] = Seen(ComputeSlotAtTimestamp(now))
<1>1. now' = now + SECONDS_PER_SLOT /\ now \in Nat /\ now >= GENESIS_TIME
  BY DEF Tick, TypeOK
<1>2. observed'[c] = IF Frame(c, now').refSlot = ComputeSlotAtTimestamp(now)
                       THEN Seen(ComputeSlotAtTimestamp(now)) ELSE observed[c]
  BY DEF Tick
<1>3. CASE ~HasFrame(c, now)
  <2>1. FrameConfigOf[c] \in FrameConfigType /\ FrameComputable(FrameConfigOf[c])
    BY ConfigType
  <2>2. Frame(c, now').refSlot = ComputeSlotAtTimestamp(now)
    BY <1>1, <1>3, <2>1, NewFrame DEF HasFrame, Frame
  <2> QED BY <1>2, <1>3, <2>2
<1>4. CASE HasFrame(c, now)
  <2>1. \/ Frame(c, now').refSlot = Frame(c, now).refSlot
        \/ /\ Frame(c, now').refSlot = ComputeSlotAtTimestamp(now)
           /\ Frame(c, now').refSlot >= Frame(c, now).refSlot + FrameLength(c)
    BY <1>1, <1>4, FrameAdvances
  <2>2. Frame(c, now).refSlot < ComputeSlotAtTimestamp(now)
        /\ Frame(c, now).refSlot \in Nat /\ ComputeSlotAtTimestamp(now) \in Nat
    BY <1>1, <1>4, CurrentFrame
  <2>3. ComputeSlotAtTimestamp(now) # Frame(c, now).refSlot
    BY <2>2
  <2> QED BY <1>2, <1>4, <2>1, <2>3
<1> QED BY <1>3, <1>4

(* The held report stays one of the current frame or gets too old.         *)
LEMMA HeldStep ==
  ASSUME TypeOK, [Next]_vars, candidates = {consensusContract},
         HeldReport(consensusContract)
  PROVE  HeldReport(consensusContract)'
<1> DEFINE c == consensusContract
<1>0. /\ c \in ConsensusContracts /\ report \in Register(ReportData)
      /\ report.refSlot \in Nat /\ now \in Nat /\ now >= GENESIS_TIME
      /\ FrameLength(c) \in Nat
  BY ConfigType DEF TypeOK, Register
<1>1. consensusContract' = c
  BY DEF Next, ConsensusReached, ConsensusLost, SubmitReportData,
         SubmitReportExtraDataEmpty, SubmitReportExtraDataList, SetConsensusVersion,
         SetConsensusContract, ChainStep, Tick, vars
<1>2. HeldReport(consensusContract)' =
        (report'.hash # NoHash =>
           /\ HasFrame(c, now')
           /\ report'.processingDeadlineTime =
                ComputeTimestampAtSlot(report'.refSlot + FrameLength(c))
           /\ \/ report'.refSlot = Frame(c, now').refSlot /\ report'.hash.seen = observed'[c]
              \/ report'.refSlot + FrameLength(c) <= Frame(c, now').refSlot)
  BY <1>1 DEF HeldReport, HasFrame, Frame, FrameLength, ComputeTimestampAtSlot
<1>3. CASE ConsensusReached
  <2> DEFINE frame == Frame(c, now)
  <2>1. HasFrame(c, now) /\ now' = now /\ observed' = observed
    BY <1>3 DEF ConsensusReached
  <2>2. report'.refSlot = frame.refSlot /\ report'.hash = Agreed
        /\ report'.processingDeadlineTime =
             ComputeTimestampAtSlot(frame.reportProcessingDeadlineSlot)
    BY <1>0, <1>3 DEF ConsensusReached, SubmitConsensusReport, Register
  <2>3. frame.reportProcessingDeadlineSlot = frame.refSlot + FrameLength(c)
    BY <1>0, <2>1, CurrentFrame
  <2>4. Agreed.seen = observed[c]
    BY DEF Agreed
  <2> HIDE DEF c, frame
  <2>5. report'.hash.seen = observed'[c]
    BY <2>1, <2>2, <2>4
  <2>6. report'.processingDeadlineTime =
             ComputeTimestampAtSlot(report'.refSlot + FrameLength(c))
    BY <2>2, <2>3
  <2> QED BY <1>2, <2>1, <2>2, <2>5, <2>6 DEF frame
<1>4. CASE /\ UNCHANGED <<now, observed>>
           /\ \/ report'.hash = NoHash
              \/ /\ report'.hash = report.hash /\ report'.refSlot = report.refSlot
                 /\ report'.processingDeadlineTime = report.processingDeadlineTime
  BY <1>2, <1>4 DEF HeldReport
<1>5. CASE ConsensusLost \/ SubmitReportData
  BY <1>0, <1>4, <1>5
  DEF ConsensusLost, SubmitReportData, DiscardConsensusReport, StartProcessing, Register
<1>6. CASE Tick
  <2>1. report' = report
    BY <1>6 DEF Tick
  <2>2. SUFFICES ASSUME report.hash # NoHash
                 PROVE  /\ HasFrame(c, now')
                        /\ \/ report.refSlot = Frame(c, now').refSlot
                              /\ report.hash.seen = observed'[c]
                           \/ report.refSlot + FrameLength(c) <= Frame(c, now').refSlot
    BY <1>2, <2>1 DEF HeldReport
  <2>3. HasFrame(c, now)
    BY <2>2 DEF HeldReport
  <2>4. HasFrame(c, now')
    BY <1>0, <1>6, <2>3, FrameAdvances DEF Tick
  <2>5. \/ /\ Frame(c, now').refSlot = Frame(c, now).refSlot
           /\ observed'[c] = observed[c]
        \/ Frame(c, now').refSlot >= Frame(c, now).refSlot + FrameLength(c)
    BY <1>0, <1>6, <2>3, <2>4, ObservationStep
  <2>6. Frame(c, now).refSlot \in Nat
    BY <1>0, <2>3, CurrentFrame
  <2>7. Frame(c, now').refSlot \in Nat
    <3>1. now' \in Nat /\ now' >= GENESIS_TIME
      BY <1>0, <1>6, ChainSpecAssumption DEF Tick
    <3> QED BY <1>0, <2>4, <3>1, CurrentFrame
  <2>8. CASE report.refSlot = Frame(c, now).refSlot /\ report.hash.seen = observed[c]
    BY <1>0, <2>4, <2>5, <2>6, <2>7, <2>8
  <2>9. CASE report.refSlot + FrameLength(c) <= Frame(c, now).refSlot
    BY <1>0, <2>4, <2>5, <2>6, <2>7, <2>9
  <2> QED BY <2>2, <2>8, <2>9 DEF HeldReport
<1> QED
  BY <1>3, <1>4, <1>5, <1>6
  DEF Next, SubmitReportExtraDataEmpty, SubmitReportExtraDataList, SetConsensusVersion,
      SetConsensusContract, ChainStep, vars

(* The counts that are not outdated stay the observed ones until the extra *)
(* data of the frame is in.                                                *)
LEMMA RestStep ==
  ASSUME TypeOK, SlotsOrdered, [Next]_vars, candidates = {consensusContract},
         HeldReport(consensusContract), RestIsCurrent(consensusContract)
  PROVE  RestIsCurrent(consensusContract)'
<1> DEFINE c == consensusContract
           Current(n, e, s, o) ==
             /\ o[c].refSlot = Frame(c, n).refSlot
             /\ ~(e.refSlot = Frame(c, n).refSlot /\ e.submitted) =>
                  \A op \in Operators \ o[c].outdated : s[op] = o[c].counts[op]
<1>0. /\ c \in ConsensusContracts /\ report \in Register(ReportData)
      /\ report.refSlot \in Nat /\ report.lastProcessingRefSlot \in Nat
      /\ now \in Nat /\ now >= GENESIS_TIME
      /\ extra.refSlot \in Nat /\ extra \in ExtraState
  BY ConfigType DEF TypeOK, Register, ExtraState
<1>1. consensusContract' = c
  BY DEF Next, ConsensusReached, ConsensusLost, SubmitReportData,
         SubmitReportExtraDataEmpty, SubmitReportExtraDataList, SetConsensusVersion,
         SetConsensusContract, ChainStep, Tick, vars
<1>2. /\ RestIsCurrent(consensusContract)' =
           (HasFrame(c, now') => Current(now', extra', stuck', observed'))
      /\ HasFrame(c, now) => Current(now, extra, stuck, observed)
  BY <1>1 DEF RestIsCurrent, HasFrame, Frame
<1>3. CASE UNCHANGED <<now, extra, stuck, observed>>
  BY <1>2, <1>3
<1>4. CASE SubmitReportData
  <2>1. /\ UNCHANGED <<now, stuck, observed>>
        /\ report.hash # NoHash /\ now <= report.processingDeadlineTime
        /\ report.lastProcessingRefSlot # report.refSlot
    BY <1>4 DEF SubmitReportData, CanStartProcessing
  <2>2. HasFrame(c, now) /\ report.refSlot = Frame(c, now).refSlot
    BY <1>0, <2>1, CurrentReport
  <2>3. extra.refSlot # Frame(c, now).refSlot
    BY <1>0, <2>1, <2>2 DEF SlotsOrdered
  <2> QED BY <1>2, <2>1, <2>2, <2>3
<1>5. CASE SubmitReportExtraDataEmpty \/ SubmitReportExtraDataList
  <2>1. /\ UNCHANGED <<now, observed>>
        /\ report.hash # NoHash /\ now <= report.processingDeadlineTime
        /\ extra.refSlot = report.refSlot
        /\ extra'.refSlot = extra.refSlot /\ extra'.submitted
    BY <1>0, <1>5
    DEF SubmitReportExtraDataEmpty, SubmitReportExtraDataList, CanSubmitExtraData, ExtraState
  <2>2. HasFrame(c, now) /\ report.refSlot = Frame(c, now).refSlot
    BY <1>0, <2>1, CurrentReport
  <2> QED BY <1>2, <2>1, <2>2
<1>6. CASE Tick
  <2>1. SUFFICES ASSUME HasFrame(c, now')
                 PROVE  Current(now', extra', stuck', observed')
    BY <1>2
  <2>2. extra' = extra /\ stuck' = stuck
    BY <1>6 DEF Tick
  <2>3. CASE /\ HasFrame(c, now) /\ Frame(c, now').refSlot = Frame(c, now).refSlot
             /\ observed'[c] = observed[c]
    BY <1>2, <2>2, <2>3
  <2>4. CASE /\ Frame(c, now').refSlot = ComputeSlotAtTimestamp(now)
             /\ observed'[c] = Seen(ComputeSlotAtTimestamp(now))
    BY <2>2, <2>4 DEF Seen
  <2> QED BY <1>0, <1>6, <2>1, <2>3, <2>4, ObservationStep
<1> QED
  BY <1>3, <1>4, <1>5, <1>6
  DEF Next, ConsensusReached, ConsensusLost, SetConsensusVersion, SetConsensusContract,
      ChainStep, vars

(* Both facts, for the contract if it is the only candidate.               *)
LEMMA OneContractStep ==
  ASSUME TypeOK, SlotsOrdered, OneContract, [Next]_vars
  PROVE  OneContract'
<1> SUFFICES ASSUME candidates' = {consensusContract'}
             PROVE  HeldReport(consensusContract)' /\ RestIsCurrent(consensusContract)'
  BY DEF OneContract
<1>1. candidates' = candidates
  BY DEF Next, ConsensusReached, ConsensusLost, SubmitReportData,
         SubmitReportExtraDataEmpty, SubmitReportExtraDataList, SetConsensusVersion,
         SetConsensusContract, ChainStep, Tick, vars
<1>2. candidates = {consensusContract}
  BY <1>1 DEF TypeOK
<1> QED BY <1>2, HeldStep, RestStep DEF OneContract

-----------------------------------------------------------------------------
(* The invariant and the properties *)

(* Every reachable state satisfies the invariant.                          *)
THEOREM Invariance == Spec => []Inv
<1>1. ASSUME Inv, [Next]_vars PROVE Inv'
  BY <1>1, TypeStep, SlotsStep, ExtraStep, AlignedStep, ReachedStep, OneContractStep
  DEF Inv
<1> QED BY InitInv, <1>1, PTL DEF Spec

(* The extra data that may still be submitted belongs to the report in the *)
(* register, for any consensus contracts, frames and operators.            *)
THEOREM ExtraBelongs == Spec => []ExtraDataOfReport
BY Invariance, PTL DEF Inv

(* The processed slot and the slot of the register never go back, whatever *)
(* contracts are set.                                                      *)
THEOREM SlotsNeverGoBack == Spec => SlotsAdvance
<1> DEFINE Step ==
      /\ report'.lastProcessingRefSlot >= report.lastProcessingRefSlot
      /\ report'.refSlot >= report.refSlot
      /\ report'.lastProcessingRefSlot <= report'.refSlot
      /\ extra'.refSlot # extra.refSlot => extra'.refSlot > extra.refSlot
<1>1. Inv /\ [Next]_vars => [Step]_vars
  BY SlotsStep DEF Inv
<1>2. Spec => [][Step]_vars
  BY <1>1, Invariance, PTL DEF Spec
<1> QED BY <1>2 DEF SlotsAdvance

(* The oracle accepts a report for the current reference slot until one is *)
(* being processed, unless a replaced contract was ahead.                  *)
THEOREM Accepts == Spec => []NeverStalled
<1>1. ASSUME Inv PROVE NeverStalled
  <2> USE DEF Inv
  <2> DEFINE c == consensusContract
             frame == Frame(c, now)
             slot == ComputeSlotAtTimestamp(now)
  <2>1. SUFFICES ASSUME HasFrame(c, now), ~(report.lastProcessingRefSlot >= frame.refSlot),
                        \A d \in candidates :
                          ~(HasFrame(d, now) /\ Frame(d, now).refSlot > frame.refSlot)
                 PROVE  CanSubmitConsensusReport(report, Agreed, frame.refSlot,
                          ComputeTimestampAtSlot(frame.reportProcessingDeadlineSlot), now)
    BY DEF NeverStalled
  <2>2. /\ c \in ConsensusContracts /\ now \in Nat /\ now >= GENESIS_TIME
        /\ report.refSlot \in Nat /\ report.lastProcessingRefSlot \in Nat
        /\ candidates \subseteq ConsensusContracts
    BY <1>1 DEF TypeOK, Register
  <2>3. /\ frame.refSlot \in Nat /\ slot \in Nat /\ FrameLength(c) \in Nat
        /\ frame.reportProcessingDeadlineSlot = frame.refSlot + FrameLength(c)
        /\ slot <= frame.refSlot + FrameLength(c)
    BY <2>1, <2>2, CurrentFrame, ConfigType
  <2>4. frame.refSlot >= report.refSlot
    <3>1. CASE report.refSlot = report.lastProcessingRefSlot
      BY <2>1, <2>2, <2>3, <3>1
    <3>2. ASSUME NEW d \in candidates, HasFrame(d, now),
                 report.refSlot <= Frame(d, now).refSlot
          PROVE  frame.refSlot >= report.refSlot
      <4>1. Frame(d, now).refSlot \in Nat
        BY <2>2, <3>2, CurrentFrame
      <4>2. Frame(d, now).refSlot <= frame.refSlot
        BY <2>1, <2>3, <3>2, <4>1
      <4> QED BY <2>2, <2>3, <3>2, <4>1, <4>2
    <3> QED BY <1>1, <3>1, <3>2 DEF SlotIsReached
  <2>5. now <= ComputeTimestampAtSlot(frame.reportProcessingDeadlineSlot)
    <3>1. slot <= frame.reportProcessingDeadlineSlot
          /\ frame.reportProcessingDeadlineSlot \in Nat
      BY <2>3
    <3>2. now = ComputeTimestampAtSlot(slot)
      BY <1>1 DEF Aligned
    <3> HIDE DEF slot, frame
    <3> QED BY <2>3, <3>1, <3>2, TimestampMonotone
  <2>6. Agreed \in ReportData
    BY <1>1 DEF Agreed, ReportData, TypeOK
  <2>7. Agreed # NoHash
    BY <2>6, AccountingOracleAssumption
  <2>8. frame.refSlot > report.lastProcessingRefSlot
    BY <2>1, <2>2, <2>3
  <2> QED BY <2>4, <2>5, <2>7, <2>8 DEF CanSubmitConsensusReport
<1> QED BY <1>1, Invariance, PTL

(* With one consensus contract, the stored counts after the extra data are *)
(* the ones seen at the reference slot.                                    *)
LEMMA CompleteStep ==
  ASSUME Inv, Next, candidates = {consensusContract},
         ~extra.submitted, extra'.submitted
  PROVE  stuck' = report.hash.seen.counts
<1> USE DEF Inv
<1> DEFINE c == consensusContract
           seen == report.hash.seen
<1>1. SubmitReportExtraDataEmpty \/ SubmitReportExtraDataList
  BY DEF Next, ConsensusReached, ConsensusLost, SubmitReportData,
         SetConsensusVersion, SetConsensusContract, ChainStep, Tick
<1>2. /\ report.hash # NoHash /\ extra.refSlot = report.refSlot
      /\ now <= report.processingDeadlineTime /\ ~extra.submitted
  BY <1>1 DEF SubmitReportExtraDataEmpty, SubmitReportExtraDataList, CanSubmitExtraData
<1>3. c \in ConsensusContracts /\ HeldReport(c) /\ RestIsCurrent(c) /\ TypeOK
  BY DEF TypeOK, OneContract
<1>4. HasFrame(c, now) /\ report.refSlot = Frame(c, now).refSlot /\ seen = observed[c]
  BY <1>2, <1>3, CurrentReport
<1>5. extra.items = ItemsOf(seen)
  BY <1>2 DEF ExtraDataOfReport
<1>6. \A op \in Operators \ seen.outdated : stuck[op] = seen.counts[op]
  BY <1>2, <1>3, <1>4 DEF RestIsCurrent
<1>7. seen \in Observation
  BY <1>3, <1>4 DEF TypeOK
<1>8. /\ seen.outdated \subseteq Operators /\ seen.counts \in [Operators -> 0 .. MaxCount]
      /\ stuck \in [Operators -> 0 .. MaxCount]
  BY <1>3, <1>7 DEF TypeOK, Observation
<1>9. DOMAIN extra.items = seen.outdated
      /\ \A op \in seen.outdated : extra.items[op] = seen.counts[op]
  BY <1>5 DEF ItemsOf
<1> HIDE DEF c, seen
<1>10. CASE SubmitReportExtraDataEmpty
  <2>1. stuck' = stuck /\ seen.outdated = {}
    BY <1>9, <1>10 DEF SubmitReportExtraDataEmpty
  <2>2. \A op \in Operators : stuck[op] = seen.counts[op]
    BY <1>6, <2>1
  <2>3. stuck = seen.counts
    BY <1>8, <2>2
  <2> QED BY <2>1, <2>3 DEF seen
<1>11. CASE SubmitReportExtraDataList
  <2>1. stuck' = [op \in Operators |-> IF op \in DOMAIN extra.items
                                       THEN extra.items[op] ELSE stuck[op]]
    BY <1>11 DEF SubmitReportExtraDataList
  <2>2. \A op \in Operators : stuck'[op] = seen.counts[op]
    BY <1>6, <1>9, <2>1
  <2>3. stuck' = [op \in Operators |-> seen.counts[op]]
    BY <1>6, <1>9, <2>1
  <2>4. seen.counts = [op \in Operators |-> seen.counts[op]]
    BY <1>8
  <2> QED BY <2>3, <2>4 DEF seen
<1> QED BY <1>1, <1>10, <1>11

(* Every operator has the count of the reference slot once the extra data  *)
(* is in, for any operators, counts and frames.                            *)
THEOREM CompleteCounts == Spec => CountsAreComplete
<1> DEFINE Step == candidates = {consensusContract} /\ ~extra.submitted /\ extra'.submitted =>
                     stuck' = report.hash.seen.counts
<1>1. Inv /\ [Next]_vars => [Step]_vars
  BY CompleteStep
<1>2. Spec => [][Step]_vars
  BY <1>1, Invariance, PTL DEF Spec
<1> QED BY <1>2 DEF CountsAreComplete
=============================================================================
