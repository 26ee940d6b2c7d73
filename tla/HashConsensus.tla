---------------------------- MODULE HashConsensus ----------------------------
(***************************************************************************)
(* One HashConsensus contract together with the report registers of the    *)
(* oracle contracts (the report processors) it talks to.  A transaction is *)
(* one action: the contract and the processor it calls change together,    *)
(* and a call that reverts anywhere is not an action.                      *)
(*                                                                         *)
(* Abstractions:                                                           *)
(*  - _reportVariants is the sequence of the variants below                *)
(*    _reportVariantsLength; the stale entries above it are dropped.  Its  *)
(*    indices start at 1, and so do _memberIndices1b and the positions in  *)
(*    the two member arrays.                                               *)
(*  - submitReport takes the current reference slot and the expected       *)
(*    consensus version: any other value reverts.                          *)
(*  - roles are not modelled: an administrative call may come at any time. *)
(*  - submitReport on a frame that is already being processed returns      *)
(*    without a state change, which is a stuttering step.                  *)
(***************************************************************************)
EXTENDS ReportingFrames, BaseOracle, Sequences, FiniteSets

CONSTANTS
  Addresses,            \* accounts that may be committee members
  Hashes,               \* report hashes members may submit
  Processors,           \* report processor contracts
  UNREACHABLE_QUORUM,   \* type(uint256).max
  FarFutureEpoch,       \* the initial epoch the constructor sets
  Quorums,              \* quorum values an administrator passes
  FrameConfigs,         \* <<epochsPerFrame, fastLaneLengthSlots>> choices
  InitialEpochs,        \* initial epochs an administrator passes
  InitialRefSlots,      \* last processed reference slot of a new processor
  MaxTime,              \* bound: the clock stops here
  MaxSupport            \* bound: no report is taken that would count further

ASSUME HashConsensusAssumption ==
  /\ IsFiniteSet(Addresses)
  /\ NoHash \notin Hashes
  /\ Quorums \subseteq Nat
  /\ UNREACHABLE_QUORUM \in Nat /\ UNREACHABLE_QUORUM > Cardinality(Addresses)
  /\ FrameConfigs \subseteq (Nat \X Nat)
  /\ InitialEpochs \subseteq Nat
  /\ InitialRefSlots \subseteq Nat
  /\ FarFutureEpoch \in Nat \ {0}
  /\ MaxTime \in Nat /\ MaxSupport \in Nat

VARIABLES
  now,                        \* block.timestamp
  frameConfig,                \* _frameConfig
  memberAddresses,            \* _memberAddresses
  memberStates,               \* _memberStates
  memberIndices1b,            \* _memberIndices1b
  lastReportRefSlot,          \* _reportingState.lastReportRefSlot
  lastConsensusRefSlot,       \* _reportingState.lastConsensusRefSlot
  lastConsensusVariantIndex,  \* _reportingState.lastConsensusVariantIndex
  quorum,                     \* _quorum
  reportVariants,             \* _reportVariants[0 .. _reportVariantsLength)
  reportProcessor,            \* _reportProcessor
  oracle                      \* the register of each processor

memberVars    == <<memberAddresses, memberStates, memberIndices1b>>
consensusVars == <<lastConsensusRefSlot, lastConsensusVariantIndex, oracle>>
vars == <<now, frameConfig, memberVars, lastReportRefSlot, consensusVars,
          quorum, reportVariants, reportProcessor>>

MemberState == [lastReportRefSlot : Nat, lastReportVariantIndex : Nat]

Variant == [hash : Hashes, support : Nat]

TypeOK ==
  /\ now \in Nat /\ now >= GENESIS_TIME
  /\ frameConfig \in FrameConfigType
  /\ memberAddresses \in Seq(Addresses)
  /\ memberStates \in Seq(MemberState)
  /\ memberIndices1b \in [Addresses -> Nat]
  /\ lastReportRefSlot \in Nat
  /\ lastConsensusRefSlot \in Nat
  /\ lastConsensusVariantIndex \in Nat
  /\ quorum \in Nat
  /\ reportVariants \in Seq(Variant)
  /\ reportProcessor \in Processors
  /\ oracle \in [Processors -> Register(Hashes)]

Init ==
  /\ now = GENESIS_TIME
  /\ \E fc \in FrameConfigs :
        frameConfig = [initialEpoch |-> FarFutureEpoch,
                       epochsPerFrame |-> fc[1], fastLaneLengthSlots |-> fc[2]]
  /\ ValidFrameConfig(frameConfig)
  /\ memberAddresses = <<>>
  /\ memberStates = <<>>
  /\ memberIndices1b = [a \in Addresses |-> 0]
  /\ lastReportRefSlot = 0
  /\ lastConsensusRefSlot = 0
  /\ lastConsensusVariantIndex = 1
  /\ quorum = 0
  /\ reportVariants = <<>>
  /\ reportProcessor \in Processors
  /\ oracle \in [Processors -> {InitRegister(s) : s \in InitialRefSlots}]

-----------------------------------------------------------------------------
(* Views *)

HasCurrentFrame == HasArrived(now, frameConfig)

CurrentFrame == GetFrameAtTimestamp(now, frameConfig)

CurrentSlot == ComputeSlotAtTimestamp(now)

IsMember(a) == memberIndices1b[a] # 0

TotalMembers == Len(memberStates)

LastProcessingRefSlot == oracle[reportProcessor].lastProcessingRefSlot

(* The members at 0-based positions [left, pastRight) mod total. *)
FastLaneSubset(frameIndex) ==
  IF quorum >= TotalMembers
    THEN [left |-> 0, pastRight |-> TotalMembers]
    ELSE LET start == frameIndex % TotalMembers
         IN  [left |-> start, pastRight |-> start + quorum]

(* x \in [a, b] (mod n) *)
PointInClosedIntervalModN(x, a, b, n) == (x + n - a) % n <= (b - a) % n

(* Mutant: the closed interval taken up to pastRight. *)
IsFastLaneMemberOffByOne(index, frameIndex) ==
  LET fl == FastLaneSubset(frameIndex)
  IN  /\ fl.pastRight # 0
      /\ PointInClosedIntervalModN(index, fl.left, fl.pastRight, TotalMembers)

IsFastLaneMember(index, frameIndex) ==
  LET fl == FastLaneSubset(frameIndex)
  IN  /\ fl.pastRight # 0
      /\ PointInClosedIntervalModN(index, fl.left, fl.pastRight - 1, TotalMembers)

-----------------------------------------------------------------------------
(* Reaching and losing consensus *)

SubmitReportForProcessing(p, frame, hash) ==
  LET deadline == ComputeTimestampAtSlot(frame.reportProcessingDeadlineSlot)
  IN  /\ CanSubmitConsensusReport(oracle[p], hash, frame.refSlot, deadline, now)
      /\ oracle' = [oracle EXCEPT ![p] =
                      SubmitConsensusReport(@, hash, frame.refSlot, deadline)]

CancelReportProcessing(frame) ==
  /\ CanDiscardConsensusReport(oracle[reportProcessor], frame.refSlot)
  /\ oracle' = [oracle EXCEPT ![reportProcessor] =
                  DiscardConsensusReport(@, frame.refSlot)]

(* Mutant: the slot of the consensus is not recorded. *)
ConsensusReachedUnrecorded(frame, hash, variantIndex) ==
  /\ UNCHANGED lastConsensusRefSlot
  /\ lastConsensusVariantIndex' = variantIndex
  /\ SubmitReportForProcessing(reportProcessor, frame, hash)

ConsensusReached(frame, hash, variantIndex) ==
  IF \/ lastConsensusRefSlot # frame.refSlot
     \/ lastConsensusVariantIndex # variantIndex
    THEN /\ lastConsensusRefSlot' = frame.refSlot
         /\ lastConsensusVariantIndex' = variantIndex
         /\ SubmitReportForProcessing(reportProcessor, frame, hash)
    ELSE UNCHANGED consensusVars

ConsensusNotReached(frame) ==
  IF lastConsensusRefSlot = frame.refSlot
    THEN /\ lastConsensusRefSlot' = 0
         /\ UNCHANGED lastConsensusVariantIndex
         /\ CancelReportProcessing(frame)
    ELSE UNCHANGED consensusVars

(* Mutant: more than a quorum is asked for. *)
WinnersStrict(variants, refSlot, q) ==
  {v \in DOMAIN variants : lastReportRefSlot = refSlot /\ variants[v].support > q}

(* The variants that _getConsensusReport may return: it takes the first.    *)
Winners(variants, refSlot, q) ==
  {v \in DOMAIN variants : lastReportRefSlot = refSlot /\ variants[v].support >= q}

CheckConsensus(q, variants) ==
  LET frame == CurrentFrame
      winners == Winners(variants, frame.refSlot, q)
  IN  /\ FrameComputable(frameConfig)
      /\ IF \/ CurrentSlot > frame.reportProcessingDeadlineSlot
            \/ LastProcessingRefSlot >= frame.refSlot
           THEN UNCHANGED consensusVars
           ELSE \/ winners = {} /\ ConsensusNotReached(frame)
                \/ \E v \in winners :
                     /\ \A w \in winners : v <= w
                     /\ ConsensusReached(frame, variants[v].hash, v)

(* Mutant: the consensus is not checked again after a change of the quorum. *)
SetQuorumOnly(q, totalMembers, variants) ==
  /\ q > totalMembers \div 2
  /\ quorum' = q
  /\ UNCHANGED consensusVars

(* `variants` and `totalMembers` are those of the transaction so far. *)
SetQuorumAndCheckConsensus(q, totalMembers, variants) ==
  /\ q > totalMembers \div 2                              \* QuorumTooSmall
  /\ quorum' = q
  /\ IF HasCurrentFrame THEN CheckConsensus(q, variants)
                        ELSE UNCHANGED consensusVars

-----------------------------------------------------------------------------
(* Member calls *)

(* Where the search for the hash among the variants stops: at its variant, *)
(* or past the last one.                                                   *)
StopsAt(v, prior, hash) ==
  /\ v \in 1 .. Len(prior) + 1
  /\ \A w \in 1 .. v - 1 : prior[w].hash # hash
  /\ v <= Len(prior) => prior[v].hash = hash

(* The variants once the member's earlier report for the slot is withdrawn *)
(* and the new one is counted.                                             *)
Withdraw(prior, v) == [prior EXCEPT ![v].support = @ - 1]

Count(variants, v, hash) ==
  IF v <= Len(variants) THEN [variants EXCEPT ![v].support = @ + 1]
                        ELSE Append(variants, [hash |-> hash, support |-> 1])

(* Mutant: the variants of the last slot stay. *)
PriorVariantsKept(slot) == reportVariants

(* Reporting starts a new list of variants with each new reference slot.   *)
PriorVariants(slot) == IF lastReportRefSlot # slot THEN <<>> ELSE reportVariants

CanReport(member) ==
  LET frame == CurrentFrame
      index == memberIndices1b[member]
  IN  /\ HasCurrentFrame /\ FrameComputable(frameConfig)
      /\ IsMember(member)                                       \* NonMember
      /\ frame.refSlot # 0                                      \* InvalidSlot
      /\ CurrentSlot <= frame.reportProcessingDeadlineSlot      \* StaleReport
      /\ \/ CurrentSlot > frame.refSlot + frameConfig.fastLaneLengthSlots
         \/ IsFastLaneMember(index - 1, frame.index)
      /\ frame.refSlot > LastProcessingRefSlot

SubmitReport(member, hash) ==
  /\ CanReport(member)
  /\ LET frame    == CurrentFrame
         index    == memberIndices1b[member]
         prior    == PriorVariants(frame.refSlot)
         reported == memberStates[index].lastReportRefSlot = frame.refSlot
         prevVar  == memberStates[index].lastReportVariantIndex
         withdrawn == IF reported THEN Withdraw(prior, prevVar) ELSE prior
     IN  /\ reported => /\ prevVar \in DOMAIN prior          \* the assert
                        /\ prior[prevVar].support > 0        \* underflow
         /\ lastReportRefSlot' = frame.refSlot
         /\ \E varIndex \in 1 .. Len(prior) + 1 :
              LET variants == Count(withdrawn, varIndex, hash)
                  support  == variants[varIndex].support
                  prevConsensusLost ==
                    reported /\ withdrawn[prevVar].support = quorum - 1
              IN  /\ StopsAt(varIndex, prior, hash)
                  /\ reported => varIndex # prevVar           \* DuplicateReport
                  /\ support <= MaxSupport
                  /\ reportVariants' = variants
                  /\ memberStates' = [memberStates EXCEPT ![index] =
                        [lastReportRefSlot |-> frame.refSlot,
                         lastReportVariantIndex |-> varIndex]]
                  /\ IF support >= quorum
                       THEN ConsensusReached(frame, hash, varIndex)
                       ELSE IF prevConsensusLost THEN ConsensusNotReached(frame)
                                                 ELSE UNCHANGED consensusVars
  /\ UNCHANGED <<now, frameConfig, memberAddresses, memberIndices1b,
                 quorum, reportProcessor>>

-----------------------------------------------------------------------------
(* Administrative calls *)

AddMember(a, q) ==
  /\ ~IsMember(a)                                               \* DuplicateMember
  /\ memberStates' = Append(memberStates, [lastReportRefSlot |-> 0,
                                           lastReportVariantIndex |-> 1])
  /\ memberAddresses' = Append(memberAddresses, a)
  /\ memberIndices1b' = [memberIndices1b EXCEPT ![a] = TotalMembers + 1]
  /\ SetQuorumAndCheckConsensus(q, TotalMembers + 1, reportVariants)
  /\ UNCHANGED <<now, frameConfig, lastReportRefSlot, reportVariants,
                 reportProcessor>>

(* The last entry moves to the freed position, then the array is popped. *)
SwapRemove(s, index) ==
  [i \in 1 .. Len(s) - 1 |-> IF i = index THEN s[Len(s)] ELSE s[i]]

(* Mutant: any report of the member is cancelled, of whatever slot. *)
MustCancelAnyReport(state) ==
  /\ state.lastReportRefSlot > 0
  /\ LastProcessingRefSlot < CurrentFrame.refSlot

(* The removed member's report still counts and can be cancelled. *)
MustCancelReport(state) ==
  /\ state.lastReportRefSlot > 0
  /\ state.lastReportRefSlot = CurrentFrame.refSlot
  /\ LastProcessingRefSlot < CurrentFrame.refSlot

RemoveMember(a, q) ==
  LET index == memberIndices1b[a]
      state == memberStates[index]
      last  == memberAddresses[TotalMembers]
      v     == state.lastReportVariantIndex
      variants == IF MustCancelReport(state)
                    THEN [reportVariants EXCEPT ![v].support = @ - 1]
                    ELSE reportVariants
  IN  /\ IsMember(a)                                            \* NonMember
      /\ memberAddresses' = SwapRemove(memberAddresses, index)
      /\ memberStates' = SwapRemove(memberStates, index)
      /\ memberIndices1b' = [memberIndices1b EXCEPT ![last] = index, ![a] = 0]
      /\ state.lastReportRefSlot > 0 => HasCurrentFrame
      /\ MustCancelReport(state) => /\ v \in DOMAIN reportVariants
                                    /\ reportVariants[v].support > 0
      /\ reportVariants' = variants
      /\ SetQuorumAndCheckConsensus(q, TotalMembers - 1, variants)
      /\ UNCHANGED <<now, frameConfig, lastReportRefSlot, reportProcessor>>

(* setQuorum, and disableConsensus when q is UNREACHABLE_QUORUM. *)
SetQuorum(q) ==
  /\ SetQuorumAndCheckConsensus(q, TotalMembers, reportVariants)
  /\ UNCHANGED <<now, frameConfig, memberVars, lastReportRefSlot,
                 reportVariants, reportProcessor>>

DisableConsensus == SetQuorum(UNREACHABLE_QUORUM)

SetReportProcessor(p) ==
  LET frame == CurrentFrame
      prev  == reportProcessor
  IN  /\ p # prev                                    \* NewProcessorCannotBeTheSame
      /\ HasCurrentFrame /\ FrameComputable(frameConfig)
      /\ reportProcessor' = p
      /\ IF /\ oracle[prev].lastProcessingRefSlot < frame.refSlot
            /\ oracle[p].lastProcessingRefSlot < frame.refSlot
            /\ lastConsensusRefSlot = frame.refSlot
           THEN SubmitReportForProcessing(p, frame,
                  reportVariants[lastConsensusVariantIndex].hash)
           ELSE UNCHANGED oracle
      /\ UNCHANGED <<now, frameConfig, memberVars, lastReportRefSlot,
                     lastConsensusRefSlot, lastConsensusVariantIndex,
                     quorum, reportVariants>>

ReconfigureFrames(c) ==
  /\ ValidFrameConfig(c)
  /\ frameConfig' = c
  /\ UNCHANGED <<now, memberVars, lastReportRefSlot, consensusVars, quorum,
                 reportVariants, reportProcessor>>

UpdateInitialEpoch(epoch) ==
  LET c == [frameConfig EXCEPT !.initialEpoch = epoch]
  IN  /\ ~HasCurrentFrame                            \* InitialEpochAlreadyArrived
      /\ FrameComputable(c)
      /\ GetFrameAtIndex(0, c).refSlot >= LastProcessingRefSlot
      /\ ReconfigureFrames(c)

SetFrameConfig(epochsPerFrame, fastLaneLengthSlots) ==
  /\ HasCurrentFrame
  /\ ReconfigureFrames(
       [initialEpoch |-> ComputeFrameStartEpoch(now, frameConfig),
        epochsPerFrame |-> epochsPerFrame,
        fastLaneLengthSlots |-> fastLaneLengthSlots])

SetFastLaneLengthSlots(fastLaneLengthSlots) ==
  ReconfigureFrames([frameConfig EXCEPT
                       !.fastLaneLengthSlots = fastLaneLengthSlots])

-----------------------------------------------------------------------------
(* The environment: time passes, and a processor starts on its report. *)

Tick ==
  /\ now < MaxTime
  /\ now' = now + 1
  /\ UNCHANGED <<frameConfig, memberVars, lastReportRefSlot, consensusVars,
                 quorum, reportVariants, reportProcessor>>

ProcessReport(p) ==
  /\ CanStartProcessing(oracle[p], now)
  /\ oracle' = [oracle EXCEPT ![p] = StartProcessing(@)]
  /\ UNCHANGED <<now, frameConfig, memberVars, lastReportRefSlot,
                 lastConsensusRefSlot, lastConsensusVariantIndex, quorum,
                 reportVariants, reportProcessor>>

Next ==
  \/ \E a \in Addresses, h \in Hashes : SubmitReport(a, h)
  \/ \E a \in Addresses, q \in Quorums : AddMember(a, q)
  \/ \E a \in Addresses, q \in Quorums : RemoveMember(a, q)
  \/ \E q \in Quorums : SetQuorum(q)
  \/ DisableConsensus
  \/ \E p \in Processors : SetReportProcessor(p)
  \/ \E e \in InitialEpochs : UpdateInitialEpoch(e)
  \/ \E fc \in FrameConfigs : SetFrameConfig(fc[1], fc[2])
  \/ \E fc \in FrameConfigs : SetFastLaneLengthSlots(fc[2])
  \/ Tick
  \/ \E p \in Processors : ProcessReport(p)

Spec == Init /\ [][Next]_vars

-----------------------------------------------------------------------------
(* Properties *)

StateOf(a) == memberStates[memberIndices1b[a]]

Members == {a \in Addresses : IsMember(a)}

(* The members whose last report is variant v of the slot last reported on. *)
Voters(v) ==
  {a \in Members : /\ StateOf(a).lastReportRefSlot = lastReportRefSlot
                   /\ StateOf(a).lastReportVariantIndex = v}

RefSlot == IF HasCurrentFrame THEN CurrentFrame.refSlot ELSE 0

(* The current slot is open: it has reports and is not processed yet. *)
IsOpen == RefSlot > LastProcessingRefSlot

(* The swap-and-pop of _removeMember keeps the three member structures in  *)
(* step: each member's 1-based index leads to its own address, and no      *)
(* entry is without a member.                                              *)
MemberIndicesConsistent ==
  /\ Len(memberAddresses) = Len(memberStates)
  /\ \A a \in Members : /\ memberIndices1b[a] \in 1 .. TotalMembers
                        /\ memberAddresses[memberIndices1b[a]] = a
  /\ \A i \in 1 .. TotalMembers : memberIndices1b[memberAddresses[i]] = i

(* What _reportingState records is never ahead of time: the slot of the    *)
(* last consensus does not exceed the slot of the last report, nor that    *)
(* the current reference slot; and a recorded consensus on the slot the    *)
(* variants were collected for names one of them.  setReportProcessor      *)
(* relies on it when it reads the variant to submit to the new processor.  *)
ReportingStateOrdered ==
  /\ lastConsensusRefSlot <= lastReportRefSlot
  /\ lastReportRefSlot <= RefSlot
  /\ lastConsensusRefSlot > 0 /\ lastConsensusRefSlot = lastReportRefSlot =>
       lastConsensusVariantIndex \in DOMAIN reportVariants

(* A counter of support never falls below the number of current members    *)
(* who vote for the variant, and a member's vote for the last reported     *)
(* slot always names an existing variant: so neither the assert of         *)
(* _submitReport nor a decrement of a counter can ever revert.             *)
SupportCoversVotes ==
  /\ \A a \in Members :
        /\ StateOf(a).lastReportRefSlot <= lastReportRefSlot
        /\ StateOf(a).lastReportRefSlot = lastReportRefSlot /\ lastReportRefSlot > 0
             => StateOf(a).lastReportVariantIndex \in DOMAIN reportVariants
  /\ \A v \in DOMAIN reportVariants :
        reportVariants[v].support >= Cardinality(Voters(v))

(* "How many unique members from the current set reported this hash in the *)
(* current frame" (struct ReportVariant), as long as the frame is open.    *)
OpenSupportIsExact ==
  IsOpen /\ lastReportRefSlot = RefSlot =>
    \A v \in DOMAIN reportVariants :
      reportVariants[v].support = Cardinality(Voters(v))

(* Contract and processor agree on the current slot: the processor holds a *)
(* report of the slot exactly when the contract records a consensus for    *)
(* it, and it is the hash of the recorded variant.                         *)
ProcessorInSync ==
  LET o == oracle[reportProcessor]
      holds == o.hash # NoHash /\ o.refSlot = RefSlot
  IN  RefSlot > 0 =>
        /\ holds <=> lastConsensusRefSlot = RefSlot
        /\ holds => o.hash = reportVariants[lastConsensusVariantIndex].hash

(* A report that can be processed now has the votes of a quorum of the     *)
(* current members, whatever votes were changed, members added or removed  *)
(* and quorums set since it was agreed on.                                 *)
ProcessableHasQuorum ==
  LET o == oracle[reportProcessor]
  IN  CanStartProcessing(o, now) /\ o.refSlot = RefSlot =>
        Cardinality(Voters(lastConsensusVariantIndex)) >= quorum

(* The fast lane alone can reach a consensus: whatever the frame index, it *)
(* consists of `quorum` members, or of all of them when there are fewer.   *)
FastLaneHasQuorum ==
  HasCurrentFrame =>
    LET lane == {i \in 1 .. TotalMembers :
                   IsFastLaneMember(i - 1, CurrentFrame.index)}
    IN  Cardinality(lane) = IF quorum < TotalMembers THEN quorum ELSE TotalMembers

(* The reference slot never goes back; and, as setFrameConfig promises, a  *)
(* change of the frame size either keeps it or moves it by at least the    *)
(* smaller of the two frame sizes.                                         *)
RefSlotAdvances ==
  [][ /\ RefSlot' >= RefSlot
      /\ HasCurrentFrame /\ now' = now /\ RefSlot' # RefSlot =>
           \/ RefSlot' - RefSlot >= frameConfig.epochsPerFrame * SLOTS_PER_EPOCH
           \/ RefSlot' - RefSlot >= frameConfig'.epochsPerFrame * SLOTS_PER_EPOCH
    ]_vars

(* _startProcessing: after processing of a report has started, the report  *)
(* for that reference slot is guaranteed to remain the same.               *)
ProcessedReportIsFinal ==
  [][ \A p \in Processors :
        IsProcessing(oracle[p]) =>
          \/ oracle'[p] = oracle[p]
          \/ /\ oracle'[p].refSlot > oracle[p].refSlot
             /\ oracle'[p].lastProcessingRefSlot = oracle[p].lastProcessingRefSlot
    ]_vars

(* The report of p can be processed, though it is not one of the current   *)
(* frame or its deadline is later than the end of that frame.              *)
OutlivesFrame(p) ==
  LET o == oracle[p]
  IN  /\ CanStartProcessing(o, now)
      /\ \/ o.refSlot # RefSlot
         \/ o.processingDeadlineTime >
              ComputeTimestampAtSlot(RefSlot + frameConfig.epochsPerFrame * SLOTS_PER_EPOCH)

(* The deadline is copied to the processor with the report, and no          *)
(* reconfiguration reaches it there: still, a report that can be processed *)
(* belongs to the current frame and expires with it, whatever becomes of   *)
(* frames, processors and consensus, until the frames are shortened while  *)
(* it waits.                                                               *)
OutlivesOnlyShortenedFrame ==
  [][ \A p \in Processors :
        OutlivesFrame(p)' =>
          \/ OutlivesFrame(p)
          \/ /\ CanStartProcessing(oracle[p], now)
             /\ frameConfig'.epochsPerFrame < frameConfig.epochsPerFrame ]_vars

(* The comment on top of HashConsensus: "all state changes a report         *)
(* processing could entail are guaranteed to be observed while gathering   *)
(* data for the next frame's report".  The next frame's reference slot is  *)
(* then still to come: the processed report is one of the current frame.   *)
(* Shortened frames refute it: the report that waits is then processed in  *)
(* a later frame than its own.                                             *)
ProcessedWithinFrame ==
  [][ \A p \in Processors :
        oracle'[p].lastProcessingRefSlot # oracle[p].lastProcessingRefSlot =>
          oracle[p].refSlot = RefSlot ]_vars

(* HashConsensus implements Committee: the counters, the variants and the  *)
(* incremental detection of a reached or lost consensus amount to counting *)
(* the votes of the current members anew after each call.                  *)
VoteOf(a) ==
  IF /\ IsMember(a) /\ RefSlot > 0
     /\ StateOf(a).lastReportRefSlot = RefSlot
    THEN reportVariants[StateOf(a).lastReportVariantIndex].hash
    ELSE NoHash

AgreedReport ==
  IF RefSlot > 0 /\ lastConsensusRefSlot = RefSlot
    THEN reportVariants[lastConsensusVariantIndex].hash ELSE NoHash

Votes == [a \in Addresses |-> VoteOf(a)]

Abstract == INSTANCE Committee
  WITH None <- NoHash, slot <- RefSlot, members <- Members, votes <- Votes,
       quorum <- quorum, agreed <- AgreedReport,
       closed <- (RefSlot > 0 /\ ~IsOpen)

ImplementsCommittee == Abstract!Spec
=============================================================================
