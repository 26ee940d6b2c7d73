--------------------------- MODULE ReportingFrames ---------------------------
(***************************************************************************)
(* The clock of the oracles: how HashConsensus derives slots, epochs and   *)
(* reporting frames from a block timestamp and the frame configuration.    *)
(*                                                                         *)
(* A frame configuration is a record                                       *)
(*   [initialEpoch, epochsPerFrame, fastLaneLengthSlots]                   *)
(* (struct FrameConfig) and a frame is a record                            *)
(*   [index, refSlot, reportProcessingDeadlineSlot]                        *)
(* (struct ConsensusFrame).  A revert is a guard: HasArrived is the        *)
(* InitialEpochIsYetToArrive check, FrameComputable the checked            *)
(* subtraction in `frameStartSlot - 1`.                                    *)
(***************************************************************************)
EXTENDS Naturals

CONSTANTS
  SLOTS_PER_EPOCH,     \* chain specification, immutables of the contract
  SECONDS_PER_SLOT,
  GENESIS_TIME

ASSUME ChainSpecAssumption ==
  /\ SLOTS_PER_EPOCH \in Nat \ {0}
  /\ SECONDS_PER_SLOT \in Nat \ {0}
  /\ GENESIS_TIME \in Nat

DEADLINE_SLOT_OFFSET == 0

-----------------------------------------------------------------------------
(* Slots, epochs and timestamps *)

ComputeTimestampAtSlot(slot) == GENESIS_TIME + slot * SECONDS_PER_SLOT

ComputeSlotAtTimestamp(t) == (t - GENESIS_TIME) \div SECONDS_PER_SLOT

ComputeEpochAtTimestamp(t) == ComputeSlotAtTimestamp(t) \div SLOTS_PER_EPOCH

ComputeStartSlotAtEpoch(epoch) == epoch * SLOTS_PER_EPOCH

-----------------------------------------------------------------------------
(* Frames *)

FrameConfigType == [initialEpoch : Nat,
                    epochsPerFrame : Nat \ {0},
                    fastLaneLengthSlots : Nat]

(* The configurations _setFrameConfig accepts. *)
ValidFrameConfig(c) ==
  /\ c.epochsPerFrame # 0
  /\ c.fastLaneLengthSlots <= c.epochsPerFrame * SLOTS_PER_EPOCH

HasArrived(t, c) == ComputeEpochAtTimestamp(t) >= c.initialEpoch

ComputeFrameIndex(t, c) ==
  (ComputeEpochAtTimestamp(t) - c.initialEpoch) \div c.epochsPerFrame

ComputeStartEpochOfFrameWithIndex(i, c) == c.initialEpoch + i * c.epochsPerFrame

(* Mutant: the running epoch instead of the first one of its frame. *)
ComputeFrameRunningEpoch(t, c) == ComputeEpochAtTimestamp(t)

ComputeFrameStartEpoch(t, c) ==
  ComputeStartEpochOfFrameWithIndex(ComputeFrameIndex(t, c), c)

(* Mutant: the first slot of the next frame still belongs to this one. *)
GetFrameAtIndexLateDeadline(i, c) ==
  LET start == ComputeStartSlotAtEpoch(ComputeStartEpochOfFrameWithIndex(i, c))
  IN  [index   |-> i,
       refSlot |-> start - 1,
       reportProcessingDeadlineSlot |-> start + c.epochsPerFrame * SLOTS_PER_EPOCH]

(* frameStartSlot - 1 and nextFrameStartSlot - 1 - DEADLINE_SLOT_OFFSET. *)
GetFrameAtIndex(i, c) ==
  LET start == ComputeStartSlotAtEpoch(ComputeStartEpochOfFrameWithIndex(i, c))
      next  == start + c.epochsPerFrame * SLOTS_PER_EPOCH
  IN  [index   |-> i,
       refSlot |-> start - 1,
       reportProcessingDeadlineSlot |-> next - 1 - DEADLINE_SLOT_OFFSET]

GetFrameAtTimestamp(t, c) == GetFrameAtIndex(ComputeFrameIndex(t, c), c)

(* The initial frame does not start at slot zero, whose predecessor would  *)
(* be an underflow that reverts.                                           *)
FrameComputable(c) == ComputeStartSlotAtEpoch(c.initialEpoch) > 0
=============================================================================
