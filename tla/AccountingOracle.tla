---------------------------- MODULE AccountingOracle ----------------------------
(***************************************************************************)
(* AccountingOracle: the report processor that takes the main data of an   *)
(* agreed report and, in a second transaction, its extra data: the counts  *)
(* of stuck validators of the node operators that changed.                 *)
(*                                                                         *)
(* A hash is modelled by the data it commits to.  The committee is honest: *)
(* what it agrees on is what could be observed at the reference slot, and  *)
(* the extra data lists the operators whose count in the staking modules   *)
(* was outdated at that slot, as the comment of `extraDataFormat` asks.    *)
(*                                                                         *)
(* Abstractions: of the main data only what the second phase depends on is *)
(* kept; one extra data list holds one count for each operator, the format *)
(* is LIST when it is not empty, and itemsProcessed = itemsCount is what   *)
(* `submitted` says; the callers' roles and the sanity checks are left out.*)
(* The consensus contracts, which HashConsensus models, and the staking    *)
(* modules are external here.  Blocks come at the start of a slot.         *)
(***************************************************************************)
EXTENDS ReportingFrames, BaseOracle, FiniteSets

CONSTANTS
  Operators,           \* node operators
  MaxCount,            \* bound: largest count of stuck validators
  ConsensusVersions,   \* versions of the consensus rules
  ConsensusContracts,  \* consensus contracts an administrator may set
  Deployed,            \* sets of them that are deployed together
  FrameConfigOf,       \* the frame configuration of each of them
  LastSlots,           \* last processed slots at initialisation
  MaxTime              \* bound: the clock stops here

(* What the daemons see at a reference slot, and the data a hash commits to. *)
Observation == [refSlot : Nat, counts : [Operators -> 0 .. MaxCount],
                outdated : SUBSET Operators]

ReportData == [consensusVersion : ConsensusVersions, seen : Observation]

ASSUME AccountingOracleAssumption ==
  /\ NoHash \notin ReportData
  /\ FrameConfigOf \in [ConsensusContracts -> FrameConfigType]
  /\ \A c \in ConsensusContracts : /\ ValidFrameConfig(FrameConfigOf[c])
                                   /\ FrameComputable(FrameConfigOf[c])
  /\ Deployed \subseteq SUBSET ConsensusContracts
  /\ LastSlots \subseteq Nat /\ MaxTime \in Nat /\ MaxCount \in Nat

VARIABLES
  now,                 \* block.timestamp
  candidates,          \* contracts the administrator sets in this behaviour
  consensusContract,   \* CONSENSUS_CONTRACT_POSITION
  consensusVersion,    \* CONSENSUS_VERSION_POSITION
  report,              \* the register of BaseOracle
  extra,               \* EXTRA_DATA_PROCESSING_STATE_POSITION: slot, items left, whether submitted
  stuck,               \* counts stored in the staking modules
  chainStuck,          \* counts on the consensus layer
  observed             \* what the daemons saw at the last reference slot of each contract:
                       \* the slot, the counts and the operators whose stored count differs

vars == <<now, candidates, consensusContract, consensusVersion, report, extra, stuck,
          chainStuck, observed>>

Zero == [op \in Operators |-> 0]

NoItems == [op \in {} |-> 0]

HasFrame(c, t) == HasArrived(t, FrameConfigOf[c])

Frame(c, t) == GetFrameAtTimestamp(t, FrameConfigOf[c])

InitialRefSlot(c) == GetFrameAtIndex(0, FrameConfigOf[c]).refSlot

Init ==
  /\ now = GENESIS_TIME
  /\ candidates \in Deployed
  /\ \E slot \in LastSlots :
       /\ consensusContract \in {c \in candidates : InitialRefSlot(c) >= slot}
       /\ report = InitRegister(slot)
  /\ consensusVersion \in ConsensusVersions
  /\ extra = [refSlot |-> 0, items |-> NoItems, submitted |-> FALSE]
  /\ stuck = Zero /\ chainStuck = Zero
  /\ observed = [c \in ConsensusContracts |->
                   [refSlot |-> 0, counts |-> Zero, outdated |-> {}]]

-----------------------------------------------------------------------------
(* Calls of the consensus contract *)

Agreed == [consensusVersion |-> consensusVersion, seen |-> observed[consensusContract]]

ConsensusReached ==
  LET frame    == Frame(consensusContract, now)
      deadline == ComputeTimestampAtSlot(frame.reportProcessingDeadlineSlot)
  IN  /\ HasFrame(consensusContract, now)
      /\ frame.refSlot > report.lastProcessingRefSlot
      /\ CanSubmitConsensusReport(report, Agreed, frame.refSlot, deadline, now)
      /\ report' = SubmitConsensusReport(report, Agreed, frame.refSlot, deadline)
      /\ UNCHANGED <<now, candidates, consensusContract, consensusVersion, extra, stuck,
                     chainStuck, observed>>

ConsensusLost ==
  LET frame == Frame(consensusContract, now)
  IN  /\ HasFrame(consensusContract, now)
      /\ frame.refSlot > report.lastProcessingRefSlot
      /\ CanDiscardConsensusReport(report, frame.refSlot)
      /\ report' = DiscardConsensusReport(report, frame.refSlot)
      /\ UNCHANGED <<now, candidates, consensusContract, consensusVersion, extra, stuck,
                     chainStuck, observed>>

-----------------------------------------------------------------------------
(* The two phases of a report *)

(* The data that hashes to the agreed hash, for the agreed slot and under  *)
(* the expected version.                                                   *)
IsConsensusData(data) ==
  /\ data.seen.refSlot = report.refSlot
  /\ data.consensusVersion = consensusVersion
  /\ data = report.hash

ItemsOf(seen) == [op \in seen.outdated |-> seen.counts[op]]

SubmitReportData ==
  /\ CanStartProcessing(report, now)
  /\ IsConsensusData(report.hash)
  /\ report' = StartProcessing(report)
  /\ extra' = [refSlot |-> report.refSlot, items |-> ItemsOf(report.hash.seen),
               submitted |-> FALSE]
  /\ UNCHANGED <<now, candidates, consensusContract, consensusVersion, stuck, chainStuck,
                 observed>>

CanSubmitExtraData ==
  /\ report.hash # NoHash /\ extra.refSlot = report.refSlot
                                       \* CannotSubmitExtraDataBeforeMainData
  /\ now <= report.processingDeadlineTime         \* ProcessingDeadlineMissed
  /\ ~extra.submitted                             \* ExtraDataAlreadyProcessed

SubmitReportExtraDataEmpty ==
  /\ CanSubmitExtraData
  /\ DOMAIN extra.items = {}                      \* UnexpectedExtraDataFormat
  /\ extra' = [extra EXCEPT !.submitted = TRUE]
  /\ UNCHANGED <<now, candidates, consensusContract, consensusVersion, report, stuck,
                 chainStuck, observed>>

(* The counts of the listed operators reach the staking modules. *)
SubmitReportExtraDataList ==
  /\ CanSubmitExtraData
  /\ DOMAIN extra.items # {}                      \* UnexpectedExtraDataFormat
  /\ extra' = [extra EXCEPT !.submitted = TRUE]
  /\ stuck' = [op \in Operators |-> IF op \in DOMAIN extra.items
                                      THEN extra.items[op] ELSE stuck[op]]
  /\ UNCHANGED <<now, candidates, consensusContract, consensusVersion, report, chainStuck,
                 observed>>

-----------------------------------------------------------------------------
(* Administrative calls *)

SetConsensusVersion(v) ==
  /\ v # consensusVersion                         \* VersionCannotBeSame
  /\ consensusVersion' = v
  /\ UNCHANGED <<now, candidates, consensusContract, report, extra, stuck, chainStuck,
                 observed>>

SetConsensusContract(c) ==
  /\ c # consensusContract                        \* AddressCannotBeSame
  /\ InitialRefSlot(c) >= report.lastProcessingRefSlot
                              \* InitialRefSlotCannotBeLessThanProcessingOne
  /\ consensusContract' = c
  /\ UNCHANGED <<now, candidates, consensusVersion, report, extra, stuck, chainStuck,
                 observed>>

-----------------------------------------------------------------------------
(* The environment: counts change on the consensus layer, and the daemons  *)
(* look at the last block of a slot that turns out to be a reference slot. *)

ChainStep(op, n) ==
  /\ n # chainStuck[op]
  /\ chainStuck' = [chainStuck EXCEPT ![op] = n]
  /\ UNCHANGED <<now, candidates, consensusContract, consensusVersion, report, extra, stuck,
                 observed>>

Seen(slot) == [refSlot |-> slot, counts |-> chainStuck,
               outdated |-> {op \in Operators : stuck[op] # chainStuck[op]}]

Tick ==
  /\ now + SECONDS_PER_SLOT <= MaxTime
  /\ now' = now + SECONDS_PER_SLOT
  /\ observed' =
       [c \in ConsensusContracts |->
          IF HasFrame(c, now') /\ Frame(c, now').refSlot = ComputeSlotAtTimestamp(now)
            THEN Seen(ComputeSlotAtTimestamp(now)) ELSE observed[c]]
  /\ UNCHANGED <<candidates, consensusContract, consensusVersion, report, extra, stuck,
                 chainStuck>>

Next ==
  \/ ConsensusReached
  \/ ConsensusLost
  \/ SubmitReportData
  \/ SubmitReportExtraDataEmpty
  \/ SubmitReportExtraDataList
  \/ \E v \in ConsensusVersions : SetConsensusVersion(v)
  \/ \E c \in candidates : SetConsensusContract(c)
  \/ \E op \in Operators, n \in 0 .. MaxCount : ChainStep(op, n)
  \/ Tick

Spec == Init /\ [][Next]_vars

-----------------------------------------------------------------------------
(* Properties *)

(* The extra data that may still be submitted belongs to the report in the *)
(* register: that report is being processed, so no other one can take its  *)
(* place, and its items are the outdated ones of that report.              *)
ExtraDataOfReport ==
  report.hash # NoHash /\ extra.refSlot = report.refSlot =>
    /\ IsProcessing(report)
    /\ extra.items = ItemsOf(report.hash.seen)

(* "All state changes a report processing could entail are guaranteed to   *)
(* be observed while gathering data for the next frame's report": once the *)
(* extra data of a report is in, every operator has the count seen at the  *)
(* reference slot, the operators the report did not list included, and     *)
(* whatever earlier reports were missed or only half processed.  It takes  *)
(* one consensus contract: the frames of two of them may overlap.          *)
CountsAreComplete ==
  [][ candidates = {consensusContract} /\ ~extra.submitted /\ extra'.submitted =>
        stuck' = report.hash.seen.counts ]_vars

(* The oracle never refuses the consensus contract: a report for its       *)
(* current reference slot is accepted until one is being processed, unless *)
(* a contract it replaced may have submitted a later slot.                 *)
NeverStalled ==
  HasFrame(consensusContract, now) =>
    LET frame == Frame(consensusContract, now)
    IN  \/ report.lastProcessingRefSlot >= frame.refSlot
        \/ \E c \in candidates :
             HasFrame(c, now) /\ Frame(c, now).refSlot > frame.refSlot
        \/ CanSubmitConsensusReport(report, Agreed, frame.refSlot,
             ComputeTimestampAtSlot(frame.reportProcessingDeadlineSlot), now)

(* A slot whose processing has started is left for a later one only, and   *)
(* the slot of the register never goes back, whichever consensus contract  *)
(* is set.                                                                 *)
SlotsAdvance ==
  [][ /\ report'.lastProcessingRefSlot >= report.lastProcessingRefSlot
      /\ report'.refSlot >= report.refSlot
      /\ report'.lastProcessingRefSlot <= report'.refSlot
      /\ extra'.refSlot # extra.refSlot => extra'.refSlot > extra.refSlot ]_vars
=============================================================================
