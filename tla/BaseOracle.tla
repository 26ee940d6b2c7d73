------------------------------ MODULE BaseOracle ------------------------------
(***************************************************************************)
(* The report register every oracle contract inherits (BaseOracle.sol):    *)
(* the last report the consensus contract submitted, and the last          *)
(* reference slot whose report started being processed.                    *)
(*                                                                         *)
(* The register of one contract is a record `o` with at least the fields   *)
(*   hash, refSlot, processingDeadlineTime   (struct ConsensusReport)      *)
(*   lastProcessingRefSlot                                                 *)
(* Each external function is a pair of operators: CanX(o, ...), the        *)
(* conditions under which the call does not revert, and X(o, ...), the     *)
(* register after it.  The modules that own a register compose them.       *)
(***************************************************************************)
EXTENDS Naturals

CONSTANT NoHash            \* bytes32(0): no report, or a discarded one

Register(Hash) ==
  [hash : Hash \cup {NoHash}, refSlot : Nat,
   processingDeadlineTime : Nat, lastProcessingRefSlot : Nat]

(* _initialize: no report yet, everything up to `slot` counts as processed. *)
InitRegister(slot) ==
  [hash |-> NoHash, refSlot |-> slot,
   processingDeadlineTime |-> 0, lastProcessingRefSlot |-> slot]

(* Mutant: a second report for the same slot is refused. *)
CanSubmitOneConsensusReport(o, hash, refSlot, deadline, time) ==
  /\ refSlot > o.refSlot
  /\ time <= deadline
  /\ hash # NoHash

(* Mutant: the slot of the report before is not looked at. *)
CanSubmitAnyConsensusReport(o, hash, refSlot, deadline, time) ==
  /\ refSlot > o.lastProcessingRefSlot
  /\ time <= deadline
  /\ hash # NoHash

CanSubmitConsensusReport(o, hash, refSlot, deadline, time) ==
  /\ refSlot >= o.refSlot                    \* RefSlotCannotDecrease
  /\ refSlot > o.lastProcessingRefSlot       \* RefSlotMustBeGreaterThanProcessingOne
  /\ time <= deadline                        \* ProcessingDeadlineMissed
  /\ hash # NoHash                           \* HashCannotBeZero

(* Mutant: the submitted slot counts as being processed at once. *)
SubmitAndProcessConsensusReport(o, hash, refSlot, deadline) ==
  [hash |-> hash, refSlot |-> refSlot,
   processingDeadlineTime |-> deadline, lastProcessingRefSlot |-> refSlot]

SubmitConsensusReport(o, hash, refSlot, deadline) ==
  [o EXCEPT !.hash = hash,
            !.refSlot = refSlot,
            !.processingDeadlineTime = deadline]

CanDiscardConsensusReport(o, refSlot) ==
  \/ refSlot > o.refSlot                     \* returns early
  \/ refSlot = o.refSlot /\ refSlot > o.lastProcessingRefSlot

DiscardConsensusReport(o, refSlot) ==
  IF refSlot > o.refSlot THEN o ELSE [o EXCEPT !.hash = NoHash]

CanStartProcessing(o, time) ==
  /\ o.hash # NoHash                         \* NoConsensusReportToProcess
  /\ time <= o.processingDeadlineTime        \* ProcessingDeadlineMissed
  /\ o.lastProcessingRefSlot # o.refSlot     \* RefSlotAlreadyProcessing

(* Mutant: the processed slot is not recorded. *)
StartProcessingUnrecorded(o) == o

StartProcessing(o) == [o EXCEPT !.lastProcessingRefSlot = o.refSlot]

(* getConsensusReport's processingStarted flag. *)
IsProcessing(o) == o.hash # NoHash /\ o.refSlot = o.lastProcessingRefSlot
=============================================================================
