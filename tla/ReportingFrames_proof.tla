------------------------ MODULE ReportingFrames_proof ------------------------
(***************************************************************************)
(* Arithmetic of slots, epochs and frames: the facts about ReportingFrames *)
(* that the proofs about the oracles rest on.                              *)
(***************************************************************************)
EXTENDS ReportingFrames, TLAPS

LEMMA ProductType ==
  ASSUME NEW a \in Nat, NEW b \in Nat PROVE a * b \in Nat
OBVIOUS

LEMMA ProductMonotone ==
  ASSUME NEW a \in Nat, NEW b \in Nat, NEW c \in Nat, a <= b
  PROVE  a * c <= b * c
OBVIOUS

LEMMA QuotientType ==
  ASSUME NEW a \in Nat, NEW b \in Nat \ {0} PROVE a \div b \in Nat
OBVIOUS

LEMMA QuotientMonotone ==
  ASSUME NEW a \in Nat, NEW b \in Nat, NEW d \in Nat \ {0}, a <= b
  PROVE  a \div d <= b \div d
OBVIOUS

LEMMA QuotientBounds ==
  ASSUME NEW a \in Nat, NEW d \in Nat \ {0}
  PROVE  (a \div d) * d <= a /\ a < (a \div d) * d + d
OBVIOUS

(* The epoch of a moment after genesis exists and never goes back.         *)
LEMMA EpochType ==
  ASSUME NEW t \in Nat, t >= GENESIS_TIME
  PROVE  /\ ComputeSlotAtTimestamp(t) \in Nat
         /\ ComputeEpochAtTimestamp(t) \in Nat
<1>1. t - GENESIS_TIME \in Nat
  BY ChainSpecAssumption
<1>2. ComputeSlotAtTimestamp(t) \in Nat
  BY <1>1, QuotientType, ChainSpecAssumption DEF ComputeSlotAtTimestamp
<1> QED
  BY <1>2, QuotientType, ChainSpecAssumption DEF ComputeEpochAtTimestamp

LEMMA EpochMonotone ==
  ASSUME NEW t \in Nat, NEW u \in Nat, t >= GENESIS_TIME, t <= u
  PROVE  ComputeEpochAtTimestamp(t) <= ComputeEpochAtTimestamp(u)
<1>1. t - GENESIS_TIME \in Nat /\ u - GENESIS_TIME \in Nat
      /\ t - GENESIS_TIME <= u - GENESIS_TIME
  BY ChainSpecAssumption
<1>2. ComputeSlotAtTimestamp(t) <= ComputeSlotAtTimestamp(u)
  BY <1>1, QuotientMonotone, ChainSpecAssumption DEF ComputeSlotAtTimestamp
<1>3. ComputeSlotAtTimestamp(t) \in Nat /\ ComputeSlotAtTimestamp(u) \in Nat
  BY <1>1, EpochType, ChainSpecAssumption
<1> QED
  BY <1>2, <1>3, QuotientMonotone, ChainSpecAssumption DEF ComputeEpochAtTimestamp

(* The frames that have begun have natural indices, epochs and slots.      *)
LEMMA FrameType ==
  ASSUME NEW t \in Nat, t >= GENESIS_TIME,
         NEW c \in FrameConfigType, HasArrived(t, c)
  PROVE  /\ ComputeFrameIndex(t, c) \in Nat
         /\ ComputeFrameStartEpoch(t, c) \in Nat
         /\ ComputeFrameStartEpoch(t, c) >= c.initialEpoch
         /\ GetFrameAtTimestamp(t, c).index \in Nat
         /\ FrameComputable(c) =>
              /\ GetFrameAtTimestamp(t, c).refSlot \in Nat
              /\ GetFrameAtTimestamp(t, c).refSlot =
                   ComputeFrameStartEpoch(t, c) * SLOTS_PER_EPOCH - 1
              /\ GetFrameAtTimestamp(t, c).reportProcessingDeadlineSlot \in Nat
<1> DEFINE i == ComputeFrameIndex(t, c)
           start == ComputeFrameStartEpoch(t, c)
<1>1. c.initialEpoch \in Nat /\ c.epochsPerFrame \in Nat \ {0}
  BY DEF FrameConfigType
<1>2. ComputeEpochAtTimestamp(t) - c.initialEpoch \in Nat
  BY <1>1, EpochType DEF HasArrived
<1>3. i \in Nat
  BY <1>1, <1>2, QuotientType DEF ComputeFrameIndex
<1>4. i * c.epochsPerFrame \in Nat
  BY <1>1, <1>3, ProductType
<1>5. start \in Nat /\ start >= c.initialEpoch
  BY <1>1, <1>4 DEF ComputeFrameStartEpoch, ComputeStartEpochOfFrameWithIndex
<1>6. start * SLOTS_PER_EPOCH \in Nat
      /\ c.epochsPerFrame * SLOTS_PER_EPOCH \in Nat
  BY <1>1, <1>5, ProductType, ChainSpecAssumption
<1>7. FrameComputable(c) => start * SLOTS_PER_EPOCH > 0
  <2>1. c.initialEpoch * SLOTS_PER_EPOCH <= start * SLOTS_PER_EPOCH
    BY <1>1, <1>5, ProductMonotone, ChainSpecAssumption
  <2>2. c.initialEpoch * SLOTS_PER_EPOCH \in Nat
    BY <1>1, ProductType, ChainSpecAssumption
  <2> QED BY <2>1, <2>2, <1>6 DEF FrameComputable, ComputeStartSlotAtEpoch
<1>8. /\ GetFrameAtTimestamp(t, c).index = i
      /\ GetFrameAtTimestamp(t, c).refSlot = start * SLOTS_PER_EPOCH - 1
      /\ GetFrameAtTimestamp(t, c).reportProcessingDeadlineSlot =
           (start * SLOTS_PER_EPOCH + c.epochsPerFrame * SLOTS_PER_EPOCH) - 1
  BY <1>6 DEF GetFrameAtTimestamp, GetFrameAtIndex, ComputeStartSlotAtEpoch,
         ComputeFrameStartEpoch, DEADLINE_SLOT_OFFSET
<1> HIDE DEF i, start
<1> QED
  BY <1>3, <1>5, <1>6, <1>7, <1>8 DEF i, start

(* Time only moves a frame's start forward.                                *)
LEMMA FrameStartMonotone ==
  ASSUME NEW t \in Nat, NEW u \in Nat, t >= GENESIS_TIME, t <= u,
         NEW c \in FrameConfigType, HasArrived(t, c)
  PROVE  /\ HasArrived(u, c)
         /\ ComputeFrameStartEpoch(t, c) <= ComputeFrameStartEpoch(u, c)
<1>0. u >= GENESIS_TIME
  BY ChainSpecAssumption
<1>1. c.initialEpoch \in Nat /\ c.epochsPerFrame \in Nat \ {0}
  BY DEF FrameConfigType
<1>2. /\ ComputeEpochAtTimestamp(t) \in Nat
      /\ ComputeEpochAtTimestamp(u) \in Nat
      /\ ComputeEpochAtTimestamp(t) <= ComputeEpochAtTimestamp(u)
  BY <1>0, EpochType, EpochMonotone
<1>3. HasArrived(u, c)
  BY <1>1, <1>2 DEF HasArrived
<1>4. ComputeFrameIndex(t, c) <= ComputeFrameIndex(u, c)
  BY <1>1, <1>2, <1>3, QuotientMonotone DEF HasArrived, ComputeFrameIndex
<1>5. ComputeFrameIndex(t, c) \in Nat /\ ComputeFrameIndex(u, c) \in Nat
  BY <1>0, <1>3, FrameType
<1>6. ComputeFrameIndex(t, c) * c.epochsPerFrame
        <= ComputeFrameIndex(u, c) * c.epochsPerFrame
  BY <1>1, <1>4, <1>5, ProductMonotone
<1>7. /\ ComputeFrameIndex(t, c) * c.epochsPerFrame \in Nat
      /\ ComputeFrameIndex(u, c) * c.epochsPerFrame \in Nat
  BY <1>1, <1>5, ProductType
<1> QED
  BY <1>1, <1>3, <1>6, <1>7
  DEF ComputeFrameStartEpoch, ComputeStartEpochOfFrameWithIndex

(* A moment lies after the reference slot of its frame and not after the   *)
(* processing deadline, which is one frame later.                          *)
LEMMA FrameSpan ==
  ASSUME NEW t \in Nat, t >= GENESIS_TIME,
         NEW c \in FrameConfigType, HasArrived(t, c), FrameComputable(c)
  PROVE  LET frame == GetFrameAtTimestamp(t, c)
             slot == ComputeSlotAtTimestamp(t)
         IN  /\ slot <= frame.reportProcessingDeadlineSlot
             /\ frame.refSlot < slot
             /\ frame.reportProcessingDeadlineSlot =
                  frame.refSlot + c.epochsPerFrame * SLOTS_PER_EPOCH
<1> DEFINE first == c.initialEpoch
           e == c.epochsPerFrame
           slot == ComputeSlotAtTimestamp(t)
           epoch == ComputeEpochAtTimestamp(t)
           i == ComputeFrameIndex(t, c)
           start == ComputeFrameStartEpoch(t, c)
           frame == GetFrameAtTimestamp(t, c)
           S == SLOTS_PER_EPOCH
<1>1. /\ first \in Nat /\ e \in Nat \ {0} /\ slot \in Nat /\ epoch \in Nat
      /\ S \in Nat \ {0} /\ epoch >= first
  BY EpochType, ChainSpecAssumption
     DEF FrameConfigType, HasArrived
<1>2. i \in Nat /\ start \in Nat
  BY FrameType
<1>3. /\ epoch = slot \div S
      /\ i = (epoch - first) \div e
      /\ start = first + i * e
  BY DEF ComputeEpochAtTimestamp, ComputeFrameIndex, ComputeFrameStartEpoch,
         ComputeStartEpochOfFrameWithIndex
<1>4. /\ frame.refSlot = start * S - 1
      /\ frame.reportProcessingDeadlineSlot = (start * S + e * S) - 1
  <2>1. start * S \in Nat /\ e * S \in Nat
    BY <1>1, <1>2, ProductType
  <2> QED BY <2>1 DEF GetFrameAtTimestamp, GetFrameAtIndex,
         ComputeStartSlotAtEpoch, ComputeFrameStartEpoch, DEADLINE_SLOT_OFFSET
<1> HIDE DEF first, e, slot, epoch, i, start, frame, S
<1>5. epoch * S <= slot /\ slot < epoch * S + S
  BY <1>1, <1>3, QuotientBounds
<1>6. i * e <= epoch - first /\ epoch - first < i * e + e
  <2> DEFINE d == epoch - first
  <2>1. d \in Nat
    BY <1>1
  <2> HIDE DEF d
  <2>2. (d \div e) * e <= d /\ d < (d \div e) * e + e
    BY <1>1, <2>1, QuotientBounds
  <2> QED BY <1>3, <2>2 DEF d
<1>7. i * e \in Nat
  BY <1>1, <1>2, ProductType
<1>8. start <= epoch /\ epoch + 1 <= start + e
  BY <1>1, <1>3, <1>6, <1>7
<1>9. start * S <= epoch * S /\ (epoch + 1) * S <= (start + e) * S
  BY <1>1, <1>2, <1>8, ProductMonotone
<1>10. (epoch + 1) * S = epoch * S + S /\ (start + e) * S = start * S + e * S
  BY <1>1, <1>2
<1>11. start * S \in Nat /\ e * S \in Nat /\ epoch * S \in Nat
  BY <1>1, <1>2, ProductType
<1> QED BY <1>1, <1>4, <1>5, <1>9, <1>10, <1>11 DEF slot, frame, e, S

(* Time moves the frame by whole frames.                                   *)
LEMMA FrameStartSteps ==
  ASSUME NEW t \in Nat, NEW u \in Nat, t >= GENESIS_TIME, t <= u,
         NEW c \in FrameConfigType, HasArrived(t, c)
  PROVE  LET S == SLOTS_PER_EPOCH
             first == ComputeFrameStartEpoch(t, c) * S
             second == ComputeFrameStartEpoch(u, c) * S
         IN  second = first \/ second >= first + c.epochsPerFrame * S
<1> DEFINE S == SLOTS_PER_EPOCH
           e == c.epochsPerFrame
           i == ComputeFrameIndex(t, c)
           j == ComputeFrameIndex(u, c)
           s == ComputeFrameStartEpoch(t, c)
           r == ComputeFrameStartEpoch(u, c)
<1>0. u >= GENESIS_TIME /\ S \in Nat /\ c.initialEpoch \in Nat /\ e \in Nat
  BY ChainSpecAssumption DEF FrameConfigType
<1>1. HasArrived(u, c) /\ s <= r
  BY FrameStartMonotone
<1>2. i \in Nat /\ j \in Nat /\ s \in Nat /\ r \in Nat
  BY <1>0, <1>1, FrameType
<1>3. s = c.initialEpoch + i * e /\ r = c.initialEpoch + j * e
  BY DEF ComputeFrameStartEpoch, ComputeStartEpochOfFrameWithIndex
<1> HIDE DEF S, e, i, j, s, r
<1>4. i * e \in Nat /\ j * e \in Nat
  BY <1>0, <1>2, ProductType
<1>5. CASE j <= i
  <2>1. j * e <= i * e
    BY <1>0, <1>2, <1>5, ProductMonotone
  <2>2. r = s
    BY <1>0, <1>1, <1>2, <1>3, <1>4, <2>1
  <2> QED BY <2>2 DEF S, s, r, e
<1>6. CASE i + 1 <= j
  <2>1. (i + 1) * e <= j * e
    BY <1>0, <1>2, <1>6, ProductMonotone
  <2>2. (i + 1) * e = i * e + e
    BY <1>0, <1>2
  <2>3. s + e <= r
    BY <1>0, <1>3, <1>4, <2>1, <2>2
  <2>4. (s + e) * S <= r * S
    BY <1>0, <1>2, <2>3, ProductMonotone
  <2>5. (s + e) * S = s * S + e * S
    BY <1>0, <1>2
  <2>6. s * S \in Nat /\ e * S \in Nat /\ r * S \in Nat
    BY <1>0, <1>2, ProductType
  <2>7. r * S >= s * S + e * S
    BY <2>4, <2>5, <2>6
  <2> QED BY <2>7 DEF S, s, r, e
<1> QED BY <1>2, <1>5, <1>6

-----------------------------------------------------------------------------
(* Slots and timestamps *)

(* A moment not after the start of a slot is not in a later slot.          *)
LEMMA SlotNotAfter ==
  ASSUME NEW t \in Nat, t >= GENESIS_TIME, NEW slot \in Nat,
         t <= ComputeTimestampAtSlot(slot)
  PROVE  ComputeSlotAtTimestamp(t) <= slot
<1> DEFINE P == SECONDS_PER_SLOT
           d == t - GENESIS_TIME
           s == d \div P
<1>1. P \in Nat \ {0} /\ d \in Nat /\ GENESIS_TIME \in Nat
      /\ t <= GENESIS_TIME + slot * P
  BY ChainSpecAssumption DEF ComputeTimestampAtSlot
<1>2. slot * P \in Nat
  BY <1>1, ProductType
<1>3. d <= slot * P
  BY <1>1, <1>2
<1> HIDE DEF P, d
<1>4. s \in Nat /\ s * P <= d
  BY <1>1, QuotientType, QuotientBounds
<1> HIDE DEF s
<1>5. s * P \in Nat
  BY <1>1, <1>4, ProductType
<1>6. ASSUME slot + 1 <= s PROVE FALSE
  <2>1. (slot + 1) * P <= s * P
    BY <1>1, <1>4, <1>6, ProductMonotone
  <2>2. (slot + 1) * P = slot * P + P
    BY <1>1
  <2> QED BY <1>1, <1>2, <1>3, <1>4, <1>5, <2>1, <2>2
<1>7. s <= slot
  BY <1>4, <1>6
<1> QED BY <1>7 DEF ComputeSlotAtTimestamp, s, d, P

(* One slot later in time is the next slot.                                *)
LEMMA SlotAfter ==
  ASSUME NEW t \in Nat, t >= GENESIS_TIME
  PROVE  ComputeSlotAtTimestamp(t + SECONDS_PER_SLOT) = ComputeSlotAtTimestamp(t) + 1
<1> DEFINE P == SECONDS_PER_SLOT
           d == t - GENESIS_TIME
<1>1. P \in Nat \ {0} /\ d \in Nat /\ (t + P) - GENESIS_TIME = d + P
  BY ChainSpecAssumption
<1>2. ComputeSlotAtTimestamp(t + P) = (d + P) \div P
  BY <1>1 DEF ComputeSlotAtTimestamp
<1>3. ComputeSlotAtTimestamp(t) = d \div P
  BY DEF ComputeSlotAtTimestamp
<1> HIDE DEF P, d
<1>4. (d + P) \div P = (d \div P) + 1
  BY <1>1
<1> QED BY <1>2, <1>3, <1>4 DEF P

(* When time reaches the next slot, either the frame stays or the slot     *)
(* that is over is the reference slot of a new one.                        *)
LEMMA NewFrame ==
  ASSUME NEW t \in Nat, t >= GENESIS_TIME,
         NEW c \in FrameConfigType, FrameComputable(c),
         HasArrived(t + SECONDS_PER_SLOT, c)
  PROVE  LET old == GetFrameAtTimestamp(t, c).refSlot
             new == GetFrameAtTimestamp(t + SECONDS_PER_SLOT, c).refSlot
         IN  IF HasArrived(t, c)
               THEN \/ new = old
                    \/ /\ new = ComputeSlotAtTimestamp(t)
                       /\ new >= old + c.epochsPerFrame * SLOTS_PER_EPOCH
               ELSE new = ComputeSlotAtTimestamp(t)
<1> DEFINE u == t + SECONDS_PER_SLOT
           old == GetFrameAtTimestamp(t, c).refSlot
           new == GetFrameAtTimestamp(u, c).refSlot
           S == SLOTS_PER_EPOCH
           L == c.epochsPerFrame * S
           s == ComputeSlotAtTimestamp(t)
           first == c.initialEpoch
           start == ComputeFrameStartEpoch(u, c)
<1>1. /\ u \in Nat /\ u >= GENESIS_TIME /\ t <= u /\ S \in Nat \ {0}
      /\ first \in Nat /\ c.epochsPerFrame \in Nat
  BY ChainSpecAssumption DEF FrameConfigType
<1>2. s \in Nat /\ ComputeSlotAtTimestamp(u) = s + 1
  BY EpochType, SlotAfter
<1>3. new \in Nat /\ new < s + 1 /\ new = start * S - 1 /\ start \in Nat /\ start >= first
  BY <1>1, <1>2, FrameType, FrameSpan
<1>4. L \in Nat
  BY <1>1, ProductType
<1>5. CASE HasArrived(t, c)
  <2>1. old \in Nat /\ old = ComputeFrameStartEpoch(t, c) * S - 1 /\ s <= old + L
    BY <1>5, FrameType, FrameSpan
  <2>2. /\ ComputeFrameStartEpoch(t, c) * S \in Nat /\ start * S \in Nat
        /\ \/ start * S = ComputeFrameStartEpoch(t, c) * S
           \/ start * S >= ComputeFrameStartEpoch(t, c) * S + L
    BY <1>1, <1>3, <1>5, FrameStartSteps, FrameType, ProductType
  <2> HIDE DEF u, old, new, S, L, s, first, start
  <2>3. new = old \/ new >= old + L
    BY <1>3, <1>4, <2>1, <2>2
  <2>4. new >= old + L => new = s
    BY <1>2, <1>3, <1>4, <2>1
  <2>5. IF HasArrived(t, c) THEN new = old \/ (new = s /\ new >= old + L)
                            ELSE new = s
    BY <1>5, <2>3, <2>4
  <2> QED BY <2>5 DEF u, old, new, S, L, s
<1>6. CASE ~HasArrived(t, c)
  <2> DEFINE epoch == s \div S
  <2>1. epoch < first /\ epoch \in Nat /\ s < epoch * S + S
    <3>1. epoch = ComputeEpochAtTimestamp(t) /\ epoch \in Nat
      BY EpochType DEF ComputeEpochAtTimestamp
    <3>2. s < epoch * S + S
      BY <1>1, <1>2, QuotientBounds
    <3> QED BY <1>1, <1>6, <3>1, <3>2 DEF HasArrived
  <2> HIDE DEF u, old, new, S, L, s, first, start, epoch
  <2>2. (epoch + 1) * S <= start * S
    <3>1. epoch + 1 <= start /\ epoch + 1 \in Nat
      BY <1>1, <1>3, <2>1
    <3> QED BY <1>1, <1>3, <3>1, ProductMonotone
  <2>3. (epoch + 1) * S = epoch * S + S /\ epoch * S \in Nat /\ start * S \in Nat
    BY <1>1, <1>3, <2>1, ProductType
  <2>4. new = s
    BY <1>1, <1>2, <1>3, <2>1, <2>2, <2>3
  <2> QED BY <1>6, <2>4 DEF u, old, new, S, L, s
<1> QED BY <1>5, <1>6
=============================================================================
