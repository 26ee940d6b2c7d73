---------------------------- MODULE SharesImage ----------------------------
(***************************************************************************)
(* The image of the share balances: the job task/shares-image.js, which    *)
(* looks every hour for new events of the pool and then replays all its    *)
(* TransferShares events, and the task shares-image, which replays them    *)
(* once and prints the result.  The ledger is the pool's: shares are       *)
(* minted, moved between accounts and burnt from the burner, and only      *)
(* burning emits no TransferShares.                                        *)
(*                                                                         *)
(* The three calls of an image are answered one after the other, from the  *)
(* chain as it is at each of them.  Events are asked for up to a block     *)
(* whose number is written in the programs (10000000); totals are those of *)
(* the latest block.  The job may die and be started again; the number of  *)
(* events it has seen is in its memory.                                    *)
(***************************************************************************)
EXTENDS Integers, Sequences, FiniteSets, FiniteSetsExt, SequencesExt, Functions

CONSTANTS Holders,              \* accounts of users
          ToBlock,              \* the last block whose events the programs ask for
          MaxLedgerBlock,       \* bound: the last block of the chain
          MaxLedgerEvents, MaxImages, MaxJobStarts

ZeroAddress == "zero"
InitialTokenHolder == "dead"
WithdrawalQueue == "withdrawalQueue"
Burner == "burner"
Treasury == "treasury"

\* The addresses of the loader's contracts that can hold shares: the burner and
\* the treasury are not among them.
LoaderAddresses == {WithdrawalQueue}

Contracts == {ZeroAddress, InitialTokenHolder, WithdrawalQueue, Burner, Treasury}

ASSUME HoldersAssumption == Holders \cap Contracts = {}

ASSUME BlocksAssumption == ToBlock \in Nat /\ MaxLedgerBlock \in Nat

Addresses == Holders \cup Contracts

VARIABLES shares,               \* the ledger
          pooledAce,            \* getTotalPooledAce()
          events,               \* the pool's events: transfers of shares and others
          lastBlock,            \* the block of the last call
          atToBlock,            \* history: the shares at the end of block ToBlock, until then the present ones
          job                   \* the hourly job

ledgerVars == <<shares, pooledAce, events, lastBlock, atToBlock>>
imageVars == <<ledgerVars, job>>

TransferSharesEvent(from, to, amount, block) ==
    [name |-> "TransferShares", from |-> from, to |-> to, amount |-> amount, block |-> block]
OtherEvent(name, block) == [name |-> name, block |-> block]

TotalShares == MapThenSumSet(LAMBDA a : shares[a], Addresses)

-----------------------------------------------------------------------------
(* The ledger *)

CanGrow == Len(events) < MaxLedgerEvents

\* A call is mined in the block of the one before or in a later one.
InBlock ==
    /\ lastBlock' \in lastBlock..MaxLedgerBlock
    /\ atToBlock' = IF lastBlock' <= ToBlock THEN shares' ELSE atToBlock

\* submit: as many shares as tokens, which is enough to tell accounts apart.
mintShares(recipient, amount) ==
    /\ CanGrow
    /\ shares' = [shares EXCEPT ![recipient] = @ + amount]
    /\ pooledAce' = pooledAce + amount
    /\ InBlock
    /\ events' = Append(events, TransferSharesEvent(ZeroAddress, recipient, amount, lastBlock'))
    /\ UNCHANGED job

transferShares(sender, recipient, amount) ==
    /\ CanGrow /\ shares[sender] >= amount
    /\ shares' = [[shares EXCEPT ![sender] = @ - amount] EXCEPT ![recipient] = @ + amount]
    /\ InBlock
    /\ events' = Append(events, TransferSharesEvent(sender, recipient, amount, lastBlock'))
    /\ UNCHANGED <<pooledAce, job>>

\* A report: shares of the burner are burnt without a transfer, the fee is
\* minted and its transfer to the treasury emitted, then TokenRebased.
reportRebase(burnt, fee) ==
    /\ CanGrow /\ shares[Burner] >= burnt
    /\ shares' = [shares EXCEPT ![Burner] = @ - burnt, ![Treasury] = @ + fee]
    /\ pooledAce' = pooledAce + fee
    /\ InBlock
    /\ events' = events \o (IF burnt > 0 THEN <<OtherEvent("SharesBurnt", lastBlock')>> ELSE <<>>)
                        \o <<TransferSharesEvent(ZeroAddress, Treasury, fee, lastBlock'),
                             OtherEvent("TokenRebased", lastBlock')>>
    /\ UNCHANGED job

-----------------------------------------------------------------------------
(* The image *)

\* provider.getLogs: fromBlock is 0.
getLogs(logs) == {k \in DOMAIN logs : logs[k].block <= ToBlock}

\* The transfers of shares among the events that are returned.
Transfers(logs) == {k \in getLogs(logs) : logs[k].name = "TransferShares"}

Touched(logs) == UNION {{logs[k].from, logs[k].to} : k \in Transfers(logs)}

\* A bug: what an account gives away is not taken from it.
ReplayedCreditsOnly(logs) ==
    [a \in Touched(logs) |-> MapThenSumSet(LAMBDA k : IF logs[k].to = a THEN logs[k].amount ELSE 0, Transfers(logs))]

\* What one transfer moves to an account, or away from it.
Moved(log, a) == (IF log.to = a THEN log.amount ELSE 0) - (IF log.from = a THEN log.amount ELSE 0)

\* sharesMap: an entry for every account of a transfer.
Replayed(logs) ==
    [a \in Touched(logs) |->
        LET moved == [k \in Transfers(logs) |-> Moved(logs[k], a)]
        IN  MapThenSumSet(LAMBDA k : moved[k], Transfers(logs))]

\* Without the zero address, the first holder and the contracts.
Image(logs) ==
    LET map == Replayed(logs)
    IN  [a \in DOMAIN map \ ({ZeroAddress, InitialTokenHolder} \cup LoaderAddresses) |-> map[a]]

\* The balances, from totals that were read after the events.
Balances(image, pooled, total) == [a \in DOMAIN image |-> (image[a] * pooled) \div total]

-----------------------------------------------------------------------------
(* The job *)

\* The job as it starts; `image` to `pooled` are of an image in the making.
NewJob(file, images, starts) ==
    [at |-> "waiting", previousReportEventCount |-> 0, image |-> <<>>, truth |-> <<>>, pooled |-> 0,
     file |-> file, images |-> images, starts |-> starts]

ImageInit ==
    /\ shares = [a \in Addresses |-> IF a = InitialTokenHolder THEN 1 ELSE 0]
    /\ pooledAce = 1
    /\ events = <<TransferSharesEvent(ZeroAddress, InitialTokenHolder, 1, 0)>>
    /\ lastBlock = 0 /\ atToBlock = shares
    /\ job = NewJob(<<>>, 0, 1)

\* The filter has no topic (`filters['TokenRebased']` is not called), so that
\* any event of the pool counts as a report; an event after block ToBlock does not.
LookForReport ==
    /\ job.at = "waiting" /\ job.images < MaxImages
    /\ job.previousReportEventCount < Cardinality(getLogs(events))
    /\ job' = [job EXCEPT !.at = "logs", !.previousReportEventCount = Cardinality(getLogs(events))]
    /\ UNCHANGED ledgerVars

\* History: `truth` is the ledger when the events are read, or at the end of block
\* ToBlock when they are read later.
ReadLogs ==
    /\ job.at = "logs"
    /\ job' = [job EXCEPT !.at = "pooled", !.image = Image(events), !.truth = atToBlock]
    /\ UNCHANGED ledgerVars

ReadTotalPooledAce ==
    /\ job.at = "pooled"
    /\ job' = [job EXCEPT !.at = "shares", !.pooled = pooledAce]
    /\ UNCHANGED ledgerVars

\* The total of the shares, and the file.
SaveImage ==
    /\ job.at = "shares"
    /\ job' = [job EXCEPT !.at = "waiting", !.pooled = 0, !.image = <<>>, !.truth = <<>>, !.images = @ + 1,
                          !.file = [shares |-> job.image, balances |-> Balances(job.image, job.pooled, TotalShares)]]
    /\ UNCHANGED ledgerVars

\* The task: one image, whatever was seen before.
sharesImage ==
    /\ job.at = "waiting" /\ job.images < MaxImages
    /\ job' = [job EXCEPT !.at = "logs"]
    /\ UNCHANGED ledgerVars

\* The job dies before the image is saved, or between two hours.
JobRestarts ==
    /\ job.starts < MaxJobStarts
    /\ job' = NewJob(job.file, job.images, job.starts + 1)
    /\ UNCHANGED ledgerVars

-----------------------------------------------------------------------------

(***************************************************************************)
(* The shares of every account in an image are those it had when the       *)
(* events were read or, if block ToBlock was past then, those it had at    *)
(* the end of that block: an image mixes no two moments, no account is     *)
(* left out, and minting, transfers of the whole balance and to oneself,   *)
(* fees and burning are all in the events.  After that block every image   *)
(* repeats the same shares, whoever has them by then.  The burner is the   *)
(* exception, its burnt shares stay in the image.                          *)
(***************************************************************************)
ImageIsExact ==
    job.at \in {"pooled", "shares"} =>
        /\ \A a \in Holders \cup {Treasury} :
               job.truth[a] = IF a \in DOMAIN job.image THEN job.image[a] ELSE 0
        /\ Burner \in DOMAIN job.image => job.image[Burner] >= job.truth[Burner]
=============================================================================
