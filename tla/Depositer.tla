----------------------------- MODULE Depositer -----------------------------
(***************************************************************************)
(* The script mainnet-depositer.js: it reads what an attestation names in  *)
(* separate calls, signs alone with the deployer's key and sends one       *)
(* transaction, which is mined at any later time, or never.  Nothing waits *)
(* for the transaction; the operator runs the script again.                *)
(***************************************************************************)
EXTENDS DepositSecurityModule

CONSTANT MaxDepositerRuns

VARIABLES depositer,    \* where the script is and what it has read
          sent          \* transactions not mined yet

depositerVars == <<depositer, sent>>

\* History: the keys that could be deposited when the nonce was read.
KeysOnOffer == [i \in Ids |-> SubSeq(signingKeys[i], nodeOperators[i].deposited + 1, nodeOperators[i].vetted)]

DepositerInit ==
    /\ depositer = [at |-> "nonce", runs |-> 1, nonce |-> 0, block |-> 0, seen |-> <<>>]
    /\ sent = {}

\* `canDeposit` and the module's status are printed before, and not acted on.
ReadNonce ==
    /\ depositer.at = "nonce"
    /\ depositer' = [depositer EXCEPT !.at = "block", !.nonce = nonce, !.seen = KeysOnOffer]
    /\ UNCHANGED sent

ReadLatestBlock ==
    /\ depositer.at = "block"
    /\ depositer' = [depositer EXCEPT !.at = "root", !.block = now - 1]
    /\ UNCHANGED sent

ReadRootAndSend ==
    /\ depositer.at = "root"
    /\ sent' = sent \cup {[nonce |-> depositer.nonce, block |-> depositer.block, root |-> depositRoot,
                           signers |-> {Deployer}, seen |-> depositer.seen]}
    /\ depositer' = [depositer EXCEPT !.at = "done", !.nonce = 0, !.block = 0, !.seen = <<>>]

\* The script ends, or dies in the middle, and is run again.
RunDepositerAgain ==
    /\ depositer.runs < MaxDepositerRuns
    /\ depositer' = [at |-> "nonce", runs |-> depositer.runs + 1, nonce |-> 0, block |-> 0, seen |-> <<>>]
    /\ UNCHANGED sent

\* A transaction is mined, and is accepted or reverts.
MineDeposit(tx) ==
    /\ tx \in sent
    /\ sent' = sent \ {tx}
    /\ IF Accepts(tx) /\ (DepositsCount = 0 \/ CanObtain(DepositsCount))
       THEN depositBufferedAce(tx)
       ELSE UNCHANGED <<registryVars, securityVars>>
    /\ UNCHANGED depositer

(***************************************************************************)
(* A deposit takes, of every operator, keys that were on offer in the same *)
(* order when the depositer read the nonce it attests to: whatever is      *)
(* added, removed, approved, reported or deposited between the reads and   *)
(* the block that takes the transaction changes the nonce, unless it       *)
(* leaves the order of the keys and their approval alone.                  *)
(***************************************************************************)
AttestedKeysDeposited ==
    [][\A tx \in sent \ sent' : \A i \in Ids :
           LET before == nodeOperators[i].deposited
           IN  nodeOperators'[i].deposited > before
               => IsPrefix(SubSeq(signingKeys[i], before + 1, nodeOperators'[i].deposited), tx.seen[i])]_<<registryVars, depositerVars>>
=============================================================================
