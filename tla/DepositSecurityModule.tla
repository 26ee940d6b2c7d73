----------------------- MODULE DepositSecurityModule -----------------------
(***************************************************************************)
(* Deposits of buffered tokens to the curated module: the contract         *)
(* DepositSecurityModule with the guardians and their quorum, and what a   *)
(* deposit does behind it in the pool, the staking router, the module and  *)
(* the deposit contract.                                                   *)
(*                                                                         *)
(* An attestation names a block, the deposit root, the nonce of the module *)
(* and its signers.  Blocks are the ticks of `now`; the root is the number *)
(* of deposits made; a signature is its signer, so that signatures in      *)
(* ascending order without repetition are a set.                           *)
(***************************************************************************)
EXTENDS NodeOperatorsRegistry

CONSTANTS Guardians,                \* accounts that may be guardians
          MaxDepositsPerBlock,      \* deposits of one call
          MinDepositBlockDistance,  \* blocks between two deposits
          PauseIntentValidity,      \* blocks a guardian's pause message is good for
          HashWindow                \* blocks whose hash the chain still knows, 256

ASSUME DepositsAssumption ==
    {MaxDepositsPerBlock, MinDepositBlockDistance, PauseIntentValidity, HashWindow} \subseteq Nat

VARIABLES guardians,            \* in the order of the contract's array
          quorum,
          moduleStatus,         \* the router's status of the module
          lastDepositBlock,
          depositRoot,
          buffer,               \* validators the pool has tokens for
          poolOpen              \* Catalist.canDeposit()

securityVars == <<guardians, quorum, moduleStatus, lastDepositBlock, depositRoot, buffer, poolOpen>>

\* The scripts that put a network to work make the deployer the only guardian.
SecurityInit ==
    /\ guardians = <<Deployer>> /\ quorum = 1
    /\ moduleStatus = "Active"
    /\ lastDepositBlock = 0 /\ depositRoot = 0
    /\ poolOpen = TRUE

IsGuardian(account) == Contains(guardians, account)

-----------------------------------------------------------------------------
(* The committee.  The owner sets a new quorum with every change of it; a  *)
(* quorum above the number of guardians is allowed.                        *)

addGuardians(accounts, newQuorum) ==
    /\ \A k \in DOMAIN accounts : ~ IsGuardian(accounts[k])
    /\ IsInjective(accounts)
    /\ guardians' = guardians \o accounts
    /\ quorum' = newQuorum
    /\ UNCHANGED <<moduleStatus, lastDepositBlock, depositRoot, buffer, poolOpen>>

\* The last guardian takes the place of the removed one.
removeGuardian(account, newQuorum) ==
    /\ IsGuardian(account)
    /\ LET k == CHOOSE i \in DOMAIN guardians : guardians[i] = account
       IN  guardians' = Front([guardians EXCEPT ![k] = Last(guardians)])
    /\ quorum' = newQuorum
    /\ UNCHANGED <<moduleStatus, lastDepositBlock, depositRoot, buffer, poolOpen>>

setGuardianQuorum(newQuorum) ==
    /\ quorum' = newQuorum
    /\ UNCHANGED <<guardians, moduleStatus, lastDepositBlock, depositRoot, buffer, poolOpen>>

-----------------------------------------------------------------------------
(* Pauses *)

\* A pause of a module that is not active is no error and changes nothing.
pauseDeposits(guardian, block) ==
    IF moduleStatus # "Active" THEN UNCHANGED securityVars
    ELSE /\ IsGuardian(guardian)
         /\ block <= now /\ now - block <= PauseIntentValidity
         /\ moduleStatus' = "DepositsPaused"
         /\ UNCHANGED <<guardians, quorum, lastDepositBlock, depositRoot, buffer, poolOpen>>

unpauseDeposits ==
    /\ moduleStatus' = IF moduleStatus = "DepositsPaused" THEN "Active" ELSE moduleStatus
    /\ UNCHANGED <<guardians, quorum, lastDepositBlock, depositRoot, buffer, poolOpen>>

\* The router's manager stops the module, or starts it again.
setStakingModuleStatus(status) ==
    /\ status # moduleStatus
    /\ moduleStatus' = status
    /\ UNCHANGED <<guardians, quorum, lastDepositBlock, depositRoot, buffer, poolOpen>>

-----------------------------------------------------------------------------
(* Deposits *)

\* The signatures and what they attest to.
verifySignatures(attestation) == \A signer \in attestation.signers : IsGuardian(signer)

Accepts(attestation) ==
    /\ quorum # 0 /\ Cardinality(attestation.signers) >= quorum
    /\ attestation.root = depositRoot
    /\ moduleStatus = "Active"
    /\ now - lastDepositBlock >= MinDepositBlockDistance
    /\ attestation.block < now /\ now - attestation.block <= HashWindow
    /\ attestation.nonce = nonce
    /\ verifySignatures(attestation)
    /\ poolOpen

\* What the buffer pays for and the module has keys for.
DepositsCount == Math256_min(MaxDepositsPerBlock, Math256_min(buffer, summary.max - summary.deposited))

\* The block counts as one with a deposit even when there is nothing to deposit.
deposit ==
    /\ lastDepositBlock' = now
    /\ IF DepositsCount = 0
       THEN UNCHANGED <<registryVars, depositRoot, buffer>>
       ELSE /\ obtainDepositData(DepositsCount)
            /\ buffer' = buffer - DepositsCount
            /\ depositRoot' = depositRoot + 1
    /\ UNCHANGED <<guardians, quorum, moduleStatus, poolOpen>>

depositBufferedAce(attestation) == Accepts(attestation) /\ deposit

\* Another depositor gives the deposit contract a validator of its own.
ForeignDeposit ==
    /\ depositRoot' = depositRoot + 1
    /\ UNCHANGED <<guardians, quorum, moduleStatus, lastDepositBlock, buffer, poolOpen>>

\* The pool is filled, paused or resumed, or goes into bunker mode or out of it.
PoolChanges ==
    /\ poolOpen' = ~ poolOpen
    /\ UNCHANGED <<guardians, quorum, moduleStatus, lastDepositBlock, depositRoot, buffer>>
=============================================================================
