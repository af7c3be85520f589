----------------------------- MODULE StakeVault -----------------------------
(***************************************************************************)
(* The stake vault: owner principal in one token account, controller-owned *)
(* locks on that principal, beneficiary claims, taker delegation and the   *)
(* delayed controller handover (instructions/stake.rs, the StakePosition   *)
(* methods of state.rs, and the two controller handlers of governance.rs). *)
(*                                                                         *)
(* A handler is one atomic instruction.  A PDA that is absent is           *)
(* represented by its initial contents: a zero position, no claim account, *)
(* no authorization, no selection, NoLock.  Every checked_sub of the code  *)
(* is a guard.                                                             *)
(***************************************************************************)
EXTENDS SolanaChain, Sums

CONSTANTS
  Signers,        \* keys that can sign as stake controller
  DisputeConfig,  \* the dispute PDA: initial controller, can never sign
  LockIds,        \* nonzero 32-byte lock identifiers
  Maturities,     \* lock maturities controllers pass
  Delay,          \* controller_change_delay
  NoLock          \* a StakeLock PDA that does not exist

StakeLock == [owner : Users, amount : Nat, maturesAt : Nat]

ASSUME StakeAssumption ==
  /\ IsFiniteSet(LockIds)
  /\ Maturities \subseteq Nat
  /\ Delay \in Nat \ {0}
  /\ NoOne \notin Signers \cup {DisputeConfig}
  /\ DisputeConfig \notin Signers
  /\ NoLock \notin StakeLock

VARIABLES
  controller,       \* vault.controller
  pending,          \* vault.pending_controller
  validAt,          \* vault.pending_controller_valid_at
  totalStaked,      \* vault.total_staked
  totalClaimable,   \* vault.total_claimable
  balance,          \* position.balance, per owner
  locked,           \* position.locked, per owner
  locks,            \* StakeLock PDAs
  claim,            \* claim.amount, per beneficiary
  claimOpen,        \* beneficiaries whose ClaimBalance PDA exists
  authorized,       \* <<owner, taker>> pairs with a live authorization
  selected,         \* selection.selected_owner, per taker
  custodyOpen,      \* the custody token account exists
  vaultTokens       \* tokens in the custody account

custodyVars    == <<totalStaked, totalClaimable, balance, locked, locks, claim,
                    claimOpen, custodyOpen, vaultTokens>>
delegationVars == <<authorized, selected>>
handoverVars   == <<controller, pending, validAt>>
stakeVars      == <<now, custodyVars, delegationVars, handoverVars>>

\* NEVER_MATURES (i64::MAX): later than every instant of the model.
Never == MaxTime + 1

CustodyTypeOK ==
  /\ totalStaked \in Nat
  /\ totalClaimable \in Nat
  /\ balance \in [Users -> Nat]
  /\ locked \in [Users -> Nat]
  /\ locks \in [LockIds -> StakeLock \cup {NoLock}]
  /\ claim \in [Users -> Nat]
  /\ claimOpen \subseteq Users
  /\ vaultTokens \in Nat

StakeTypeOK ==
  /\ CustodyTypeOK
  /\ custodyOpen \in BOOLEAN
  /\ now \in 0..MaxTime
  /\ controller \in Signers \cup {DisputeConfig}
  /\ pending \in Signers \cup {DisputeConfig, NoOne}
  /\ validAt \in Nat
  /\ authorized \subseteq Users \X Users
  /\ selected \in [Users -> Users \cup {NoOne}]

StakeInit ==
  /\ now = 0
  /\ controller = DisputeConfig
  /\ pending = NoOne
  /\ validAt = 0
  /\ totalStaked = 0
  /\ totalClaimable = 0
  /\ balance = [o \in Users |-> 0]
  /\ locked = [o \in Users |-> 0]
  /\ locks = [id \in LockIds |-> NoLock]
  /\ claim = [b \in Users |-> 0]
  /\ claimOpen = {}
  /\ authorized = {}
  /\ selected = [t \in Users |-> NoOne]
  /\ custodyOpen = FALSE
  /\ vaultTokens = 0
-----------------------------------------------------------------------------
(* Position and lock steps, shared with the dispute handlers.              *)

Live(id) == locks[id] # NoLock

Free(o) == balance[o] - locked[o]

\* StakePosition::lock
PositionLock(o, a) ==
  /\ a > 0
  /\ Free(o) >= a
  /\ locked' = [locked EXCEPT ![o] = @ + a]

\* StakePosition::unlock
PositionUnlock(o, a) ==
  /\ locked[o] >= a
  /\ locked' = [locked EXCEPT ![o] = @ - a]

\* Mutants: a payout that is not bounded by the lock, or not charged to the
\* position.
PositionResolveUnbounded(o, lockAmount, claimsAmount) ==
  /\ PositionUnlock(o, lockAmount)
  /\ balance[o] >= claimsAmount
  /\ balance' = [balance EXCEPT ![o] = @ - claimsAmount]
PositionResolveUncharged(o, lockAmount, claimsAmount) ==
  /\ claimsAmount <= lockAmount
  /\ PositionUnlock(o, lockAmount)
  /\ balance' = balance

\* StakePosition::resolve
PositionResolve(o, lockAmount, claimsAmount) ==
  /\ claimsAmount <= lockAmount
  /\ PositionUnlock(o, lockAmount)
  /\ balance[o] >= claimsAmount
  /\ balance' = [balance EXCEPT ![o] = @ - claimsAmount]

\* A new StakeLock PDA (Anchor `init`: it must not exist) over free principal.
LockStake(o, id, a, m) ==
  /\ ~Live(id)
  /\ PositionLock(o, a)
  /\ locks' = [locks EXCEPT ![id] = [owner |-> o, amount |-> a, maturesAt |-> m]]
  /\ UNCHANGED <<totalStaked, totalClaimable, balance, claim, claimOpen, custodyOpen,
                 vaultTokens>>

\* Mutant: the lock is closed and the position keeps the amount locked.
UnlockStakeLeavingPosition(o, id) ==
  /\ Live(id)
  /\ locks' = [locks EXCEPT ![id] = NoLock]
  /\ UNCHANGED <<totalStaked, totalClaimable, balance, locked, claim, claimOpen, custodyOpen,
                 vaultTokens>>

\* The whole lock of position `o` becomes free principal; the PDA is closed.
UnlockStake(o, id) ==
  /\ Live(id)
  /\ PositionUnlock(o, locks[id].amount)
  /\ locks' = [locks EXCEPT ![id] = NoLock]
  /\ UNCHANGED <<totalStaked, totalClaimable, balance, claim, claimOpen, custodyOpen,
                 vaultTokens>>

\* Mutant: frees what stays locked instead of the difference.
ShrinkStakeByRest(o, id, a, m) ==
  /\ Live(id)
  /\ a > 0
  /\ a <= locks[id].amount
  /\ PositionUnlock(o, a)
  /\ locks' = [locks EXCEPT ![id] = [@ EXCEPT !.amount = a, !.maturesAt = m]]
  /\ UNCHANGED <<totalStaked, totalClaimable, balance, claim, claimOpen, custodyOpen,
                 vaultTokens>>

\* The lock shrinks to `a` and matures at `m`; the difference becomes free.
ShrinkStake(o, id, a, m) ==
  /\ Live(id)
  /\ a > 0
  /\ a <= locks[id].amount
  /\ PositionUnlock(o, locks[id].amount - a)
  /\ locks' = [locks EXCEPT ![id] = [@ EXCEPT !.amount = a, !.maturesAt = m]]
  /\ UNCHANGED <<totalStaked, totalClaimable, balance, claim, claimOpen, custodyOpen,
                 vaultTokens>>

\* The lock is closed, `payout` of it becomes claims and the rest free principal.
ResolveStake(o, id, payout) ==
  /\ Live(id)
  /\ PositionResolve(o, locks[id].amount, Sum(payout, Users))
  /\ totalStaked >= Sum(payout, Users)
  /\ totalStaked' = totalStaked - Sum(payout, Users)
  /\ totalClaimable' = totalClaimable + Sum(payout, Users)
  /\ claim' = [b \in Users |-> claim[b] + payout[b]]
  /\ locks' = [locks EXCEPT ![id] = NoLock]
  /\ UNCHANGED <<custodyOpen, vaultTokens>>
-----------------------------------------------------------------------------
(* Principal and claims.                                                   *)

\* The custody token account is created once, by anyone, after the protocol is.
InitializeStakeTokenVault ==
  /\ ~custodyOpen
  /\ custodyOpen' = TRUE
  /\ UNCHANGED <<now, totalStaked, totalClaimable, balance, locked, locks, claim,
                 claimOpen, vaultTokens, delegationVars, handoverVars>>

DepositStake(o, a) ==
  /\ custodyOpen
  /\ a > 0
  /\ vaultTokens + a <= Supply
  /\ vaultTokens' = vaultTokens + a
  /\ balance' = [balance EXCEPT ![o] = @ + a]
  /\ totalStaked' = totalStaked + a
  /\ UNCHANGED <<now, totalClaimable, locked, locks, claim, claimOpen,
                 custodyOpen, delegationVars, handoverVars>>

WithdrawStake(o, a) ==
  /\ custodyOpen
  /\ a > 0
  /\ Free(o) >= a
  /\ totalStaked >= a
  /\ vaultTokens >= a
  /\ balance' = [balance EXCEPT ![o] = @ - a]
  /\ totalStaked' = totalStaked - a
  /\ vaultTokens' = vaultTokens - a
  /\ UNCHANGED <<now, totalClaimable, locked, locks, claim, claimOpen,
                 custodyOpen, delegationVars, handoverVars>>

InitializeClaimBalance(b) ==
  /\ claimOpen' = claimOpen \cup {b}
  /\ UNCHANGED <<now, totalStaked, totalClaimable, balance, locked, locks, claim,
                 custodyOpen, vaultTokens, delegationVars, handoverVars>>

\* Mutant: the vault's total keeps the paid claim.
ClaimStakeKeepingTotal(b) ==
  /\ custodyOpen
  /\ b \in claimOpen
  /\ claim[b] > 0
  /\ vaultTokens >= claim[b]
  /\ claim' = [claim EXCEPT ![b] = 0]
  /\ vaultTokens' = vaultTokens - claim[b]
  /\ UNCHANGED <<now, totalStaked, totalClaimable, balance, locked, locks, claimOpen,
                 custodyOpen, delegationVars, handoverVars>>

ClaimStake(b) ==
  /\ custodyOpen
  /\ b \in claimOpen
  /\ claim[b] > 0
  /\ totalClaimable >= claim[b]
  /\ vaultTokens >= claim[b]
  /\ claim' = [claim EXCEPT ![b] = 0]
  /\ totalClaimable' = totalClaimable - claim[b]
  /\ vaultTokens' = vaultTokens - claim[b]
  /\ UNCHANGED <<now, totalStaked, balance, locked, locks, claimOpen,
                 custodyOpen, delegationVars, handoverVars>>

\* Anyone may send tokens straight to the custody account.
DonateStake(a) ==
  /\ custodyOpen
  /\ a > 0
  /\ vaultTokens + a <= Supply
  /\ vaultTokens' = vaultTokens + a
  /\ UNCHANGED <<now, totalStaked, totalClaimable, balance, locked, locks, claim,
                 claimOpen, custodyOpen, delegationVars, handoverVars>>
-----------------------------------------------------------------------------
(* Delegation of stake to takers.                                          *)

\* Mutant: a revocation leaves the taker's selection standing.
SetTakerAuthorizationOnly(o, t, granted) ==
  /\ t # o
  /\ authorized' = IF granted THEN authorized \cup {<<o, t>>}
                              ELSE authorized \ {<<o, t>>}
  /\ UNCHANGED <<now, selected, custodyVars, handoverVars>>

SetTakerAuthorization(o, t, granted) ==
  /\ t # o
  /\ authorized' = IF granted THEN authorized \cup {<<o, t>>}
                              ELSE authorized \ {<<o, t>>}
  /\ selected' = IF ~granted /\ selected[t] = o
                   THEN [selected EXCEPT ![t] = NoOne] ELSE selected
  /\ UNCHANGED <<now, custodyVars, handoverVars>>

SelectStakeOwner(t, o) ==
  /\ <<o, t>> \in authorized
  /\ o # t
  /\ selected' = [selected EXCEPT ![t] = o]
  /\ UNCHANGED <<now, authorized, custodyVars, handoverVars>>

ClearStakeOwner(t) ==
  /\ selected' = [selected EXCEPT ![t] = NoOne]
  /\ UNCHANGED <<now, authorized, custodyVars, handoverVars>>
-----------------------------------------------------------------------------
(* Controller-signed lock management.                                      *)

SignedByController(c) == c \in Signers /\ c = controller

ControllerLockStake(c, o, id, a, m) ==
  /\ SignedByController(c)
  /\ m > now
  /\ LockStake(o, id, a, m)
  /\ UNCHANGED <<now, delegationVars, handoverVars>>

ControllerFundLock(c, o, id, a, m) ==
  /\ SignedByController(c)
  /\ custodyOpen
  /\ ~Live(id)
  /\ a > 0
  /\ m > now
  /\ vaultTokens + a <= Supply
  /\ balance[o] >= locked[o]
  /\ vaultTokens' = vaultTokens + a
  /\ balance' = [balance EXCEPT ![o] = @ + a]
  /\ locked' = [locked EXCEPT ![o] = @ + a]
  /\ totalStaked' = totalStaked + a
  /\ locks' = [locks EXCEPT ![id] = [owner |-> o, amount |-> a, maturesAt |-> m]]
  /\ UNCHANGED <<now, totalClaimable, claim, claimOpen, custodyOpen,
                 delegationVars, handoverVars>>

IncreaseStakeLock(c, id, a) ==
  /\ SignedByController(c)
  /\ Live(id)
  /\ now < locks[id].maturesAt
  /\ PositionLock(locks[id].owner, a)
  /\ locks' = [locks EXCEPT ![id].amount = @ + a]
  /\ UNCHANGED <<now, totalStaked, totalClaimable, balance, claim, claimOpen,
                 custodyOpen, vaultTokens, delegationVars, handoverVars>>

ResizeStakeLock(c, id, a, m) ==
  /\ SignedByController(c)
  /\ Live(id)
  /\ now < locks[id].maturesAt
  /\ m > now
  /\ ShrinkStake(locks[id].owner, id, a, m)
  /\ UNCHANGED <<now, delegationVars, handoverVars>>

ControllerUnlockStake(c, id) ==
  /\ SignedByController(c)
  /\ Live(id)
  /\ UnlockStake(locks[id].owner, id)
  /\ UNCHANGED <<now, delegationVars, handoverVars>>

\* Mutant: beneficiaries need no ClaimBalance account.
ResolveStakeLockToAnyone(c, id, payout) ==
  /\ SignedByController(c)
  /\ Live(id)
  /\ \E b \in Users : payout[b] > 0
  /\ ResolveStake(locks[id].owner, id, payout)
  /\ UNCHANGED <<now, claimOpen, delegationVars, handoverVars>>

\* `payout` maps every user to its allocation; 0 stands for "not in the list",
\* since the handler refuses zero allocations and repeated beneficiaries.
ResolveStakeLock(c, id, payout) ==
  /\ SignedByController(c)
  /\ Live(id)
  /\ \E b \in Users : payout[b] > 0
  /\ \A b \in Users : payout[b] > 0 => b \in claimOpen
  /\ ResolveStake(locks[id].owner, id, payout)
  /\ UNCHANGED <<now, claimOpen, delegationVars, handoverVars>>
-----------------------------------------------------------------------------
(* Delayed controller handover, proposed by the protocol authority.        *)

\* Mutant: replacing a pending candidate keeps the boundary already running.
ProposeStakeControllerInPlace(candidate) ==
  /\ candidate # controller
  /\ pending' = candidate
  /\ validAt' = IF pending = NoOne THEN now + Delay ELSE validAt
  /\ UNCHANGED <<now, controller, custodyVars, delegationVars>>

ProposeStakeController(candidate) ==
  /\ candidate # controller
  /\ pending' = candidate
  /\ validAt' = now + Delay
  /\ UNCHANGED <<now, controller, custodyVars, delegationVars>>

CancelStakeController ==
  /\ pending # NoOne
  /\ pending' = NoOne
  /\ validAt' = 0
  /\ UNCHANGED <<now, controller, custodyVars, delegationVars>>

AcceptStakeController(c) ==
  /\ c \in Signers
  /\ pending = c
  /\ now >= validAt
  /\ controller' = c
  /\ pending' = NoOne
  /\ validAt' = 0
  /\ UNCHANGED <<now, custodyVars, delegationVars>>
-----------------------------------------------------------------------------
StakeTick == Tick /\ UNCHANGED <<custodyVars, delegationVars, handoverVars>>

OwnerNext ==
  \/ InitializeStakeTokenVault
  \/ \E o \in Users, a \in Amounts : DepositStake(o, a) \/ WithdrawStake(o, a)
  \/ \E b \in Users : InitializeClaimBalance(b) \/ ClaimStake(b)
  \/ \E a \in Amounts : DonateStake(a)
  \/ \E o, t \in Users, granted \in BOOLEAN : SetTakerAuthorization(o, t, granted)
  \/ \E o, t \in Users : SelectStakeOwner(t, o)
  \/ \E t \in Users : ClearStakeOwner(t)

ControllerNext ==
  \E c \in Signers, id \in LockIds :
    \/ \E o \in Users, a \in Amounts, m \in Maturities :
         ControllerLockStake(c, o, id, a, m) \/ ControllerFundLock(c, o, id, a, m)
    \/ \E a \in Amounts : IncreaseStakeLock(c, id, a)
    \/ \E a \in Amounts, m \in Maturities : ResizeStakeLock(c, id, a, m)
    \/ ControllerUnlockStake(c, id)
    \/ \E payout \in [Users -> Amounts \cup {0}] : ResolveStakeLock(c, id, payout)

HandoverNext ==
  \/ \E c \in Signers \cup {DisputeConfig} : ProposeStakeController(c)
  \/ CancelStakeController
  \/ \E c \in Signers : AcceptStakeController(c)

StakeNext == StakeTick \/ OwnerNext \/ ControllerNext \/ HandoverNext

StakeSpec == StakeInit /\ [][StakeNext]_stakeVars
-----------------------------------------------------------------------------
(* Correctness of the vault.                                               *)

\* The amounts of o's live locks, 0 elsewhere.
LockAmounts(o) ==
  [id \in LockIds |-> IF Live(id) /\ locks[id].owner = o THEN locks[id].amount ELSE 0]

\* position.locked is exactly the sum of the owner's live StakeLock accounts,
\* whatever order locks are opened, increased, resized, unlocked and resolved in.
LockedIsSumOfLocks == \A o \in Users : locked[o] = Sum(LockAmounts(o), LockIds)

\* No position is locked beyond its principal, so free() never returns None.
LockedWithinBalance == \A o \in Users : locked[o] <= balance[o]

\* vault.total_staked and vault.total_claimable summarise the positions and the
\* claim accounts exactly.
TotalsMatchAccounts ==
  /\ totalStaked = Sum(balance, Users)
  /\ totalClaimable = Sum(claim, Users)

\* The custody account covers every recorded liability.
StakeSolvent == totalStaked + totalClaimable <= vaultTokens

\* The checked_sub calls and token transfers of withdraw, claim, unlock and
\* resolve cannot fail: whatever is recorded as free, claimable or locked can
\* be paid out or released.
Redeemable ==
  /\ \A o \in Users : Free(o) \in 0..totalStaked /\ Free(o) <= vaultTokens
  /\ \A b \in Users : claim[b] <= totalClaimable /\ claim[b] <= vaultTokens
  /\ \A b \in Users : claim[b] > 0 => b \in claimOpen
  /\ \A id \in LockIds : Live(id) =>
       /\ locks[id].amount > 0
       /\ locks[id].amount <= locked[locks[id].owner]
       /\ locks[id].amount <= totalStaked

\* A taker's selected third-party owner currently authorizes that taker, even
\* after grants and revocations in any order; nobody selects itself.
SelectionAuthorized ==
  \A t \in Users : selected[t] # NoOne =>
    selected[t] # t /\ <<selected[t], t>> \in authorized

\* A StakeLock account never holds zero: every handler that writes an amount
\* refuses zero first.
LocksNonempty == \A id \in LockIds : Live(id) => locks[id].amount > 0

\* A recorded claim always has the ClaimBalance account it is recorded in.
ClaimsHaveAccounts == \A b \in Users : claim[b] > 0 => b \in claimOpen

\* What the positions, locks, claims and tokens of the vault say of each other.
CustodyInv ==
  /\ CustodyTypeOK
  /\ LockedIsSumOfLocks
  /\ LockedWithinBalance
  /\ TotalsMatchAccounts
  /\ StakeSolvent
  /\ LocksNonempty
  /\ ClaimsHaveAccounts

\* The inductive invariant of the vault: everything recorded about stake is
\* well formed, adds up, is covered by tokens and was authorized, after every
\* handler in any order.
StakeInv ==
  /\ StakeTypeOK
  /\ CustodyInv
  /\ SelectionAuthorized

\* Tokens beyond the recorded liabilities.
Surplus == vaultTokens - totalStaked - totalClaimable

\* Locks, totals and claim accounts are bookkeeping: seen from the token account
\* and from what each user owns (principal and claims), every handler is a
\* receipt, a payment, a transfer of claims or nothing at all.
Abstract == INSTANCE Custody WITH
  Parties <- Users, tokens <- vaultTokens, owed <- [u \in Users |-> balance[u] + claim[u]]

ImplementsCustody == Abstract!Spec

\* Principal leaves a position in two ways only: a withdrawal within the free
\* stake, or the resolution of one of the owner's own locks, within that
\* lock's amount and credited in full to claims.
PrincipalLeavesThroughLocksOnly ==
  [][\A o \in Users : balance'[o] < balance[o] =>
       LET drop == balance[o] - balance'[o] IN
         \/ drop <= Free(o) /\ locks' = locks /\ vaultTokens' = vaultTokens - drop
         \/ \E id \in LockIds :
              /\ Live(id) /\ locks[id].owner = o /\ locks'[id] = NoLock
              /\ drop <= locks[id].amount
              /\ totalClaimable' = totalClaimable + drop]_stakeVars

\* A controller takes office only as the pending candidate, at or after the
\* recorded boundary; a (re-)proposal always sets that boundary a full delay
\* ahead; and nothing moves it closer while the proposal stands.
HandoverIsDelayed ==
  [][/\ controller' # controller => controller' = pending /\ now >= validAt
     /\ (pending' # NoOne /\ pending' # pending) => validAt' >= now + Delay
     /\ (pending' # NoOne /\ pending' = pending) => validAt' >= validAt]_stakeVars
=============================================================================
