-------------------------- MODULE StakeVaultProofs --------------------------
(***************************************************************************)
(* The stake vault keeps its books for any number of users, locks, amounts *)
(* and instants: the steps on positions and locks that the handlers share  *)
(* preserve the inductive invariant, then every handler does; and what     *)
(* follows.                                                                *)
(***************************************************************************)
EXTENDS StakeVault, SumsProofs, TLAPS

USE StakeAssumption, ChainAssumption
-----------------------------------------------------------------------------
(* The steps on positions and locks.                                       *)

\* If one lock changes, and position.locked moves by the difference for every
\* owner, position.locked stays the sum of the locks.
LEMMA LockedSumStep ==
  ASSUME CustodyTypeOK, CustodyTypeOK', LockedIsSumOfLocks,
         NEW id \in LockIds,
         \A other \in LockIds \ {id} : locks'[other] = locks[other],
         \A o \in Users :
           locked'[o] = locked[o] - LockAmounts(o)[id] + LockAmounts(o)'[id]
  PROVE  LockedIsSumOfLocks'
<1> SUFFICES ASSUME NEW o \in Users
             PROVE  locked'[o] = Sum(LockAmounts(o)', LockIds)
  BY Zenon DEF LockedIsSumOfLocks
<1> DEFINE f == LockAmounts(o)
           g == LockAmounts(o)'
<1>1. f \in [LockIds -> Nat] /\ g \in [LockIds -> Nat]
  BY SMTT(60) DEF CustodyTypeOK, LockAmounts, Live, StakeLock
<1>2. \A other \in LockIds \ {id} : g[other] = f[other]
  BY Zenon DEF LockAmounts, Live
<1>3. locked[o] = Sum(f, LockIds)
  BY Zenon DEF LockedIsSumOfLocks
<1>4. locked'[o] = locked[o] - f[id] + g[id]
  OBVIOUS
<1> HIDE DEF f, g
<1>5. Sum(g, LockIds) = Sum(f, LockIds) - f[id] + g[id]
  BY <1>1, <1>2, SumStep, SMTT(60)
<1> QED
  BY <1>3, <1>4, <1>5, Zenon DEF g

\* The locks of an owner cover at most its locked principal: each single lock
\* is within position.locked.
LEMMA LockWithinLocked ==
  ASSUME CustodyTypeOK, LockedIsSumOfLocks, NEW id \in LockIds, Live(id)
  PROVE  locks[id].amount <= locked[locks[id].owner]
<1> DEFINE o == locks[id].owner
           f == LockAmounts(o)
<1>1. o \in Users /\ f \in [LockIds -> Nat] /\ f[id] = locks[id].amount
  BY Zenon DEF CustodyTypeOK, LockAmounts, Live, StakeLock
<1>2. locked[o] = Sum(f, LockIds)
  BY <1>1, Zenon DEF LockedIsSumOfLocks
<1> HIDE DEF f
<1>3. f[id] <= Sum(f, LockIds)
  BY <1>1, SumBound, Zenon
<1> QED
  BY <1>1, <1>2, <1>3, Zenon

-----------------------------------------------------------------------------
(* The funds: what totals, claims and tokens say of each other, whatever   *)
(* becomes of the locks.                                                   *)

\* Totals are sums, tokens cover them, and every claim has its account.
StakeFundsInv == CustodyTypeOK /\ TotalsMatchAccounts /\ StakeSolvent /\ ClaimsHaveAccounts

\* The books are the funds and the locks.
LEMMA CustodyParts ==
  CustodyInv <=> StakeFundsInv /\ LockedIsSumOfLocks /\ LockedWithinBalance /\ LocksNonempty
BY Zenon DEF CustodyInv, StakeFundsInv

\* Locking and unlocking moves no funds.
LEMMA LockingFunds ==
  ASSUME StakeFundsInv, locked' \in [Users -> Nat], locks' \in [LockIds -> StakeLock \cup {NoLock}],
         UNCHANGED <<totalStaked, totalClaimable, balance, claim, claimOpen, vaultTokens>>
  PROVE  StakeFundsInv'
BY Zenon DEF StakeFundsInv, CustodyTypeOK, TotalsMatchAccounts, StakeSolvent, ClaimsHaveAccounts

\* The total of the positions follows the one position that changes.
LEMMA PrincipalStep ==
  ASSUME CustodyTypeOK, TotalsMatchAccounts, NEW o \in Users, NEW n \in Nat,
         balance' = [balance EXCEPT ![o] = n]
  PROVE  /\ balance' \in [Users -> Nat]
         /\ Sum(balance', Users) = totalStaked - balance[o] + n
<1> DEFINE f == balance
           g == balance'
<1>1. /\ f \in [Users -> Nat] /\ g \in [Users -> Nat] /\ g[o] = n
      /\ \A q \in Users \ {o} : g[q] = f[q]
  BY Zenon DEF CustodyTypeOK
<1>2. totalStaked = Sum(f, Users)
  BY Zenon DEF TotalsMatchAccounts
<1> HIDE DEF f, g
<1>3. Sum(g, Users) = Sum(f, Users) - f[o] + g[o]
  BY <1>1, SumStep, SMTT(60)
<1> QED BY <1>1, <1>2, <1>3, Zenon DEF f, g

\* Stake that arrives with its tokens is recorded in one position and in the total.
LEMMA FundingFunds ==
  ASSUME StakeFundsInv, NEW o \in Users, NEW a \in Nat,
         locked' \in [Users -> Nat], locks' \in [LockIds -> StakeLock \cup {NoLock}],
         balance' = [balance EXCEPT ![o] = @ + a],
         totalStaked' = totalStaked + a, vaultTokens' = vaultTokens + a,
         UNCHANGED <<totalClaimable, claim, claimOpen>>
  PROVE  StakeFundsInv'
<1>1. CustodyTypeOK /\ TotalsMatchAccounts /\ balance[o] + a \in Nat
      /\ balance' = [balance EXCEPT ![o] = balance[o] + a]
  BY SMTT(60) DEF StakeFundsInv, CustodyTypeOK
<1>2. balance' \in [Users -> Nat] /\ Sum(balance', Users) = totalStaked - balance[o] + (balance[o] + a)
  BY <1>1, PrincipalStep, Zenon
<1>3. CustodyTypeOK'
  BY <1>2, SMTT(60) DEF StakeFundsInv, CustodyTypeOK
<1>4. TotalsMatchAccounts'
  BY <1>2, SMTT(60) DEF StakeFundsInv, CustodyTypeOK, TotalsMatchAccounts
<1>5. (StakeSolvent /\ ClaimsHaveAccounts)'
  BY SMTT(60) DEF StakeFundsInv, CustodyTypeOK, StakeSolvent, ClaimsHaveAccounts
<1> QED
  BY <1>3, <1>4, <1>5, Zenon DEF StakeFundsInv

\* A withdrawal takes the same out of a position, the total and the account.
LEMMA WithdrawFunds ==
  ASSUME StakeFundsInv, NEW o \in Users, NEW a \in Nat, WithdrawStake(o, a)
  PROVE  StakeFundsInv'
<1>1. CustodyTypeOK /\ TotalsMatchAccounts /\ balance[o] - a \in Nat
      /\ balance' = [balance EXCEPT ![o] = balance[o] - a]
  BY SMTT(60) DEF StakeFundsInv, CustodyTypeOK, WithdrawStake, Free
<1>2. balance' \in [Users -> Nat] /\ Sum(balance', Users) = totalStaked - balance[o] + (balance[o] - a)
  BY <1>1, PrincipalStep, Zenon
<1>3. CustodyTypeOK'
  BY <1>2, SMTT(60) DEF StakeFundsInv, CustodyTypeOK, WithdrawStake
<1>4. TotalsMatchAccounts'
  BY <1>2, SMTT(60) DEF StakeFundsInv, CustodyTypeOK, TotalsMatchAccounts, WithdrawStake
<1>5. (StakeSolvent /\ ClaimsHaveAccounts)'
  BY SMTT(60) DEF StakeFundsInv, CustodyTypeOK, StakeSolvent, ClaimsHaveAccounts, WithdrawStake
<1> QED
  BY <1>3, <1>4, <1>5, Zenon DEF StakeFundsInv

\* A claim empties one claim account, and takes the same out of the total and the account.
LEMMA ClaimFunds ==
  ASSUME StakeFundsInv, NEW b \in Users, ClaimStake(b)
  PROVE  StakeFundsInv'
<1>1. CustodyTypeOK'
  BY SMTT(60) DEF StakeFundsInv, CustodyTypeOK, ClaimStake
<1>2. /\ claim \in [Users -> Nat] /\ claim' \in [Users -> Nat] /\ claim'[b] = 0
      /\ \A q \in Users \ {b} : claim'[q] = claim[q]
  BY Zenon DEF StakeFundsInv, CustodyTypeOK, ClaimStake
<1>3. Sum(claim', Users) = Sum(claim, Users) - claim[b] + claim'[b]
  BY <1>2, SumStep, SMTT(60)
<1>4. TotalsMatchAccounts'
  BY <1>2, <1>3, SMTT(60) DEF StakeFundsInv, CustodyTypeOK, TotalsMatchAccounts, ClaimStake
<1>5. StakeSolvent'
  BY SMTT(60) DEF StakeFundsInv, CustodyTypeOK, StakeSolvent, ClaimStake
<1>6. ClaimsHaveAccounts'
  BY <1>2, Zenon DEF StakeFundsInv, ClaimsHaveAccounts, ClaimStake
<1> QED
  BY <1>1, <1>4, <1>5, <1>6, Zenon DEF StakeFundsInv

\* Resolving a lock turns principal into claims, whoever's position it is charged to.
LEMMA ResolveFunds ==
  ASSUME StakeFundsInv, NEW o \in Users, NEW id \in LockIds, NEW payout \in [Users -> Nat],
         ResolveStake(o, id, payout),
         claimOpen' \subseteq Users, claimOpen \subseteq claimOpen',
         \A b \in Users : payout[b] > 0 => b \in claimOpen'
  PROVE  StakeFundsInv'
<1> DEFINE p == Sum(payout, Users)
<1>1. locks[id].amount \in Nat
  BY Zenon DEF StakeFundsInv, CustodyTypeOK, ResolveStake, Live, StakeLock
<1>2. p \in Nat
  BY SumType, Zenon
<1> HIDE DEF p
<1>3. /\ locks[id].amount <= locked[o]
      /\ p <= balance[o] /\ p <= totalStaked
      /\ locked' = [locked EXCEPT ![o] = @ - locks[id].amount]
      /\ balance' = [balance EXCEPT ![o] = @ - p]
      /\ totalStaked' = totalStaked - p
      /\ totalClaimable' = totalClaimable + p
      /\ claim' = [b \in Users |-> claim[b] + payout[b]]
      /\ locks' = [locks EXCEPT ![id] = NoLock]
      /\ vaultTokens' = vaultTokens
  BY Zenon DEF ResolveStake, PositionResolve, PositionUnlock, p
<1>4. CustodyTypeOK'
  BY <1>1, <1>2, <1>3, SMTT(60) DEF StakeFundsInv, CustodyTypeOK
<1>5. TotalsMatchAccounts'
  <2>0. /\ balance \in [Users -> Nat] /\ balance' \in [Users -> Nat]
        /\ \A q \in Users \ {o} : balance'[q] = balance[q]
    BY <1>3, <1>4, Zenon DEF StakeFundsInv, CustodyTypeOK
  <2>1. Sum(balance', Users) = Sum(balance, Users) - balance[o] + balance'[o]
    BY <2>0, SumStep, SMTT(60)
  <2>2. balance'[o] = balance[o] - p
    BY <1>3, Zenon DEF StakeFundsInv, CustodyTypeOK
  <2>3. Sum(claim', Users) = Sum(claim, Users) + p
    BY <1>3, SumPlus, Zenon DEF StakeFundsInv, CustodyTypeOK, p
  <2>4. totalStaked = Sum(balance, Users) /\ totalClaimable = Sum(claim, Users)
    BY Zenon DEF StakeFundsInv, TotalsMatchAccounts
  <2>5. totalStaked' = Sum(balance', Users)
    BY <1>2, <1>3, <2>1, <2>2, <2>4, SMTT(60) DEF StakeFundsInv, CustodyTypeOK
  <2> QED BY <1>3, <2>3, <2>4, <2>5, Zenon DEF TotalsMatchAccounts
<1>6. StakeSolvent'
  BY <1>2, <1>3, SMTT(60) DEF StakeFundsInv, CustodyTypeOK, StakeSolvent
<1>7. ClaimsHaveAccounts'
  BY <1>3, SMTT(60) DEF StakeFundsInv, CustodyTypeOK, ClaimsHaveAccounts
<1> QED
  BY <1>4, <1>5, <1>6, <1>7, Zenon DEF StakeFundsInv

\* Donations add surplus; opening a claim account or the token account records
\* nothing.
LEMMA AccountsOpenedFunds ==
  ASSUME StakeFundsInv,
         \/ \E a \in Nat : DonateStake(a)
         \/ \E b \in Users : InitializeClaimBalance(b)
         \/ InitializeStakeTokenVault
  PROVE  StakeFundsInv'
<1>1. ASSUME NEW a \in Nat, DonateStake(a) PROVE StakeFundsInv'
  <2>1. (CustodyTypeOK /\ StakeSolvent)'
    BY <1>1, SMTT(60) DEF StakeFundsInv, CustodyTypeOK, StakeSolvent, DonateStake
  <2>2. (TotalsMatchAccounts /\ ClaimsHaveAccounts)'
    BY <1>1, Zenon DEF StakeFundsInv, TotalsMatchAccounts, ClaimsHaveAccounts, DonateStake
  <2> QED BY <2>1, <2>2, Zenon DEF StakeFundsInv
<1>2. ASSUME NEW b \in Users, InitializeClaimBalance(b) PROVE StakeFundsInv'
  <2>1. (CustodyTypeOK /\ ClaimsHaveAccounts)'
    BY <1>2, Zenon DEF StakeFundsInv, CustodyTypeOK, ClaimsHaveAccounts, InitializeClaimBalance
  <2>2. (TotalsMatchAccounts /\ StakeSolvent)'
    BY <1>2, Zenon DEF StakeFundsInv, TotalsMatchAccounts, StakeSolvent, InitializeClaimBalance
  <2> QED BY <2>1, <2>2, Zenon DEF StakeFundsInv
<1>3. CASE InitializeStakeTokenVault
  BY <1>3, LockingFunds, Zenon DEF StakeFundsInv, CustodyTypeOK, InitializeStakeTokenVault
<1> QED
  BY <1>1, <1>2, <1>3, Zenon

\* The position and the lock that unlocking, shrinking or increasing writes keep
\* their types, whoever's position it is.
LEMMA LockingTypes ==
  ASSUME CustodyTypeOK, NEW o \in Users, NEW id \in LockIds, NEW a \in Nat, NEW m \in Nat,
         \/ LockStake(o, id, a, m) \/ UnlockStake(o, id) \/ ShrinkStake(o, id, a, m)
  PROVE  locked' \in [Users -> Nat] /\ locks' \in [LockIds -> StakeLock \cup {NoLock}]
<1>0. Live(id) => locks[id] \in StakeLock /\ locks[id].amount \in Nat
  BY Zenon DEF CustodyTypeOK, Live, StakeLock
<1>1. \A n \in Nat : locked' = [locked EXCEPT ![o] = n] => locked' \in [Users -> Nat]
  BY Zenon DEF CustodyTypeOK
<1>2. \A l \in StakeLock \cup {NoLock} :
        locks' = [locks EXCEPT ![id] = l] => locks' \in [LockIds -> StakeLock \cup {NoLock}]
  BY Zenon DEF CustodyTypeOK
<1>3. locked[o] \in Nat
  BY Zenon DEF CustodyTypeOK
<1>4. CASE LockStake(o, id, a, m)
  <2>1. locked[o] + a \in Nat /\ locked' = [locked EXCEPT ![o] = locked[o] + a]
    BY <1>3, <1>4, SMTT(60) DEF LockStake, PositionLock, CustodyTypeOK
  <2>2. [owner |-> o, amount |-> a, maturesAt |-> m] \in StakeLock
    BY Zenon DEF StakeLock
  <2>3. locks' = [locks EXCEPT ![id] = [owner |-> o, amount |-> a, maturesAt |-> m]]
    BY <1>4, Zenon DEF LockStake
  <2> QED BY <1>1, <1>2, <2>1, <2>2, <2>3, Zenon
<1>5. CASE UnlockStake(o, id)
  <2> DEFINE b == locks[id].amount
  <2>1. b \in Nat /\ locked[o] >= b /\ locked' = [locked EXCEPT ![o] = locked[o] - b]
        /\ locks' = [locks EXCEPT ![id] = NoLock]
    BY <1>0, <1>5, Zenon DEF UnlockStake, PositionUnlock, CustodyTypeOK
  <2> HIDE DEF b
  <2>2. locked[o] - b \in Nat
    BY <1>3, <2>1, SMTT(60)
  <2> QED BY <1>1, <1>2, <2>1, <2>2, Zenon
<1>6. CASE ShrinkStake(o, id, a, m)
  <2> DEFINE b == locks[id].amount
             l == [locks[id] EXCEPT !.amount = a, !.maturesAt = m]
  <2>1. /\ b \in Nat /\ a <= b /\ locked[o] >= b - a
        /\ locked' = [locked EXCEPT ![o] = locked[o] - (b - a)]
        /\ locks' = [locks EXCEPT ![id] = l]
    BY <1>0, <1>6, Zenon DEF ShrinkStake, PositionUnlock, CustodyTypeOK
  <2>2. l \in StakeLock
    BY <1>0, <1>6, Zenon DEF ShrinkStake, StakeLock
  <2> HIDE DEF b, l
  <2>3. locked[o] - (b - a) \in Nat
    BY <1>3, <2>1, SMTT(60)
  <2> QED BY <1>1, <1>2, <2>1, <2>2, <2>3, Zenon
<1> QED
  BY <1>4, <1>5, <1>6, Zenon

\* Locking, unlocking and shrinking keep the funds, whoever's position it is.
LEMMA LockStepFunds ==
  ASSUME StakeFundsInv, NEW o \in Users, NEW id \in LockIds, NEW a \in Nat, NEW m \in Nat,
         \/ LockStake(o, id, a, m) \/ UnlockStake(o, id) \/ ShrinkStake(o, id, a, m)
  PROVE  StakeFundsInv'
<1>1. locked' \in [Users -> Nat] /\ locks' \in [LockIds -> StakeLock \cup {NoLock}]
  BY LockingTypes, Zenon DEF StakeFundsInv
<1>2. UNCHANGED <<totalStaked, totalClaimable, balance, claim, claimOpen, vaultTokens>>
  BY Zenon DEF LockStake, UnlockStake, ShrinkStake
<1> QED
  BY <1>1, <1>2, LockingFunds, Zenon
-----------------------------------------------------------------------------
(* Each step on positions and locks preserves the custody invariant.       *)

\* Steps that leave the books alone.
LEMMA CustodyStutter == CustodyInv /\ UNCHANGED custodyVars => CustodyInv'
BY SMTT(60) DEF custodyVars, CustodyInv, CustodyTypeOK, LockedIsSumOfLocks, LockAmounts, Live,
       LockedWithinBalance, TotalsMatchAccounts, StakeSolvent, LocksNonempty,
       ClaimsHaveAccounts

\* Opening a lock over free principal.
LEMMA LockStakeInv ==
  ASSUME CustodyInv, NEW o \in Users, NEW id \in LockIds, NEW a \in Nat, NEW m \in Nat,
         LockStake(o, id, a, m)
  PROVE  CustodyInv'
<1> DEFINE l == [owner |-> o, amount |-> a, maturesAt |-> m]
<1>0. l \in StakeLock /\ l # NoLock /\ l.owner = o /\ l.amount = a
  BY SMTT(60) DEF StakeLock
<1> HIDE DEF l
<1>1. locks' = [locks EXCEPT ![id] = l]
  BY Zenon DEF LockStake, l
<1>2. CustodyTypeOK'
  BY <1>0, <1>1, SMTT(60) DEF CustodyInv, CustodyTypeOK, LockStake, PositionLock, Free
<1>3. LockedIsSumOfLocks'
  <2>1. \A other \in LockIds \ {id} : locks'[other] = locks[other]
    BY <1>1, Zenon DEF CustodyInv, CustodyTypeOK
  <2>2. ASSUME NEW p \in Users
        PROVE  locked'[p] = locked[p] - LockAmounts(p)[id] + LockAmounts(p)'[id]
    <3>1. LockAmounts(p)[id] = 0
      BY Zenon DEF LockAmounts, LockStake, Live
    <3>2. LockAmounts(p)'[id] = IF p = o THEN a ELSE 0
      BY <1>0, <1>1, Zenon DEF LockAmounts, Live, CustodyInv, CustodyTypeOK
    <3> QED BY <3>1, <3>2, SMTT(60) DEF CustodyInv, CustodyTypeOK, LockStake, PositionLock
  <2> QED BY <1>2, <2>1, <2>2, LockedSumStep, Zenon DEF CustodyInv
<1>4. LockedWithinBalance'
  BY SMTT(60) DEF CustodyInv, CustodyTypeOK, LockedWithinBalance, LockStake, PositionLock, Free
<1>5. (TotalsMatchAccounts /\ StakeSolvent /\ ClaimsHaveAccounts)'
  BY Zenon DEF CustodyInv, LockStake, TotalsMatchAccounts, StakeSolvent, ClaimsHaveAccounts
<1>6. LocksNonempty'
  BY <1>0, <1>1, Zenon DEF CustodyInv, CustodyTypeOK, LocksNonempty, Live, LockStake, PositionLock
<1> QED
  BY <1>2, <1>3, <1>4, <1>5, <1>6, Zenon DEF CustodyInv

\* Closing a lock and freeing its principal.
LEMMA UnlockStakeInv ==
  ASSUME CustodyInv, NEW id \in LockIds, UnlockStake(locks[id].owner, id)
  PROVE  CustodyInv'
<1> DEFINE o == locks[id].owner
<1>1. o \in Users /\ locks[id].amount \in Nat /\ locks[id] # NoLock
  BY Zenon DEF CustodyInv, CustodyTypeOK, UnlockStake, Live, StakeLock
<1>2. CustodyTypeOK'
  BY <1>1, SMTT(60) DEF CustodyInv, CustodyTypeOK, UnlockStake, PositionUnlock
<1>3. LockedIsSumOfLocks'
  <2>1. \A other \in LockIds \ {id} : locks'[other] = locks[other]
    BY Zenon DEF CustodyInv, CustodyTypeOK, UnlockStake
  <2>2. ASSUME NEW p \in Users
        PROVE  locked'[p] = locked[p] - LockAmounts(p)[id] + LockAmounts(p)'[id]
    <3>1. LockAmounts(p)[id] = IF p = o THEN locks[id].amount ELSE 0
      BY <1>1, Zenon DEF LockAmounts, Live
    <3>2. LockAmounts(p)'[id] = 0
      BY Zenon DEF LockAmounts, Live, CustodyInv, CustodyTypeOK, UnlockStake
    <3> QED BY <1>1, <3>1, <3>2, SMTT(60) DEF CustodyInv, CustodyTypeOK, UnlockStake, PositionUnlock
  <2> QED BY <1>2, <2>1, <2>2, LockedSumStep, Zenon DEF CustodyInv
<1>4. LockedWithinBalance'
  BY <1>1, SMTT(60) DEF CustodyInv, CustodyTypeOK, LockedWithinBalance, UnlockStake, PositionUnlock
<1>5. (TotalsMatchAccounts /\ StakeSolvent /\ ClaimsHaveAccounts)'
  BY Zenon DEF CustodyInv, UnlockStake, TotalsMatchAccounts, StakeSolvent, ClaimsHaveAccounts
<1>6. LocksNonempty'
  BY Zenon DEF CustodyInv, CustodyTypeOK, LocksNonempty, Live, UnlockStake
<1> QED
  BY <1>2, <1>3, <1>4, <1>5, <1>6, Zenon DEF CustodyInv

\* Rewriting a lock in place, with position.locked moving by the difference.
LEMMA ResizedLockInv ==
  ASSUME CustodyInv, NEW id \in LockIds, Live(id), NEW l \in StakeLock,
         l.owner = locks[id].owner, l.amount > 0,
         locks' = [locks EXCEPT ![id] = l],
         locked' = [locked EXCEPT ![l.owner] = @ - locks[id].amount + l.amount],
         l.amount <= locks[id].amount + Free(l.owner),
         UNCHANGED <<totalStaked, totalClaimable, balance, claim, claimOpen, vaultTokens>>
  PROVE  CustodyInv'
<1> DEFINE o == l.owner
           a == l.amount
           b == locks[id].amount
<1>1. /\ locks \in [LockIds -> StakeLock \cup {NoLock}]
      /\ o \in Users /\ a \in Nat /\ b \in Nat /\ l # NoLock
  BY Zenon DEF CustodyInv, CustodyTypeOK, Live, StakeLock
<1>2. locks'[id] = l /\ \A other \in LockIds \ {id} : locks'[other] = locks[other]
  BY <1>1, Zenon
<1>3. b <= locked[o]
  BY LockWithinLocked, Zenon DEF CustodyInv
<1>4. /\ locked' \in [Users -> Nat]
      /\ \A p \in Users : locked'[p] = IF p = o THEN locked[o] - b + a ELSE locked[p]
  BY <1>1, <1>3, SMTT(60) DEF CustodyInv, CustodyTypeOK
<1>5. CustodyTypeOK'
  BY <1>1, <1>4, Zenon DEF CustodyInv, CustodyTypeOK
<1>6. LockedIsSumOfLocks'
  <2>1. ASSUME NEW p \in Users
        PROVE  locked'[p] = locked[p] - LockAmounts(p)[id] + LockAmounts(p)'[id]
    <3>1. LockAmounts(p)[id] = IF p = o THEN b ELSE 0
      BY Zenon DEF LockAmounts, Live
    <3>2. LockAmounts(p)'[id] = IF p = o THEN a ELSE 0
      BY <1>1, <1>2, Zenon DEF LockAmounts, Live
    <3> HIDE DEF a, b
    <3> QED BY <1>1, <1>4, <3>1, <3>2, SMTT(60) DEF CustodyInv, CustodyTypeOK
  <2> QED BY <1>2, <1>5, <2>1, LockedSumStep, Zenon DEF CustodyInv
<1>7. LockedWithinBalance'
  BY <1>1, <1>4, SMTT(60) DEF CustodyInv, CustodyTypeOK, LockedWithinBalance, Free
<1>8. (TotalsMatchAccounts /\ StakeSolvent /\ ClaimsHaveAccounts)'
  BY Zenon DEF CustodyInv, TotalsMatchAccounts, StakeSolvent, ClaimsHaveAccounts
<1>9. LocksNonempty'
  BY <1>2, Zenon DEF CustodyInv, LocksNonempty, Live
<1> QED
  BY <1>5, <1>6, <1>7, <1>8, <1>9, Zenon DEF CustodyInv

\* Shrinking a lock.
LEMMA ShrinkStakeInv ==
  ASSUME CustodyInv, NEW id \in LockIds, NEW a \in Nat, NEW m \in Nat,
         ShrinkStake(locks[id].owner, id, a, m)
  PROVE  CustodyInv'
<1> DEFINE l == [locks[id] EXCEPT !.amount = a, !.maturesAt = m]
<1>1. /\ Live(id) /\ locks[id].owner \in Users /\ locks[id].amount \in Nat
      /\ l \in StakeLock /\ l.owner = locks[id].owner /\ l.amount = a /\ a > 0
  BY Zenon DEF CustodyInv, CustodyTypeOK, ShrinkStake, Live, StakeLock
<1>2. locks' = [locks EXCEPT ![id] = l]
  BY Zenon DEF ShrinkStake, CustodyInv, CustodyTypeOK
<1> HIDE DEF l
<1>3. l.amount <= locks[id].amount + Free(l.owner)
  BY <1>1, SMTT(60) DEF CustodyInv, CustodyTypeOK, LockedWithinBalance, Free, ShrinkStake
<1>4. locked' = [locked EXCEPT ![l.owner] = @ - locks[id].amount + l.amount]
  <2> DEFINE o == locks[id].owner
             b == locks[id].amount
  <2>1. locked' = [locked EXCEPT ![o] = @ - (b - a)]
    BY Zenon DEF ShrinkStake, PositionUnlock
  <2>2. locked[o] - (b - a) = locked[o] - b + a
    BY <1>1, SMTT(60) DEF CustodyInv, CustodyTypeOK
  <2> HIDE DEF o, b
  <2>3. locked' = [locked EXCEPT ![o] = @ - b + a]
    BY <2>1, <2>2, Zenon
  <2> QED BY <1>1, <2>3, Zenon DEF o, b
<1>5. UNCHANGED <<totalStaked, totalClaimable, balance, claim, claimOpen, vaultTokens>>
  BY Zenon DEF ShrinkStake
<1> QED
  BY <1>1, <1>2, <1>3, <1>4, <1>5, ResizedLockInv, Zenon

\* Closing a lock and turning part of it into claims.
LEMMA ResolveStakeInv ==
  ASSUME CustodyInv, NEW id \in LockIds, NEW payout \in [Users -> Nat],
         ResolveStake(locks[id].owner, id, payout),
         claimOpen' \subseteq Users, claimOpen \subseteq claimOpen',
         \A b \in Users : payout[b] > 0 => b \in claimOpen'
  PROVE  CustodyInv'
<1> DEFINE o == locks[id].owner
           p == Sum(payout, Users)
<1>1. o \in Users /\ locks[id].amount \in Nat /\ locks[id] # NoLock /\ Live(id)
  BY Zenon DEF CustodyInv, CustodyTypeOK, ResolveStake, Live, StakeLock
<1>2. p \in Nat
  BY SumType, Zenon
<1>3. /\ p <= locks[id].amount /\ locks[id].amount <= locked[o]
      /\ locked' = [locked EXCEPT ![o] = @ - locks[id].amount]
      /\ balance' = [balance EXCEPT ![o] = @ - p]
      /\ locks' = [locks EXCEPT ![id] = NoLock]
  BY Zenon DEF ResolveStake, PositionResolve, PositionUnlock
<1> HIDE DEF p
<1>4. StakeFundsInv'
  BY <1>1, CustodyParts, ResolveFunds, Zenon
<1>5. LockedIsSumOfLocks'
  <2>1. \A other \in LockIds \ {id} : locks'[other] = locks[other]
    BY <1>3, Zenon DEF CustodyInv, CustodyTypeOK
  <2>2. ASSUME NEW q \in Users
        PROVE  locked'[q] = locked[q] - LockAmounts(q)[id] + LockAmounts(q)'[id]
    <3>1. LockAmounts(q)[id] = IF q = o THEN locks[id].amount ELSE 0
      BY <1>1, Zenon DEF LockAmounts, Live
    <3>2. LockAmounts(q)'[id] = 0
      BY <1>3, Zenon DEF LockAmounts, Live, CustodyInv, CustodyTypeOK
    <3> QED BY <1>1, <1>3, <3>1, <3>2, SMTT(60) DEF CustodyInv, CustodyTypeOK
  <2> QED BY <1>4, <2>1, <2>2, LockedSumStep, Zenon DEF CustodyInv, StakeFundsInv
<1>6. LockedWithinBalance'
  BY <1>1, <1>2, <1>3, SMTT(60) DEF CustodyInv, CustodyTypeOK, LockedWithinBalance
<1>7. LocksNonempty'
  BY <1>3, Zenon DEF CustodyInv, CustodyTypeOK, LocksNonempty, Live
<1> QED
  BY <1>4, <1>5, <1>6, <1>7, Zenon DEF CustodyInv, StakeFundsInv
-----------------------------------------------------------------------------
(* Each handler preserves the custody invariant.                           *)

\* Handlers that leave positions' locked amounts and the locks alone.
LEMMA LocksFrame ==
  LockedIsSumOfLocks /\ LocksNonempty /\ UNCHANGED <<locked, locks>> =>
    LockedIsSumOfLocks' /\ LocksNonempty'
BY Zenon DEF LockedIsSumOfLocks, LockAmounts, LocksNonempty, Live

\* A deposit credits one position, the total and the account alike.
LEMMA DepositStakeInv ==
  ASSUME CustodyInv, NEW o \in Users, NEW a \in Nat, DepositStake(o, a)
  PROVE  CustodyInv'
<1>1. StakeFundsInv'
  BY CustodyParts, FundingFunds, Zenon DEF DepositStake, StakeFundsInv, CustodyTypeOK
<1>2. LockedWithinBalance'
  BY SMTT(60) DEF CustodyInv, CustodyTypeOK, LockedWithinBalance, DepositStake
<1> QED
  BY <1>1, <1>2, LocksFrame, Zenon DEF CustodyInv, StakeFundsInv, DepositStake

\* A withdrawal takes free principal out of all three.
LEMMA WithdrawStakeInv ==
  ASSUME CustodyInv, NEW o \in Users, NEW a \in Nat, WithdrawStake(o, a)
  PROVE  CustodyInv'
<1>1. StakeFundsInv'
  BY CustodyParts, WithdrawFunds, Zenon
<1>2. LockedWithinBalance'
  BY SMTT(60) DEF CustodyInv, CustodyTypeOK, LockedWithinBalance, WithdrawStake, Free
<1> QED
  BY <1>1, <1>2, LocksFrame, Zenon DEF CustodyInv, StakeFundsInv, WithdrawStake

\* A claim empties one claim account, and the total with it.
LEMMA ClaimStakeInv ==
  ASSUME CustodyInv, NEW b \in Users, ClaimStake(b)
  PROVE  CustodyInv'
<1>1. StakeFundsInv'
  BY CustodyParts, ClaimFunds, Zenon
<1>2. LockedWithinBalance'
  BY Zenon DEF CustodyInv, LockedWithinBalance, ClaimStake
<1> QED
  BY <1>1, <1>2, LocksFrame, Zenon DEF CustodyInv, StakeFundsInv, ClaimStake

\* Donations, claim accounts and the token account leave the locks alone.
LEMMA AccountsOpenedInv ==
  ASSUME CustodyInv, StakeFundsInv', UNCHANGED <<balance, locked, locks>>
  PROVE  CustodyInv'
<1>1. LockedWithinBalance'
  BY Zenon DEF CustodyInv, LockedWithinBalance
<1> QED
  BY <1>1, LocksFrame, Zenon DEF CustodyInv, StakeFundsInv

\* An increase grows a lock and its position together.
LEMMA IncreaseStakeLockInv ==
  ASSUME CustodyInv, NEW c, NEW id \in LockIds, NEW a \in Nat, IncreaseStakeLock(c, id, a)
  PROVE  CustodyInv'
<1> DEFINE l == [locks[id] EXCEPT !.amount = @ + a]
           o == locks[id].owner
           b == locks[id].amount
<1>1. /\ Live(id) /\ o \in Users /\ b \in Nat
      /\ l \in StakeLock /\ l.owner = o /\ l.amount = b + a /\ l.amount > 0
  BY SMTT(60) DEF CustodyInv, CustodyTypeOK, IncreaseStakeLock, PositionLock, Live, StakeLock
<1>2. locks' = [locks EXCEPT ![id] = l]
  BY Zenon DEF IncreaseStakeLock
<1>3. locked' = [locked EXCEPT ![o] = @ + a] /\ Free(o) >= a
  BY Zenon DEF IncreaseStakeLock, PositionLock
<1>4. UNCHANGED <<totalStaked, totalClaimable, balance, claim, claimOpen, vaultTokens>>
  BY Zenon DEF IncreaseStakeLock
<1>5. locked[o] \in Nat /\ balance[o] \in Nat
  BY <1>1, Zenon DEF CustodyInv, CustodyTypeOK
<1> HIDE DEF l, o, b
<1>6. l.amount <= b + Free(l.owner)
  BY <1>1, <1>3, <1>5, SMTT(60) DEF Free
<1>7. locked' = [locked EXCEPT ![l.owner] = @ - b + l.amount]
  <2>1. locked[o] + a = locked[o] - b + (b + a)
    BY <1>1, <1>5, SMTT(60)
  <2> QED BY <1>1, <1>3, <2>1, Zenon
<1>8. locked' = [locked EXCEPT ![l.owner] = @ - locks[id].amount + l.amount]
      /\ l.owner = locks[id].owner /\ l.amount <= locks[id].amount + Free(l.owner)
  BY <1>1, <1>6, <1>7, Zenon DEF o, b
<1> QED
  BY <1>1, <1>2, <1>4, <1>8, ResizedLockInv, Zenon

\* Funding a lock is a deposit and a lock of the same amount in one instruction.
LEMMA ControllerFundLockInv ==
  ASSUME CustodyInv, NEW c, NEW o \in Users, NEW id \in LockIds, NEW a \in Nat,
         NEW m \in Nat, ControllerFundLock(c, o, id, a, m)
  PROVE  CustodyInv'
<1> DEFINE l == [owner |-> o, amount |-> a, maturesAt |-> m]
<1>0. l \in StakeLock /\ l # NoLock /\ l.owner = o /\ l.amount = a
  BY SMTT(60) DEF StakeLock
<1> HIDE DEF l
<1>1. /\ locks' = [locks EXCEPT ![id] = l]
      /\ locked' = [locked EXCEPT ![o] = @ + a]
      /\ balance' = [balance EXCEPT ![o] = @ + a]
      /\ totalStaked' = totalStaked + a /\ vaultTokens' = vaultTokens + a
      /\ UNCHANGED <<totalClaimable, claim, claimOpen>>
      /\ ~Live(id) /\ a > 0 /\ balance[o] >= locked[o]
  BY Zenon DEF ControllerFundLock, l
<1>4. StakeFundsInv'
  <2>1. locked' \in [Users -> Nat] /\ locks' \in [LockIds -> StakeLock \cup {NoLock}]
    BY <1>0, <1>1, SMTT(60) DEF CustodyInv, CustodyTypeOK
  <2> QED BY <1>1, <2>1, CustodyParts, FundingFunds, Zenon
<1>5. LockedIsSumOfLocks'
  <2>1. \A other \in LockIds \ {id} : locks'[other] = locks[other]
    BY <1>1, Zenon DEF CustodyInv, CustodyTypeOK
  <2>2. ASSUME NEW p \in Users
        PROVE  locked'[p] = locked[p] - LockAmounts(p)[id] + LockAmounts(p)'[id]
    <3>1. LockAmounts(p)[id] = 0
      BY <1>1, Zenon DEF LockAmounts, Live
    <3>2. LockAmounts(p)'[id] = IF p = o THEN a ELSE 0
      BY <1>0, <1>1, Zenon DEF LockAmounts, Live, CustodyInv, CustodyTypeOK
    <3> QED BY <1>1, <3>1, <3>2, SMTT(60) DEF CustodyInv, CustodyTypeOK
  <2> QED BY <1>4, <2>1, <2>2, LockedSumStep, Zenon DEF CustodyInv, StakeFundsInv
<1>6. LockedWithinBalance'
  BY <1>1, SMTT(60) DEF CustodyInv, CustodyTypeOK, LockedWithinBalance
<1>7. LocksNonempty'
  BY <1>0, <1>1, Zenon DEF CustodyInv, CustodyTypeOK, LocksNonempty, Live
<1> QED
  BY <1>4, <1>5, <1>6, <1>7, Zenon DEF CustodyInv, StakeFundsInv

\* Every step of the vault preserves the books.
LEMMA CustodyNextInv == StakeInv /\ [StakeNext]_stakeVars => CustodyInv'
<1> SUFFICES ASSUME StakeInv, [StakeNext]_stakeVars PROVE CustodyInv'
  OBVIOUS
<1>0. CustodyInv
  BY Zenon DEF StakeInv
<1>1. CASE UNCHANGED custodyVars
  BY <1>0, <1>1, CustodyStutter, Zenon
<1>2. ASSUME NEW o \in Users, NEW a \in Amounts, DepositStake(o, a) PROVE CustodyInv'
  BY <1>0, <1>2, DepositStakeInv, Zenon
<1>3. ASSUME NEW o \in Users, NEW a \in Amounts, WithdrawStake(o, a) PROVE CustodyInv'
  BY <1>0, <1>3, WithdrawStakeInv, Zenon
<1>4. ASSUME NEW b \in Users, InitializeClaimBalance(b) PROVE CustodyInv'
  BY <1>0, <1>4, CustodyParts, AccountsOpenedFunds, AccountsOpenedInv, Zenon
     DEF InitializeClaimBalance
<1>5. ASSUME NEW b \in Users, ClaimStake(b) PROVE CustodyInv'
  BY <1>0, <1>5, ClaimStakeInv, Zenon
<1>6. ASSUME NEW a \in Amounts, DonateStake(a) PROVE CustodyInv'
  BY <1>0, <1>6, CustodyParts, AccountsOpenedFunds, AccountsOpenedInv, Zenon DEF DonateStake
<1>7. CASE InitializeStakeTokenVault
  BY <1>0, <1>7, CustodyParts, AccountsOpenedFunds, AccountsOpenedInv, Zenon
     DEF InitializeStakeTokenVault
<1>8. ASSUME NEW c \in Signers, NEW o \in Users, NEW id \in LockIds, NEW a \in Amounts,
             NEW m \in Maturities, ControllerLockStake(c, o, id, a, m)
      PROVE  CustodyInv'
  BY <1>0, <1>8, LockStakeInv, Zenon DEF ControllerLockStake
<1>9. ASSUME NEW c \in Signers, NEW o \in Users, NEW id \in LockIds, NEW a \in Amounts,
             NEW m \in Maturities, ControllerFundLock(c, o, id, a, m)
      PROVE  CustodyInv'
  BY <1>0, <1>9, ControllerFundLockInv, Zenon
<1>10. ASSUME NEW c \in Signers, NEW id \in LockIds, NEW a \in Amounts,
              IncreaseStakeLock(c, id, a)
       PROVE  CustodyInv'
  BY <1>0, <1>10, IncreaseStakeLockInv, Zenon
<1>11. ASSUME NEW c \in Signers, NEW id \in LockIds, NEW a \in Amounts,
              NEW m \in Maturities, ResizeStakeLock(c, id, a, m)
       PROVE  CustodyInv'
  BY <1>0, <1>11, ShrinkStakeInv, Zenon DEF ResizeStakeLock
<1>12. ASSUME NEW c \in Signers, NEW id \in LockIds, ControllerUnlockStake(c, id)
       PROVE  CustodyInv'
  BY <1>0, <1>12, UnlockStakeInv, Zenon DEF ControllerUnlockStake
<1>13. ASSUME NEW c \in Signers, NEW id \in LockIds,
              NEW payout \in [Users -> Amounts \cup {0}], ResolveStakeLock(c, id, payout)
       PROVE  CustodyInv'
  <2>0. Amounts \cup {0} \subseteq Nat
    OBVIOUS
  <2>1. payout \in [Users -> Nat] /\ claimOpen \subseteq Users
    BY <1>0, <2>0, Zenon DEF CustodyInv, CustodyTypeOK
  <2>2. /\ ResolveStake(locks[id].owner, id, payout) /\ claimOpen' = claimOpen
        /\ \A b \in Users : payout[b] > 0 => b \in claimOpen
    BY <1>13, Zenon DEF ResolveStakeLock
  <2>3. claimOpen' \subseteq Users /\ claimOpen \subseteq claimOpen'
        /\ \A b \in Users : payout[b] > 0 => b \in claimOpen'
    BY <2>1, <2>2, Zenon
  <2> QED BY <1>0, <2>1, <2>2, <2>3, ResolveStakeInv, Zenon
<1>14. CASE \/ StakeTick \/ HandoverNext
            \/ \E o, t \in Users, granted \in BOOLEAN : SetTakerAuthorization(o, t, granted)
            \/ \E o, t \in Users : SelectStakeOwner(t, o)
            \/ \E t \in Users : ClearStakeOwner(t)
  BY <1>1, <1>14, Zenon DEF StakeTick, HandoverNext, ProposeStakeController,
     CancelStakeController, AcceptStakeController, SetTakerAuthorization,
     SelectStakeOwner, ClearStakeOwner
<1>15. CASE UNCHANGED stakeVars
  BY <1>1, <1>15, Zenon DEF stakeVars
<1>16. CASE OwnerNext
  BY <1>2, <1>3, <1>4, <1>5, <1>6, <1>7, <1>14, <1>16, Zenon DEF OwnerNext
<1>17. CASE ControllerNext
  BY <1>8, <1>9, <1>10, <1>11, <1>12, <1>13, <1>17, Zenon DEF ControllerNext
<1> QED
  BY <1>14, <1>15, <1>16, <1>17, Zenon DEF StakeNext

\* Every step of the vault preserves the funds, even over locks that do not add up.
LEMMA FundsNextInv == StakeFundsInv /\ [StakeNext]_stakeVars => StakeFundsInv'
<1> SUFFICES ASSUME StakeFundsInv, [StakeNext]_stakeVars PROVE StakeFundsInv'
  BY Zenon
<1>0. CustodyTypeOK /\ Amounts \cup {0} \subseteq Nat /\ Maturities \subseteq Nat
  BY SMTT(60) DEF StakeFundsInv
<1>1. ASSUME UNCHANGED custodyVars PROVE StakeFundsInv'
  BY <1>0, <1>1, LockingFunds, Zenon DEF custodyVars, CustodyTypeOK
<1>2. CASE OwnerNext
  <2>1. ASSUME NEW o \in Users, NEW a \in Amounts, DepositStake(o, a) \/ WithdrawStake(o, a)
        PROVE  StakeFundsInv'
    BY <1>0, <2>1, FundingFunds, WithdrawFunds, Zenon DEF DepositStake, CustodyTypeOK
  <2>2. ASSUME NEW b \in Users, ClaimStake(b) PROVE StakeFundsInv'
    BY <2>2, ClaimFunds, Zenon
  <2>3. ASSUME \/ \E a \in Amounts : DonateStake(a)
               \/ \E b \in Users : InitializeClaimBalance(b)
               \/ InitializeStakeTokenVault
        PROVE  StakeFundsInv'
    BY <1>0, <2>3, AccountsOpenedFunds, Zenon
  <2>4. ASSUME NEW o, NEW t, NEW granted,
               \/ SetTakerAuthorization(o, t, granted) \/ SelectStakeOwner(t, o)
               \/ ClearStakeOwner(t)
        PROVE  StakeFundsInv'
    BY <1>1, <2>4, Zenon DEF SetTakerAuthorization, SelectStakeOwner, ClearStakeOwner
  <2> QED BY <1>2, <2>1, <2>2, <2>3, <2>4, Zenon DEF OwnerNext
<1>3. \A id \in LockIds : Live(id) => locks[id] \in StakeLock /\ locks[id].owner \in Users
  BY <1>0, Zenon DEF CustodyTypeOK, Live, StakeLock
<1>4. CASE ControllerNext
  <2>1. ASSUME NEW c, NEW o \in Users, NEW id \in LockIds, NEW a \in Amounts, NEW m \in Maturities,
               ControllerLockStake(c, o, id, a, m)
        PROVE  StakeFundsInv'
    BY <1>0, <2>1, LockStepFunds, Zenon DEF ControllerLockStake
  <2>2. ASSUME NEW c, NEW o \in Users, NEW id \in LockIds, NEW a \in Amounts, NEW m \in Maturities,
               ControllerFundLock(c, o, id, a, m)
        PROVE  StakeFundsInv'
    <3> DEFINE l == [owner |-> o, amount |-> a, maturesAt |-> m]
    <3>1. a \in Nat /\ l \in StakeLock
      BY <1>0, Zenon DEF StakeLock
    <3>2. /\ locks' = [locks EXCEPT ![id] = l] /\ locked' = [locked EXCEPT ![o] = @ + a]
          /\ balance' = [balance EXCEPT ![o] = @ + a]
          /\ totalStaked' = totalStaked + a /\ vaultTokens' = vaultTokens + a
          /\ UNCHANGED <<totalClaimable, claim, claimOpen>>
      BY <2>2, Zenon DEF ControllerFundLock
    <3> HIDE DEF l
    <3>3. locked' \in [Users -> Nat] /\ locks' \in [LockIds -> StakeLock \cup {NoLock}]
      BY <1>0, <3>1, <3>2, SMTT(60) DEF CustodyTypeOK
    <3> QED BY <3>1, <3>2, <3>3, FundingFunds, Zenon
  <2>3. ASSUME NEW c, NEW id \in LockIds, NEW a \in Amounts, IncreaseStakeLock(c, id, a)
        PROVE  StakeFundsInv'
    <3> DEFINE o == locks[id].owner
               b == locks[id].amount + a
               l == [locks[id] EXCEPT !.amount = b]
    <3>1. /\ a \in Nat /\ o \in Users /\ locks[id] \in StakeLock
          /\ locks' = [locks EXCEPT ![id] = l]
          /\ locked' = [locked EXCEPT ![o] = @ + a]
          /\ UNCHANGED <<totalStaked, totalClaimable, balance, claim, claimOpen, vaultTokens>>
      BY <1>0, <1>3, <2>3, Zenon DEF IncreaseStakeLock, PositionLock
    <3>2. b \in Nat
      BY <3>1, SMTT(60) DEF StakeLock
    <3> HIDE DEF o, b
    <3>3. l \in StakeLock
      BY <3>1, <3>2, Zenon DEF StakeLock
    <3> HIDE DEF l
    <3>4. locked' \in [Users -> Nat] /\ locks' \in [LockIds -> StakeLock \cup {NoLock}]
      BY <1>0, <3>1, <3>3, SMTT(60) DEF CustodyTypeOK
    <3> QED BY <3>1, <3>4, LockingFunds, Zenon
  <2>4. ASSUME NEW c, NEW id \in LockIds, NEW a \in Amounts, NEW m \in Maturities,
               ResizeStakeLock(c, id, a, m)
        PROVE  StakeFundsInv'
    BY <1>0, <1>3, <2>4, LockStepFunds, Zenon DEF ResizeStakeLock
  <2>5. ASSUME NEW c, NEW id \in LockIds, ControllerUnlockStake(c, id) PROVE StakeFundsInv'
    <3>1. 0 \in Nat /\ locks[id].owner \in Users /\ UnlockStake(locks[id].owner, id)
      BY <1>0, <1>3, <2>5, Zenon DEF ControllerUnlockStake
    <3> QED BY <3>1, LockStepFunds, Zenon
  <2>6. ASSUME NEW c, NEW id \in LockIds, NEW payout \in [Users -> Amounts \cup {0}],
               ResolveStakeLock(c, id, payout)
        PROVE  StakeFundsInv'
    <3>1. payout \in [Users -> Nat] /\ claimOpen \subseteq Users
      BY <1>0, Zenon DEF CustodyTypeOK
    <3>2. /\ ResolveStake(locks[id].owner, id, payout) /\ locks[id].owner \in Users
          /\ claimOpen' = claimOpen /\ \A b \in Users : payout[b] > 0 => b \in claimOpen
      BY <1>3, <2>6, Zenon DEF ResolveStakeLock
    <3>3. claimOpen' \subseteq Users /\ claimOpen \subseteq claimOpen'
          /\ \A b \in Users : payout[b] > 0 => b \in claimOpen'
      BY <3>1, <3>2, Zenon
    <3> QED BY <3>1, <3>2, <3>3, ResolveFunds, Zenon
  <2> QED BY <1>4, <2>1, <2>2, <2>3, <2>4, <2>5, <2>6, Zenon DEF ControllerNext
<1>5. CASE StakeTick \/ HandoverNext \/ UNCHANGED stakeVars
  BY <1>1, <1>5, Zenon DEF StakeTick, HandoverNext, ProposeStakeController,
     CancelStakeController, AcceptStakeController, stakeVars
<1> QED
  BY <1>2, <1>4, <1>5, Zenon DEF StakeNext
-----------------------------------------------------------------------------
(* The inductive invariant and what it yields.                             *)

\* The initial books balance.
LEMMA StakeInitInv == StakeInit => StakeInv
<1> SUFFICES ASSUME StakeInit PROVE StakeInv
  OBVIOUS
<1>1. StakeTypeOK /\ CustodyTypeOK
  <2>1. custodyOpen \in BOOLEAN
    BY Zenon DEF StakeInit
  <2>2. CustodyTypeOK
    BY Zenon DEF StakeInit, CustodyTypeOK
  <2> QED BY <2>1, <2>2, SMTT(60) DEF StakeInit, StakeTypeOK
<1>2. LockedIsSumOfLocks
  <2> SUFFICES ASSUME NEW o \in Users PROVE locked[o] = Sum(LockAmounts(o), LockIds)
    BY Zenon DEF LockedIsSumOfLocks
  <2>1. LockAmounts(o) \in [LockIds -> Nat] /\ \A id \in LockIds : LockAmounts(o)[id] = 0
    BY Zenon DEF StakeInit, LockAmounts, Live
  <2>2. Sum(LockAmounts(o), LockIds) = 0
    BY <2>1, SumZero, Zenon
  <2> QED BY <2>2, Zenon DEF StakeInit
<1>3. TotalsMatchAccounts
  <2>1. Sum(balance, Users) = 0 /\ Sum(claim, Users) = 0
    BY <1>1, SumZero, Zenon DEF StakeInit, CustodyTypeOK
  <2> QED BY <2>1, Zenon DEF StakeInit, TotalsMatchAccounts
<1>4. LockedWithinBalance /\ StakeSolvent /\ SelectionAuthorized
  BY SMTT(60) DEF StakeInit, LockedWithinBalance, StakeSolvent, SelectionAuthorized
<1>5. LocksNonempty /\ ClaimsHaveAccounts
  BY SMTT(60) DEF StakeInit, LocksNonempty, ClaimsHaveAccounts, Live
<1> QED
  BY <1>1, <1>2, <1>3, <1>4, <1>5, Zenon DEF StakeInv, CustodyInv

\* Types and delegation are preserved alongside the books.
LEMMA StakeNextInv == StakeInv /\ [StakeNext]_stakeVars => StakeInv'
<1> SUFFICES ASSUME StakeInv, [StakeNext]_stakeVars PROVE StakeInv'
  OBVIOUS
<1>1. CustodyInv' /\ CustodyTypeOK'
  BY CustodyNextInv, Zenon DEF CustodyInv
<1>2. custodyOpen' \in BOOLEAN
  <2>1. custodyOpen \in BOOLEAN
    BY Zenon DEF StakeInv, StakeTypeOK
  <2>2. InitializeStakeTokenVault \/ UNCHANGED custodyOpen
    <3>1. CASE StakeTick \/ HandoverNext \/ UNCHANGED stakeVars
      BY <3>1, Zenon DEF StakeTick, HandoverNext, stakeVars, custodyVars,
         ProposeStakeController, CancelStakeController, AcceptStakeController
    <3>2. CASE OwnerNext
      BY <3>2, Zenon DEF OwnerNext, DepositStake, WithdrawStake, InitializeClaimBalance,
         ClaimStake, DonateStake, SetTakerAuthorization, SelectStakeOwner,
         ClearStakeOwner, custodyVars
    <3>3. CASE ControllerNext
      <4>1. ASSUME NEW c, NEW o, NEW id, NEW a, NEW m,
                   ControllerLockStake(c, o, id, a, m) \/ ControllerFundLock(c, o, id, a, m)
            PROVE  UNCHANGED custodyOpen
        BY <4>1, Zenon DEF ControllerLockStake, LockStake, ControllerFundLock
      <4>2. ASSUME NEW c, NEW id, NEW a, IncreaseStakeLock(c, id, a)
            PROVE  UNCHANGED custodyOpen
        BY <4>2, Zenon DEF IncreaseStakeLock
      <4>3. ASSUME NEW c, NEW id, NEW a, NEW m, ResizeStakeLock(c, id, a, m)
            PROVE  UNCHANGED custodyOpen
        BY <4>3, Zenon DEF ResizeStakeLock, ShrinkStake
      <4>4. ASSUME NEW c, NEW id, ControllerUnlockStake(c, id)
            PROVE  UNCHANGED custodyOpen
        BY <4>4, Zenon DEF ControllerUnlockStake, UnlockStake
      <4>5. ASSUME NEW c, NEW id, NEW payout, ResolveStakeLock(c, id, payout)
            PROVE  UNCHANGED custodyOpen
        BY <4>5, Zenon DEF ResolveStakeLock, ResolveStake
      <4> QED BY <3>3, <4>1, <4>2, <4>3, <4>4, <4>5, Zenon DEF ControllerNext
    <3> QED BY <3>1, <3>2, <3>3, Zenon DEF StakeNext
  <2> QED BY <2>1, <2>2, Zenon DEF InitializeStakeTokenVault
<1>3. CASE StakeTick
  BY <1>1, <1>2, <1>3, SMTT(60) DEF StakeInv, StakeTypeOK, SelectionAuthorized, StakeTick, Tick,
     delegationVars, handoverVars
<1>4. CASE HandoverNext
  BY <1>1, <1>2, <1>4, SMTT(60) DEF StakeInv, StakeTypeOK, SelectionAuthorized, HandoverNext,
     ProposeStakeController, CancelStakeController, AcceptStakeController, delegationVars
<1>5. CASE UNCHANGED <<now, delegationVars, handoverVars>>
  BY <1>1, <1>2, <1>5, Zenon DEF StakeInv, StakeTypeOK, SelectionAuthorized, delegationVars,
     handoverVars
<1>6. ASSUME NEW o \in Users, NEW t \in Users, NEW granted \in BOOLEAN,
             SetTakerAuthorization(o, t, granted)
      PROVE  StakeInv'
  <2>1. /\ authorized \subseteq Users \X Users /\ selected \in [Users -> Users \cup {NoOne}]
        /\ SelectionAuthorized
    BY Zenon DEF StakeInv, StakeTypeOK
  <2>2. CASE granted
    <3>1. authorized' = authorized \cup {<<o, t>>} /\ selected' = selected
      BY <1>6, <2>2, Zenon DEF SetTakerAuthorization
    <3> QED BY <1>1, <1>2, <1>6, <3>1, SMTT(60) DEF StakeInv, StakeTypeOK, SelectionAuthorized,
               SetTakerAuthorization, handoverVars
  <2>3. CASE ~granted
    <3>1. authorized' = authorized \ {<<o, t>>}
          /\ selected' = IF selected[t] = o THEN [selected EXCEPT ![t] = NoOne] ELSE selected
      BY <1>6, <2>3, Zenon DEF SetTakerAuthorization
    <3>2. SelectionAuthorized'
      BY <2>1, <3>1, Zenon DEF SelectionAuthorized
    <3> QED BY <1>1, <1>2, <1>6, <3>1, <3>2, Zenon DEF StakeInv, StakeTypeOK,
               SetTakerAuthorization, handoverVars
  <2> QED BY <2>2, <2>3, Zenon
<1>7. ASSUME NEW o \in Users, NEW t \in Users, SelectStakeOwner(t, o) PROVE StakeInv'
  BY <1>1, <1>2, <1>7, Zenon DEF StakeInv, StakeTypeOK, SelectionAuthorized, SelectStakeOwner,
     handoverVars
<1>8. ASSUME NEW t \in Users, ClearStakeOwner(t) PROVE StakeInv'
  BY <1>1, <1>2, <1>8, Zenon DEF StakeInv, StakeTypeOK, SelectionAuthorized, ClearStakeOwner,
     handoverVars
<1>9. CASE OwnerNext
  BY <1>5, <1>6, <1>7, <1>8, <1>9, ZenonT(60) DEF OwnerNext, InitializeStakeTokenVault, DepositStake,
     WithdrawStake, InitializeClaimBalance, ClaimStake, DonateStake
<1>10. CASE ControllerNext
  BY <1>5, <1>10, SMTT(60) DEF ControllerNext, ControllerLockStake, ControllerFundLock,
     IncreaseStakeLock, ResizeStakeLock, ControllerUnlockStake, ResolveStakeLock
<1>11. CASE UNCHANGED stakeVars
  BY <1>5, <1>11, Zenon DEF stakeVars
<1> QED
  BY <1>3, <1>4, <1>9, <1>10, <1>11, Zenon DEF StakeNext

\* The stake vault's books are right in every reachable state: types, locked is
\* the sum of the locks and within the principal, the totals match, custody
\* covers them, and selections are authorized.
THEOREM StakeInvariant == StakeSpec => []StakeInv
BY StakeInitInv, StakeNextInv, PTL DEF StakeSpec

\* No checked subtraction or payout of the vault can fail for lack of funds.
THEOREM StakeRedeemable == StakeSpec => []Redeemable
<1>1. StakeInv => Redeemable
  <2> SUFFICES ASSUME StakeInv PROVE Redeemable
    OBVIOUS
  <2>0. CustodyInv /\ CustodyTypeOK
    BY Zenon DEF StakeInv, CustodyInv
  <2>1. \A o \in Users : balance[o] <= totalStaked
    BY <2>0, SumBound, Zenon DEF CustodyInv, CustodyTypeOK, TotalsMatchAccounts
  <2>2. \A b \in Users : claim[b] <= totalClaimable
    BY <2>0, SumBound, Zenon DEF CustodyInv, CustodyTypeOK, TotalsMatchAccounts
  <2>3. \A id \in LockIds : Live(id) =>
          locks[id].owner \in Users /\ locks[id].amount \in Nat
    BY <2>0, Zenon DEF CustodyTypeOK, Live, StakeLock
  <2>4. \A id \in LockIds : Live(id) => locks[id].amount <= locked[locks[id].owner]
    BY <2>0, LockWithinLocked, Zenon DEF CustodyInv
  <2>5. \A o \in Users : Free(o) \in 0..totalStaked /\ Free(o) <= vaultTokens
    BY <2>0, <2>1, SMTT(60) DEF CustodyInv, CustodyTypeOK, LockedWithinBalance, StakeSolvent, Free
  <2>6. \A b \in Users : claim[b] <= vaultTokens
    BY <2>0, <2>2, SMTT(60) DEF CustodyInv, CustodyTypeOK, StakeSolvent
  <2>7. \A id \in LockIds : Live(id) => locks[id].amount <= totalStaked
    BY <2>0, <2>1, <2>3, <2>4, SMTT(60) DEF CustodyInv, CustodyTypeOK, LockedWithinBalance
  <2> QED
    BY <2>0, <2>2, <2>4, <2>5, <2>6, <2>7, ZenonT(60)
       DEF Redeemable, CustodyInv, LocksNonempty, ClaimsHaveAccounts
<1> QED
  BY <1>1, StakeInvariant, PTL
\* Every variable of the stake vault keeps its type.
THEOREM StakeTypes == StakeSpec => []StakeTypeOK
<1>1. StakeInv => StakeTypeOK
  BY Zenon DEF StakeInv
<1> QED
  BY <1>1, StakeInvariant, PTL

\* position.locked is the sum of the owner's live locks.
THEOREM StakeLocks == StakeSpec => []LockedIsSumOfLocks
<1>1. StakeInv => LockedIsSumOfLocks
  BY Zenon DEF StakeInv, CustodyInv
<1> QED
  BY <1>1, StakeInvariant, PTL

\* No position is locked beyond its principal.
THEOREM StakeFree == StakeSpec => []LockedWithinBalance
<1>1. StakeInv => LockedWithinBalance
  BY Zenon DEF StakeInv, CustodyInv
<1> QED
  BY <1>1, StakeInvariant, PTL

\* The vault's totals are those of the positions and the claims.
THEOREM StakeTotals == StakeSpec => []TotalsMatchAccounts
<1>1. StakeInv => TotalsMatchAccounts
  BY Zenon DEF StakeInv, CustodyInv
<1> QED
  BY <1>1, StakeInvariant, PTL

\* The custody account covers what the vault records.
THEOREM StakeCovered == StakeSpec => []StakeSolvent
<1>1. StakeInv => StakeSolvent
  BY Zenon DEF StakeInv, CustodyInv
<1> QED
  BY <1>1, StakeInvariant, PTL

\* A selected owner authorizes the taker that selected it.
THEOREM StakeSelections == StakeSpec => []SelectionAuthorized
<1>1. StakeInv => SelectionAuthorized
  BY Zenon DEF StakeInv
<1> QED
  BY <1>1, StakeInvariant, PTL
-----------------------------------------------------------------------------
(* The stake vault implements the abstract custody account: a party is     *)
(* owed its principal and its claims, and every handler receives tokens    *)
(* for one party, pays one party, accepts a gift, passes claims on, or     *)
(* changes nothing that Custody can see.                                   *)

\* What Custody sees of the vault: principal and claims together.
Owed == [u \in Users |-> balance[u] + claim[u]]

\* The total of the mapped ledger is what the vault records as staked and
\* claimable.
LEMMA OwedTotal == StakeFundsInv => Sum(Owed, Users) = totalStaked + totalClaimable
<1> SUFFICES ASSUME StakeFundsInv PROVE Sum(Owed, Users) = totalStaked + totalClaimable
  OBVIOUS
<1>1. balance \in [Users -> Nat] /\ claim \in [Users -> Nat]
  BY Zenon DEF StakeFundsInv, CustodyTypeOK
<1>2. Sum(Owed, Users) = Sum(balance, Users) + Sum(claim, Users)
  BY <1>1, SumPlus, Zenon DEF Owed
<1> QED
  BY <1>2, Zenon DEF StakeFundsInv, TotalsMatchAccounts

\* Custody counts as the vault does.
LEMMA SameSum ==
  ASSUME NEW f, NEW S
  PROVE  Abstract!Sum(f, S) = Sum(f, S)
BY Zenon DEF Abstract!Sum, Abstract!Units, Abstract!Cardinality, Sum, Units, Cardinality

\* Stake that arrives with its tokens (a deposit, a lock funded by the
\* controller) is a receipt.
LEMMA FundingReceives ==
  ASSUME StakeFundsInv, NEW o \in Users, NEW a \in Nat, a > 0,
         vaultTokens' = vaultTokens + a, balance' = [balance EXCEPT ![o] = @ + a],
         claim' = claim
  PROVE  Abstract!Next
<1>1. /\ balance \in [Users -> Nat] /\ claim \in [Users -> Nat] /\ vaultTokens \in Nat
  BY Zenon DEF StakeFundsInv, CustodyTypeOK
<1>2. Abstract!Receive(o)
  BY <1>1, SMTT(60) DEF Abstract!Receive, Abstract!OthersUnchanged
<1> QED
  BY <1>2, Zenon DEF Abstract!Next

\* Withdrawals and claims pay exactly what the party gives up.
LEMMA PayoutPays ==
  ASSUME StakeFundsInv, NEW o \in Users,
         \/ \E a \in Nat : WithdrawStake(o, a)
         \/ ClaimStake(o)
  PROVE  Abstract!Next
<1>1. /\ balance \in [Users -> Nat] /\ claim \in [Users -> Nat] /\ vaultTokens \in Nat
  BY Zenon DEF StakeFundsInv, CustodyTypeOK
<1>2. CASE \E a \in Nat : WithdrawStake(o, a)
  <2>1. PICK a \in Nat : WithdrawStake(o, a)
    BY <1>2, Zenon
  <2>2. /\ a > 0 /\ vaultTokens' = vaultTokens - a /\ claim' = claim
        /\ balance' = [balance EXCEPT ![o] = @ - a]
    BY <2>1, Zenon DEF WithdrawStake
  <2>3. Abstract!Pay(o)
    BY <1>1, <2>2, SMTT(60) DEF Abstract!Pay, Abstract!OthersUnchanged
  <2> QED BY <2>3, Zenon DEF Abstract!Next
<1>3. CASE ClaimStake(o)
  <2>1. /\ claim[o] > 0 /\ vaultTokens' = vaultTokens - claim[o] /\ balance' = balance
        /\ claim' = [claim EXCEPT ![o] = 0]
    BY <1>3, Zenon DEF ClaimStake
  <2>2. Abstract!Pay(o)
    BY <1>1, <2>1, SMTT(60) DEF Abstract!Pay, Abstract!OthersUnchanged
  <2> QED BY <2>2, Zenon DEF Abstract!Next
<1> QED
  BY <1>2, <1>3, Zenon

\* Resolving a lock passes the owner's principal on as claims, in full.
LEMMA ResolutionCedes ==
  ASSUME StakeFundsInv, StakeFundsInv', NEW o \in Users, NEW id \in LockIds,
         NEW payout \in [Users -> Nat],
         ResolveStake(o, id, payout)
  PROVE  Abstract!Next
<1> DEFINE p == Sum(payout, Users)
<1>1. /\ p \in Nat
      /\ balance \in [Users -> Nat] /\ claim \in [Users -> Nat]
      /\ totalStaked \in Nat /\ totalClaimable \in Nat
  BY SumType, Zenon DEF StakeFundsInv, CustodyTypeOK
<1>2. /\ balance' = [balance EXCEPT ![o] = @ - p]
      /\ claim' = [b \in Users |-> claim[b] + payout[b]]
      /\ totalStaked' = totalStaked - p
      /\ totalClaimable' = totalClaimable + p
      /\ vaultTokens' = vaultTokens
  BY Zenon DEF ResolveStake, PositionResolve
<1>3. Sum(Owed', Users) = Sum(Owed, Users)
  <2>1. Sum(Owed, Users) = totalStaked + totalClaimable
    BY OwedTotal, Zenon
  <2>2. (Sum(Owed, Users) = totalStaked + totalClaimable)'
    BY OwedTotal, PTL
  <2> HIDE DEF p
  <2> QED BY <1>1, <1>2, <2>1, <2>2, SMTT(60)
<1> HIDE DEF p
<1>4. \A q \in Users \ {o} : Owed'[q] >= Owed[q]
  BY <1>1, <1>2, SMTT(60) DEF Owed
<1>5. Abstract!Sum(Owed', Users) = Abstract!Sum(Owed, Users)
  BY <1>3, SameSum, Zenon
<1>6. Abstract!Cede(o)
  BY <1>2, <1>4, <1>5, Zenon DEF Abstract!Cede, Owed
<1> QED
  BY <1>6, Zenon DEF Abstract!Next

\* Every step of the vault is a step of the custody account or changes nothing
\* it shows.
LEMMA CustodyStep ==
  ASSUME StakeFundsInv, StakeFundsInv', [StakeNext]_stakeVars
  PROVE  [Abstract!Next]_(Abstract!CustodyState)
<1> DEFINE Goal == [Abstract!Next]_(Abstract!CustodyState)
<1>0. vaultTokens \in Nat
  BY Zenon DEF StakeFundsInv, CustodyTypeOK
<1>1. CASE UNCHANGED <<balance, claim, vaultTokens>>
  BY <1>1, Zenon DEF Abstract!CustodyState
<1>2. ASSUME NEW o \in Users, NEW a \in Amounts, DepositStake(o, a) PROVE Goal
  BY <1>2, FundingReceives, Zenon DEF DepositStake
<1>3. ASSUME NEW o \in Users, NEW a \in Amounts, WithdrawStake(o, a) PROVE Goal
  BY <1>3, PayoutPays, Zenon
<1>4. ASSUME NEW b \in Users, ClaimStake(b) PROVE Goal
  BY <1>4, PayoutPays, Zenon
<1>5. ASSUME NEW a \in Amounts, DonateStake(a) PROVE Goal
  <2>1. Abstract!Gift
    BY <1>0, <1>5, SMTT(60) DEF DonateStake, Abstract!Gift
  <2> QED BY <2>1, Zenon DEF Abstract!Next
<1>6. ASSUME NEW c \in Signers, NEW o \in Users, NEW id \in LockIds, NEW a \in Amounts,
             NEW m \in Maturities, ControllerFundLock(c, o, id, a, m)
      PROVE  Goal
  BY <1>6, FundingReceives, Zenon DEF ControllerFundLock
<1>7. ASSUME NEW c \in Signers, NEW id \in LockIds,
             NEW payout \in [Users -> Amounts \cup {0}], ResolveStakeLock(c, id, payout)
      PROVE  Goal
  <2>1. Amounts \cup {0} \subseteq Nat
    OBVIOUS
  <2>2. payout \in [Users -> Nat]
    BY <2>1, Zenon
  <2>3. ResolveStake(locks[id].owner, id, payout) /\ locks[id].owner \in Users
    BY <1>7, Zenon DEF ResolveStakeLock, StakeFundsInv, CustodyTypeOK, Live, StakeLock
  <2> QED BY <2>2, <2>3, ResolutionCedes, Zenon
<1>8. CASE StakeTick \/ HandoverNext \/ UNCHANGED stakeVars
  BY <1>1, <1>8, Zenon DEF StakeTick, HandoverNext, ProposeStakeController,
     CancelStakeController, AcceptStakeController, stakeVars, custodyVars
<1>9. CASE OwnerNext
  <2>1. ASSUME NEW o, NEW t, NEW granted,
               \/ SetTakerAuthorization(o, t, granted) \/ SelectStakeOwner(t, o)
               \/ ClearStakeOwner(t) \/ InitializeClaimBalance(o)
               \/ InitializeStakeTokenVault
        PROVE  UNCHANGED <<balance, claim, vaultTokens>>
    BY <2>1, Zenon DEF SetTakerAuthorization, SelectStakeOwner, ClearStakeOwner,
       InitializeClaimBalance, InitializeStakeTokenVault, custodyVars
  <2>2. UNCHANGED <<balance, claim, vaultTokens>> => Goal
    BY <1>1, Zenon
  <2> QED BY <1>2, <1>3, <1>4, <1>5, <1>9, <2>1, <2>2, Zenon DEF OwnerNext
<1>10. CASE ControllerNext
  <2>1. ASSUME NEW c, NEW o, NEW id, NEW a, NEW m,
               \/ ControllerLockStake(c, o, id, a, m) \/ IncreaseStakeLock(c, id, a)
               \/ ResizeStakeLock(c, id, a, m) \/ ControllerUnlockStake(c, id)
        PROVE  UNCHANGED <<balance, claim, vaultTokens>>
    BY <2>1, Zenon DEF ControllerLockStake, LockStake, IncreaseStakeLock, ResizeStakeLock,
       ShrinkStake, ControllerUnlockStake, UnlockStake
  <2>2. UNCHANGED <<balance, claim, vaultTokens>> => Goal
    BY <1>1, Zenon
  <2> QED BY <1>6, <1>7, <1>10, <2>1, <2>2, Zenon DEF ControllerNext
<1> QED
  BY <1>8, <1>9, <1>10, Zenon DEF StakeNext

\* Seen from its token account and from what each user owns, the stake vault is
\* a custody account: nothing leaves it except against an equal claim.
THEOREM StakeImplementsCustody == StakeSpec => ImplementsCustody
<1>1. StakeInit => Abstract!Init
  BY SMTT(60) DEF StakeInit, Abstract!Init
<1>2. StakeInv /\ StakeInv' /\ [StakeNext]_stakeVars => [Abstract!Next]_(Abstract!CustodyState)
  BY CustodyStep, Zenon DEF StakeInv, CustodyInv, StakeFundsInv
<1> QED
  BY <1>1, <1>2, StakeInvariant, PTL DEF StakeSpec, ImplementsCustody, Abstract!Spec
-----------------------------------------------------------------------------
(* How the controller changes, and how principal leaves.                   *)

\* Only the handover handlers touch the controller, and only time the clock.
LEMMA HandoverFrame ==
  ASSUME [StakeNext]_stakeVars, ~HandoverNext
  PROVE  UNCHANGED handoverVars /\ (StakeTick \/ now' = now)
<1> DEFINE Goal == UNCHANGED handoverVars /\ (StakeTick \/ now' = now)
<1>1. CASE StakeTick
  BY <1>1, Zenon DEF StakeTick
<1>2. CASE OwnerNext
  BY <1>2, Zenon DEF OwnerNext, InitializeStakeTokenVault, DepositStake, WithdrawStake,
     InitializeClaimBalance, ClaimStake, DonateStake, SetTakerAuthorization, SelectStakeOwner,
     ClearStakeOwner
<1>3. CASE ControllerNext
  <2>1. ASSUME NEW c, NEW id, NEW o, NEW a, NEW m, NEW payout,
               \/ ControllerLockStake(c, o, id, a, m) \/ ControllerFundLock(c, o, id, a, m)
               \/ IncreaseStakeLock(c, id, a) \/ ResizeStakeLock(c, id, a, m)
               \/ ControllerUnlockStake(c, id) \/ ResolveStakeLock(c, id, payout)
        PROVE  Goal
    BY <2>1, Zenon DEF ControllerLockStake, ControllerFundLock, IncreaseStakeLock,
       ResizeStakeLock, ControllerUnlockStake, ResolveStakeLock
  <2> QED BY <1>3, <2>1, Zenon DEF ControllerNext
<1>4. CASE UNCHANGED stakeVars
  BY <1>4, Zenon DEF stakeVars
<1> QED
  BY <1>1, <1>2, <1>3, <1>4, Zenon DEF StakeNext

\* A recorded boundary is never more than the delay ahead.
BoundaryWithinDelay == validAt <= now + Delay

\* Every step keeps the handover boundary within the delay from now.
LEMMA BoundaryStep ==
  ASSUME now \in Nat, validAt \in Nat, BoundaryWithinDelay, [StakeNext]_stakeVars
  PROVE  validAt' \in Nat /\ BoundaryWithinDelay'
<1>1. CASE UNCHANGED handoverVars /\ now' >= now /\ now' \in Nat
  <2>1. validAt' = validAt
    BY <1>1, Zenon DEF handoverVars
  <2>2. \A b, t, u \in Nat : b <= t + Delay /\ u >= t => b <= u + Delay
    BY SMT
  <2> QED BY <1>1, <2>1, <2>2, Zenon DEF BoundaryWithinDelay
<1>2. CASE HandoverNext
  <2>1. now' = now /\ validAt' \in {now + Delay, 0}
    BY <1>2, Zenon DEF HandoverNext, ProposeStakeController, CancelStakeController,
       AcceptStakeController
  <2> QED BY <2>1, SMTT(60) DEF BoundaryWithinDelay
<1>3. CASE ~HandoverNext
  <2>1. UNCHANGED handoverVars /\ (StakeTick \/ now' = now)
    BY <1>3, HandoverFrame, Zenon
  <2>2. StakeTick => now' = now + 1
    BY Zenon DEF StakeTick, Tick
  <2>3. now' >= now /\ now' \in Nat
    BY <2>1, <2>2, SMTT(60)
  <2> QED BY <1>1, <2>1, <2>3, Zenon
<1> QED
  BY <1>2, <1>3, Zenon

\* What HandoverIsDelayed says of one step.
DelayedStep ==
  /\ controller' # controller => controller' = pending /\ now >= validAt
  /\ (pending' # NoOne /\ pending' # pending) => validAt' >= now + Delay
  /\ (pending' # NoOne /\ pending' = pending) => validAt' >= validAt

\* A step that changes the controller waits out the delay announced for it.
LEMMA DelayedOfStep ==
  ASSUME now \in Nat, validAt \in Nat, BoundaryWithinDelay, [StakeNext]_stakeVars
  PROVE  DelayedStep
<1>1. CASE UNCHANGED handoverVars
  BY <1>1, SMTT(60) DEF handoverVars, DelayedStep
<1>2. ASSUME NEW c, ProposeStakeController(c) PROVE DelayedStep
  BY <1>2, SMTT(60) DEF ProposeStakeController, DelayedStep, BoundaryWithinDelay
<1>3. ASSUME CancelStakeController PROVE DelayedStep
  BY <1>3, Zenon DEF CancelStakeController, DelayedStep
<1>4. ASSUME NEW c, AcceptStakeController(c) PROVE DelayedStep
  BY <1>4, Zenon DEF AcceptStakeController, DelayedStep
<1>5. CASE HandoverNext
  BY <1>2, <1>3, <1>4, <1>5, Zenon DEF HandoverNext
<1> QED
  BY <1>1, <1>5, HandoverFrame, Zenon

\* The controller of the vault changes only to a candidate that stood for the
\* full delay (handle_propose_stake_controller, handle_accept_stake_controller).
THEOREM StakeHandover == StakeSpec => HandoverIsDelayed
<1>1. StakeInit => BoundaryWithinDelay
  BY SMTT(60) DEF StakeInit, BoundaryWithinDelay
<1>0. StakeInv => now \in Nat /\ validAt \in Nat
  BY SMTT(60) DEF StakeInv, StakeTypeOK
<1>2. StakeInv /\ BoundaryWithinDelay /\ [StakeNext]_stakeVars => BoundaryWithinDelay'
  BY <1>0, BoundaryStep, Zenon
<1>3. StakeInv /\ BoundaryWithinDelay /\ [StakeNext]_stakeVars => [DelayedStep]_stakeVars
  BY <1>0, DelayedOfStep, Zenon
<1>4. HandoverIsDelayed <=> [][DelayedStep]_stakeVars
  BY PTL DEF HandoverIsDelayed, DelayedStep
<1> QED
  BY <1>1, <1>2, <1>3, <1>4, StakeInvariant, PTL DEF StakeSpec

\* What PrincipalLeavesThroughLocksOnly says of one position in one step.
LeavesProperly(o) ==
  LET drop == balance[o] - balance'[o] IN
    \/ drop <= Free(o) /\ locks' = locks /\ vaultTokens' = vaultTokens - drop
    \/ \E id \in LockIds :
         /\ Live(id) /\ locks[id].owner = o /\ locks'[id] = NoLock
         /\ drop <= locks[id].amount
         /\ totalClaimable' = totalClaimable + drop

\* Position o loses a when only its balance changes, by a.
LEMMA PositionDrop ==
  ASSUME CustodyTypeOK, NEW q \in Users, NEW a \in Nat,
         balance' = [balance EXCEPT ![q] = @ - a], NEW o \in Users, balance'[o] < balance[o]
  PROVE  o = q /\ balance[o] - balance'[o] = a
<1>1. balance \in [Users -> Nat]
  BY Zenon DEF CustodyTypeOK
<1>2. balance'[q] = balance[q] - a /\ (o # q => balance'[o] = balance[o])
  BY <1>1, Zenon
<1>3. balance[o] \in Nat /\ balance[q] \in Nat
  BY <1>1, Zenon
<1> QED
  BY <1>2, <1>3, SMT

\* The resolution of a lock lowers its owner's balance, within the lock and into claims.
LEMMA ResolutionDrops ==
  ASSUME CustodyTypeOK, NEW id \in LockIds, NEW payout \in [Users -> Nat],
         ResolveStake(locks[id].owner, id, payout), NEW o \in Users, balance'[o] < balance[o]
  PROVE  LeavesProperly(o)
<1> DEFINE p == Sum(payout, Users)
           q == locks[id].owner
<1>1. p \in Nat
  BY SumType, Zenon
<1>2. /\ Live(id) /\ p <= locks[id].amount /\ balance' = [balance EXCEPT ![q] = @ - p]
      /\ totalClaimable' = totalClaimable + p /\ locks' = [locks EXCEPT ![id] = NoLock]
  BY Zenon DEF ResolveStake, PositionResolve
<1>3. q \in Users
  BY <1>2, Zenon DEF CustodyTypeOK, Live, StakeLock
<1>4. locks'[id] = NoLock
  BY <1>2, Zenon DEF CustodyTypeOK
<1> HIDE DEF p, q
<1>5. o = q /\ balance[o] - balance'[o] = p
  BY <1>1, <1>2, <1>3, PositionDrop, Zenon
<1> QED
  BY <1>2, <1>4, <1>5, Zenon DEF LeavesProperly, q

\* A step that lowers a staker's balance is a withdrawal of free stake or ends one of its locks.
LEMMA PrincipalOfStep ==
  ASSUME CustodyTypeOK, [StakeNext]_stakeVars, NEW o \in Users, balance'[o] < balance[o]
  PROVE  LeavesProperly(o)
<1>0. CustodyTypeOK /\ balance \in [Users -> Nat] /\ balance[o] \in Nat
  BY Zenon DEF CustodyTypeOK
<1>1. ASSUME UNCHANGED balance PROVE FALSE
  BY <1>0, <1>1, SMT
<1>2. ASSUME NEW q \in Users, NEW a \in Amounts, balance' = [balance EXCEPT ![q] = @ + a]
      PROVE  FALSE
  <2>1. balance'[o] = balance[o] + a \/ balance'[o] = balance[o]
    BY <1>0, <1>2, Zenon
  <2>2. a \in Nat
    BY Zenon
  <2> QED BY <1>0, <2>1, <2>2, SMTT(60)
<1>3. ASSUME NEW q \in Users, NEW a \in Amounts, WithdrawStake(q, a) PROVE LeavesProperly(o)
  <2>1. /\ balance' = [balance EXCEPT ![q] = @ - a] /\ locks' = locks
        /\ vaultTokens' = vaultTokens - a /\ Free(q) >= a
    BY <1>3, Zenon DEF WithdrawStake
  <2>2. a \in Nat
    BY Zenon
  <2>3. o = q /\ balance[o] - balance'[o] = a
    BY <1>0, <2>1, <2>2, PositionDrop, Zenon
  <2>4. locked[o] \in Nat
    BY <1>0, Zenon DEF CustodyTypeOK
  <2>5. a <= Free(o)
    BY <1>0, <2>1, <2>2, <2>3, <2>4, SMTT(60) DEF Free
  <2> QED BY <2>1, <2>3, <2>5, Zenon DEF LeavesProperly
<1>4. ASSUME NEW c, NEW id \in LockIds, NEW payout \in [Users -> Amounts \cup {0}],
             ResolveStakeLock(c, id, payout)
      PROVE  LeavesProperly(o)
  <2>1. payout \in [Users -> Nat]
    <3>1. Amounts \cup {0} \subseteq Nat
      OBVIOUS
    <3> QED BY <3>1, Zenon
  <2>2. ResolveStake(locks[id].owner, id, payout)
    BY <1>4, Zenon DEF ResolveStakeLock
  <2> QED BY <2>1, <2>2, ResolutionDrops, Zenon
<1>5. CASE StakeTick \/ HandoverNext \/ UNCHANGED stakeVars
  <2>1. UNCHANGED balance
    BY <1>5, Zenon DEF StakeTick, HandoverNext, ProposeStakeController,
       CancelStakeController, AcceptStakeController, stakeVars, custodyVars
  <2> QED BY <1>1, <2>1, Zenon
<1>6. CASE OwnerNext
  <2>1. ASSUME NEW q, NEW t, NEW a, NEW granted,
               \/ SetTakerAuthorization(q, t, granted) \/ SelectStakeOwner(t, q)
               \/ ClearStakeOwner(t) \/ InitializeClaimBalance(q) \/ ClaimStake(q)
               \/ InitializeStakeTokenVault \/ DonateStake(a)
        PROVE  UNCHANGED balance
    BY <2>1, Zenon DEF SetTakerAuthorization, SelectStakeOwner, ClearStakeOwner,
       InitializeClaimBalance, ClaimStake, InitializeStakeTokenVault, DonateStake, custodyVars
  <2>2. ASSUME NEW q \in Users, NEW a \in Amounts, DepositStake(q, a) PROVE FALSE
    BY <1>2, <2>2, Zenon DEF DepositStake
  <2> QED BY <1>1, <1>3, <1>6, <2>1, <2>2, Zenon DEF OwnerNext
<1>7. CASE ControllerNext
  <2>1. ASSUME NEW c, NEW q, NEW id, NEW a, NEW m,
               \/ ControllerLockStake(c, q, id, a, m) \/ IncreaseStakeLock(c, id, a)
               \/ ResizeStakeLock(c, id, a, m) \/ ControllerUnlockStake(c, id)
        PROVE  UNCHANGED balance
    BY <2>1, Zenon DEF ControllerLockStake, LockStake, IncreaseStakeLock, ResizeStakeLock,
       ShrinkStake, ControllerUnlockStake, UnlockStake
  <2>2. ASSUME NEW c, NEW q \in Users, NEW id, NEW a \in Amounts, NEW m,
               ControllerFundLock(c, q, id, a, m)
        PROVE  FALSE
    BY <1>2, <2>2, Zenon DEF ControllerFundLock
  <2> QED BY <1>1, <1>4, <1>7, <2>1, <2>2, Zenon DEF ControllerNext
<1> QED
  BY <1>5, <1>6, <1>7, Zenon DEF StakeNext

\* Principal leaves a position by a withdrawal of free stake or through one of
\* the owner's own locks, in full into claims.
THEOREM StakePrincipal == StakeSpec => PrincipalLeavesThroughLocksOnly
<1> DEFINE Step == \A o \in Users : balance'[o] < balance[o] => LeavesProperly(o)
<1>1. StakeInv /\ [StakeNext]_stakeVars => [Step]_stakeVars
  BY PrincipalOfStep, Zenon DEF StakeInv, CustodyInv
<1>2. PrincipalLeavesThroughLocksOnly <=> [][Step]_stakeVars
  BY PTL DEF PrincipalLeavesThroughLocksOnly, LeavesProperly
<1> QED
  BY <1>1, <1>2, StakeInvariant, PTL DEF StakeSpec
=============================================================================
