--------------------------- MODULE HandoverProofs ---------------------------
(***************************************************************************)
(* What is left of dispute protection once the stake vault has changed     *)
(* hands.  The pairing of intents and collateral ends with the dispute     *)
(* PDA's control: a successor may increase, shrink, unlock or resolve any  *)
(* lock.  But as long as it opens no lock of its own under the name of an  *)
(* intent, every lock it leaves in place is still the one its dispute      *)
(* recorded, the vault's books stay right, and whatever cancelling,        *)
(* pruning or releasing asks of the collateral holds.  The funds need no   *)
(* such condition: whatever the successor does, totals, tokens, principal  *)
(* and the delay of the next handover stay right.                          *)
(***************************************************************************)
EXTENDS ProtocolProofs

USE ProtocolAssumption, StakeAssumption, EscrowAssumption, ChainAssumption

\* A lock under the name of an intent is opened only together with the dispute
\* record of that intent: prepare_dispute does so, and a successor keeps to other
\* names.
NamesRespected ==
  \A i \in IntentIds : ~Live(i) /\ Live(i)' => disputes'[i] # disputes[i]

\* What a dispute says of its intent and of its lock, whoever controls the vault.
Recorded(i) ==
  /\ i \in covered => InStatus(i, "Pending")
  /\ Live(i) =>
       /\ InStatus(i, "Pending") \/ InStatus(i, "Settled")
       /\ locks[i].owner = disputes[i].stakeOwner

\* The inductive invariant of the composition across handovers.
HandoverInv ==
  /\ EscrowInv
  /\ RecordsInv
  /\ StakeInv
  /\ \A i \in IntentIds : Recorded(i)

\* What CancelCoverage and ReleaseMaturedDispute ask of a lock beyond its
\* existence, the status and the time: the recorded owner, and a position that
\* holds the amount.
ExitsOpen ==
  \A i \in IntentIds : Live(i) =>
    /\ i \in covered => InStatus(i, "Pending")
    /\ locks[i].owner = disputes[i].stakeOwner
    /\ locks[i].amount <= locked[disputes[i].stakeOwner]

\* No handler of the vault gives a lock to another owner.
OwnersKept ==
  \A id \in LockIds : Live(id) /\ Live(id)' => locks'[id].owner = locks[id].owner

\* Writing one lock concerns no other.
LEMMA OneLockWritten ==
  ASSUME CustodyTypeOK, NEW id \in LockIds, NEW l, locks' = [locks EXCEPT ![id] = l],
         \/ l = NoLock \/ ~Live(id)
         \/ Live(id) /\ l \in StakeLock /\ l.owner = locks[id].owner
  PROVE  OwnersKept
<1>1. locks'[id] = l /\ \A x \in LockIds \ {id} : locks'[x] = locks[x]
  BY Zenon DEF CustodyTypeOK
<1> QED
  BY <1>1, Zenon DEF OwnersKept, Live

\* Every step of the vault's own handlers keeps the owners of locks.
LEMMA VaultKeepsOwners ==
  ASSUME CustodyTypeOK, VaultNext
  PROVE  OwnersKept
<1>0. locks' = locks => OwnersKept
  BY Zenon DEF OwnersKept
<1>1. CASE OwnerNext
  BY <1>0, <1>1, ZenonT(60) DEF OwnerNext, InitializeStakeTokenVault, DepositStake, WithdrawStake,
     InitializeClaimBalance, ClaimStake, DonateStake, SetTakerAuthorization,
     SelectStakeOwner, ClearStakeOwner, custodyVars
<1>2. CASE HandoverNext
  BY <1>0, <1>2, ZenonT(60) DEF HandoverNext, ProposeStakeController, CancelStakeController,
     AcceptStakeController, custodyVars
<1>3. ASSUME NEW c, NEW o, NEW id \in LockIds, NEW a, NEW m,
             ControllerLockStake(c, o, id, a, m) \/ ControllerFundLock(c, o, id, a, m)
      PROVE  OwnersKept
  <2>1. ~Live(id) /\ locks' = [locks EXCEPT ![id] = [owner |-> o, amount |-> a, maturesAt |-> m]]
    BY <1>3, Zenon DEF ControllerLockStake, ControllerFundLock, LockStake
  <2> QED BY <2>1, OneLockWritten, Zenon
<1>4. ASSUME NEW c, NEW id \in LockIds, NEW a \in Nat, IncreaseStakeLock(c, id, a)
      PROVE  OwnersKept
  <2>1. Live(id) /\ locks' = [locks EXCEPT ![id].amount = @ + a]
    BY <1>4, Zenon DEF IncreaseStakeLock
  <2>2. locks[id] \in StakeLock
    BY <2>1, Zenon DEF CustodyTypeOK, Live
  <2> DEFINE sum == locks[id].amount + a
             l == [locks[id] EXCEPT !.amount = sum]
  <2>3. sum \in Nat
    BY <2>2, SMTT(60) DEF StakeLock
  <2>4. locks' = [locks EXCEPT ![id] = l]
    BY <2>1, Zenon
  <2> HIDE DEF sum
  <2>5. l \in StakeLock /\ l.owner = locks[id].owner
    BY <2>2, <2>3, Zenon DEF StakeLock
  <2> HIDE DEF l
  <2> QED BY <2>1, <2>4, <2>5, OneLockWritten, ZenonT(60)
<1>5. ASSUME NEW c, NEW id \in LockIds, NEW a \in Nat, NEW m \in Nat, ResizeStakeLock(c, id, a, m)
      PROVE  OwnersKept
  <2> DEFINE l == [locks[id] EXCEPT !.amount = a, !.maturesAt = m]
  <2>1. Live(id) /\ locks' = [locks EXCEPT ![id] = l]
    BY <1>5, Zenon DEF ResizeStakeLock, ShrinkStake
  <2>2. l \in StakeLock /\ l.owner = locks[id].owner
    <3>1. locks[id] \in StakeLock
      BY <2>1, Zenon DEF CustodyTypeOK, Live
    <3> QED BY <3>1, Zenon DEF StakeLock
  <2> HIDE DEF l
  <2> QED BY <2>1, <2>2, OneLockWritten, ZenonT(60)
<1>6. ASSUME NEW c, NEW id \in LockIds, NEW payout,
             ControllerUnlockStake(c, id) \/ ResolveStakeLock(c, id, payout)
      PROVE  OwnersKept
  <2>1. locks' = [locks EXCEPT ![id] = NoLock]
    BY <1>6, Zenon DEF ControllerUnlockStake, UnlockStake, ResolveStakeLock, ResolveStake
  <2> QED BY <2>1, OneLockWritten, Zenon
<1>7. CASE ControllerNext
  <2>1. Amounts \subseteq Nat /\ Maturities \subseteq Nat
    BY Zenon DEF StakeAssumption
  <2> QED BY <1>3, <1>4, <1>5, <1>6, <1>7, <2>1, ZenonT(60) DEF ControllerNext
<1> QED
  BY <1>1, <1>2, <1>7, ZenonT(60) DEF VaultNext
-----------------------------------------------------------------------------
(* Every lock stays the one its dispute recorded.                          *)

\* An intent whose record a step does not write, and whose lock it does not open.
LEMMA RecordedFrame ==
  ASSUME NEW i \in IntentIds, Recorded(i), disputes'[i] = disputes[i],
         i \in covered' => i \in covered,
         Live(i)' => Live(i) /\ locks'[i].owner = locks[i].owner
  PROVE  Recorded(i)'
BY Zenon DEF Recorded, InStatus

\* Signalling an intent opens its lock for the owner it records, or none.
LEMMA SignalRecorded ==
  ASSUME HandoverInv, NEW t \in Users, NEW d \in DepositIds, NEW m \in Methods, NEW a \in Amounts,
         \/ SignalUncovered(t, d, m, a)
         \/ \E o \in Users : SignalCovered(t, d, m, a, o)
  PROVE  \A i \in IntentIds : Recorded(i)'
<1>0. LifecycleInv /\ AccountsInv /\ DisputeTypeOK /\ CustodyTypeOK
  BY Zenon DEF HandoverInv, EscrowInv, RecordsInv, StakeInv, CustodyInv
<1>1. SignalIntent(t, d, m, a, TRUE) \/ SignalIntent(t, d, m, a, FALSE)
  BY Zenon DEF SignalUncovered, SignalCovered
<1>2. PICK n \in IntentIds : n = nextIntent
  BY <1>0, <1>1, SignalledFresh, ZenonT(60)
<1>3. CASE SignalUncovered(t, d, m, a)
  <2>1. UNCHANGED <<locks, disputes>> /\ covered' = covered \ {n}
    BY <1>2, <1>3, Zenon DEF SignalUncovered, SignalIntent, custodyVars, With
  <2> QED BY <2>1, RecordedFrame, Zenon DEF HandoverInv, Live
<1>4. ASSUME NEW o \in Users, SignalCovered(t, d, m, a, o)
      PROVE  \A i \in IntentIds : Recorded(i)'
  <2> DEFINE x == Opening(t, d, m, a, o)
             l == [owner |-> o, amount |-> a, maturesAt |-> Never]
  <2>0. disputes' = [disputes EXCEPT ![nextIntent] = x] /\ OpenedFor(x, t, d, a, o)
    BY <1>0, <1>4, OpenedDispute, ZenonT(60)
  <2> HIDE DEF x
  <2>1. covered' = covered \cup {n} /\ locks' = [locks EXCEPT ![n] = l]
    BY <1>2, <1>4, ZenonT(60) DEF SignalCovered, SignalIntent, LockStake, With
  <2>2. /\ disputes'[n] = x /\ x # NoDispute /\ x.stakeOwner = o /\ x.status = "Pending"
        /\ \A j \in IntentIds \ {n} : disputes'[j] = disputes[j]
    BY <1>0, <1>2, <2>0, ZenonT(60) DEF DisputeTypeOK, OpenedFor
  <2>3. l.owner = o
    BY Zenon
  <2> HIDE DEF l
  <2>4. locks'[n] = l /\ \A j \in IntentIds \ {n} : locks'[j] = locks[j]
    BY <1>0, <2>1, Zenon DEF CustodyTypeOK
  <2>5. Recorded(n)'
    BY <2>2, <2>3, <2>4, ZenonT(60) DEF Recorded, InStatus
  <2>6. \A j \in IntentIds \ {n} : Recorded(j)'
    BY <2>1, <2>2, <2>4, RecordedFrame, ZenonT(60) DEF HandoverInv, Live
  <2> QED BY <2>5, <2>6, Zenon
<1> QED
  BY <1>3, <1>4, Zenon

\* The end of an intent frees its collateral or leaves it settled, with its owner.
LEMMA EndedRecorded ==
  ASSUME HandoverInv, NEW i \in IntentIds, Ended(i)
  PROVE  \A j \in IntentIds : Recorded(j)'
<1>0. /\ DisputeTypeOK /\ CustodyTypeOK /\ i \in LockIds /\ now \in Nat
      /\ \A j \in IntentIds : Recorded(j)
  <2>1. AccountsInv => now \in Nat
    BY SMTT(60) DEF AccountsInv
  <2> QED BY <2>1, Zenon DEF HandoverInv, EscrowInv, RecordsInv, StakeInv, CustodyInv
<1>1. /\ covered' = covered \ {i}
      /\ \A j \in IntentIds \ {i} : disputes'[j] = disputes[j] /\ locks'[j] = locks[j]
  BY <1>0, EndedDispute, EndedLocks, ZenonT(60) DEF Ended, CloseIntent
<1>2. \A j \in IntentIds \ {i} : Recorded(j)'
  BY <1>0, <1>1, RecordedFrame, ZenonT(60) DEF Live
<1>3. Recorded(i)'
  <2>1. CASE UNCHANGED <<custodyVars, disputes>>
    <3>1. UNCHANGED <<locks, disputes>>
      BY <2>1, Zenon DEF custodyVars
    <3> QED BY <1>0, <1>1, <3>1, RecordedFrame, ZenonT(60) DEF Live
  <2>2. CASE CancelCoverage(i)
    <3>1. locks'[i] = NoLock
      BY <1>0, <2>2, ZenonT(60) DEF CancelCoverage, UnlockStake, CustodyTypeOK
    <3> QED BY <1>1, <3>1, Zenon DEF Recorded, Live
  <2>3. ASSUME NEW release \in Nat, SettleCoverage(i, release) PROVE Recorded(i)'
    <3> DEFINE until == now + disputes[i].riskWindow
               x == [disputes[i] EXCEPT !.status = "Settled", !.releaseAmount = release,
                                        !.eligibleAt = until]
               l == [locks[i] EXCEPT !.amount = release, !.maturesAt = until]
    <3>1. /\ disputes[i] \in DisputeIntent /\ InStatus(i, "Pending")
          /\ Live(i) /\ locks[i].owner = disputes[i].stakeOwner
          /\ disputes' = [disputes EXCEPT ![i] = x]
          /\ locks' = [locks EXCEPT ![i] = l]
      BY <1>0, <2>3, ZenonT(60) DEF SettleCoverage, ShrinkStake, InStatus, DisputeTypeOK
    <3> HIDE DEF until
    <3>2. disputes'[i] = x /\ locks'[i] = l
      BY <1>0, <3>1, ZenonT(60) DEF DisputeTypeOK, CustodyTypeOK
    <3>3. x.status = "Settled" /\ x.stakeOwner = disputes[i].stakeOwner
      BY <3>1, SettledFields, SMTT(60)
    <3>4. l.owner = locks[i].owner
      <4>1. locks[i] \in StakeLock
        BY <1>0, <3>1, ZenonT(60) DEF CustodyTypeOK, Live
      <4> QED BY <4>1, Zenon DEF StakeLock
    <3>5. disputes'[i] # NoDispute
      BY <1>0, <3>1, EndedDispute, ZenonT(60) DEF InStatus
    <3> HIDE DEF x, l
    <3> QED BY <1>1, <3>1, <3>2, <3>3, <3>4, <3>5, ZenonT(60) DEF Recorded, InStatus
  <2> QED BY <2>1, <2>2, <2>3, ZenonT(60) DEF Ended
<1> QED
  BY <1>2, <1>3, Zenon
\* Every step of a composition whose controllers respect the names of intents
\* leaves each lock as its dispute recorded it.
LEMMA RecordedStep ==
  ASSUME HandoverInv, NamesRespected, [ProtocolNext]_protocolVars
  PROVE  \A i \in IntentIds : Recorded(i)'
<1>0. /\ LifecycleInv /\ DisputeTypeOK /\ CustodyTypeOK /\ IntentIds \subseteq LockIds
      /\ \A i \in IntentIds : Recorded(i)
  BY Zenon DEF HandoverInv, EscrowInv, RecordsInv, StakeInv, CustodyInv
<1>1. CASE ~LifecycleNext
  <2>1. UNCHANGED <<covered, disputes>>
    BY <1>0, <1>1, QuietSteps, ZenonT(60) DEF Quiet
  <2>2. OwnersKept
    <3>1. CASE VaultNext
      BY <1>0, <3>1, VaultKeepsOwners, ZenonT(60)
    <3>2. CASE ~VaultNext
      <4>1. UNCHANGED locks
        BY <1>1, <3>2, ZenonT(60) DEF ProtocolNext, ProtocolTick, DepositNext, DisputeConfigNext,
           SetRiskWindow, SetDisputeAdmissionsPaused, SetDepositDisputeProtection, protocolVars,
           stakeVars, custodyVars
      <4> QED BY <4>1, Zenon DEF OwnersKept
    <3> QED BY <3>1, <3>2, Zenon
  <2>3. \A i \in IntentIds : Live(i)' => Live(i) /\ locks'[i].owner = locks[i].owner
    BY <1>0, <2>1, <2>2, ZenonT(60) DEF NamesRespected, OwnersKept
  <2> QED BY <1>0, <2>1, <2>3, RecordedFrame, ZenonT(60)
<1>2. ASSUME NEW i \in IntentIds, InStatus(i, "Settled"), NEW s,
             disputes' = [disputes EXCEPT ![i].status = s],
             locks' = [locks EXCEPT ![i] = NoLock], UNCHANGED covered
      PROVE  \A j \in IntentIds : Recorded(j)'
  <2>1. locks'[i] = NoLock /\ \A j \in IntentIds \ {i} : locks'[j] = locks[j]
    BY <1>0, <1>2, ZenonT(60) DEF CustodyTypeOK
  <2>2. \A j \in IntentIds \ {i} : disputes'[j] = disputes[j]
    BY <1>0, <1>2, ZenonT(60) DEF DisputeTypeOK
  <2>3. Recorded(i)'
    <3>1. i \notin covered'
      BY <1>0, <1>2, ZenonT(60) DEF Recorded, InStatus
    <3> QED BY <2>1, <3>1, ZenonT(60) DEF Recorded, Live
  <2>4. \A j \in IntentIds \ {i} : Recorded(j)'
    BY <1>0, <1>2, <2>1, <2>2, RecordedFrame, ZenonT(60) DEF Live
  <2> QED BY <2>3, <2>4, ZenonT(60)
<1>3. ASSUME NEW i \in IntentIds, ReleaseMaturedDispute(i)
      PROVE  \A j \in IntentIds : Recorded(j)'
  BY <1>2, <1>3, ZenonT(60) DEF ReleaseMaturedDispute, UnlockStake, escrowVars, intentVars
<1>4. ASSUME NEW i \in IntentIds, NEW p, NEW e, SubmitDispute(i, p, e)
      PROVE  \A j \in IntentIds : Recorded(j)'
  BY <1>2, <1>4, ZenonT(60) DEF SubmitDispute, ResolveStake, escrowVars, intentVars
<1>5. ASSUME NEW t \in Users, NEW d \in DepositIds, NEW m \in Methods, NEW a \in Amounts,
             \/ SignalUncovered(t, d, m, a)
             \/ \E o \in Users : SignalCovered(t, d, m, a, o)
      PROVE  \A j \in IntentIds : Recorded(j)'
  BY <1>5, SignalRecorded, Zenon
<1>6. ASSUME NEW i \in IntentIds, Ended(i) PROVE \A j \in IntentIds : Recorded(j)'
  BY <1>6, EndedRecorded, Zenon
<1> QED
  BY <1>0, <1>1, <1>3, <1>4, <1>5, <1>6, LifecycleCases, ZenonT(60)
-----------------------------------------------------------------------------
(* The invariant across handovers, and what it leaves open.                *)

\* The invariant across handovers holds in the initial states.
LEMMA HandoverInitInv == ProtocolInit => HandoverInv
<1> SUFFICES ASSUME ProtocolInit PROVE HandoverInv
  BY Zenon
<1>1. ProtocolInv /\ StakeInv
  BY ProtocolInitInv, StakeInitInv, ZenonT(60) DEF ProtocolInit
<1>2. \A i \in IntentIds : ~Live(i) /\ i \notin covered
  BY SMTT(60) DEF ProtocolInit, StakeInit, EscrowInit, Live
<1> QED
  BY <1>1, <1>2, Zenon DEF HandoverInv, ProtocolInv, Recorded

\* Every step keeps it, as long as the names of intents are respected.
LEMMA HandoverNextInv ==
  ASSUME HandoverInv, NamesRespected, [ProtocolNext]_protocolVars
  PROVE  HandoverInv'
<1>1. EscrowInv /\ RecordsInv /\ StakeInv
  BY Zenon DEF HandoverInv
<1>2. EscrowInv'
  BY <1>1, EscrowStep, EscrowNextInv, ZenonT(60)
<1>3. RecordsInv'
  BY <1>1, RecordsStep, Zenon
<1>4. StakeInv'
  <2>1. OwnersRecorded
    BY Zenon DEF HandoverInv, Recorded, OwnersRecorded
  <2> QED BY <1>1, <1>2, <2>1, CollateralStep, ZenonT(60)
<1> QED
  BY <1>2, <1>3, <1>4, RecordedStep, ZenonT(60) DEF HandoverInv

\* Whoever comes to control the vault, if no lock but a dispute's own is opened
\* under the name of an intent, then the escrow, the dispute records and the
\* vault's books all stand, every covered intent has its pending dispute, and
\* every lock named by an intent belongs to a dispute that still needs it, in the
\* name of the stake owner it recorded.
THEOREM HandoverInvariant ==
  ProtocolSpec /\ [][NamesRespected]_protocolVars => []HandoverInv
<1>1. HandoverInv /\ [ProtocolNext]_protocolVars /\ [NamesRespected]_protocolVars => HandoverInv'
  <2>1. UNCHANGED protocolVars => NamesRespected
    BY Zenon DEF protocolVars, stakeVars, custodyVars, NamesRespected, Live
  <2> QED BY <2>1, HandoverNextInv, Zenon
<1> QED
  BY <1>1, HandoverInitInv, PTL DEF ProtocolSpec

\* No handover strands anybody whose collateral is left in place: the recorded
\* owner is the owner of the lock and the owner's position holds its amount, so
\* neither the owner comparison nor the subtraction of cancel_dispute,
\* prune_expired_intent and release_matured_dispute can fail.
THEOREM HandoverExits ==
  ProtocolSpec /\ [][NamesRespected]_protocolVars => []ExitsOpen
<1>1. HandoverInv => ExitsOpen
  <2> SUFFICES ASSUME HandoverInv, NEW i \in IntentIds, Live(i)
               PROVE  /\ i \in covered => InStatus(i, "Pending")
                      /\ locks[i].owner = disputes[i].stakeOwner
                      /\ locks[i].amount <= locked[disputes[i].stakeOwner]
    BY Zenon DEF ExitsOpen
  <2>1. Recorded(i) /\ CustodyInv /\ i \in LockIds
    BY Zenon DEF HandoverInv, StakeInv
  <2>2. locks[i].amount <= locked[locks[i].owner]
    BY <2>1, LockWithinLocked, Zenon DEF CustodyInv
  <2> QED BY <2>1, <2>2, Zenon DEF Recorded
<1> QED
  BY <1>1, HandoverInvariant, PTL
-----------------------------------------------------------------------------
(* The funds of the vault, whatever its controllers do.                    *)

\* What a dispute handler does to the vault.
DisputeHalf ==
  /\ UNCHANGED <<now, delegationVars, handoverVars>>
  /\ \/ \E o \in Users, id \in LockIds, a \in Nat, m \in Nat :
          LockStake(o, id, a, m) \/ UnlockStake(o, id) \/ ShrinkStake(o, id, a, m)
     \/ \E id \in LockIds, payout \in [Users -> Nat], b \in Users :
          /\ ResolveStake(locks[id].owner, id, payout)
          /\ claimOpen' = claimOpen \cup {b}
          /\ \A u \in Users : payout[u] > 0 => u = b

\* The handlers of makers, guardians and governance do not move the clock.
LEMMA DepositKeepsTime == DepositNext => UNCHANGED now
<1>1. MakerNext => UNCHANGED now
  <2>1. \A t, retain, m, a : CreateDeposit(t, retain, m, a) => UNCHANGED now
    BY Zenon DEF CreateDeposit
  <2>2. \A u, d, t, accept, retain : UpdateDeposit(u, d, t, accept, retain) => UNCHANGED now
    BY ZenonT(60) DEF UpdateDeposit
  <2>3. \A u, d, a : AddFunds(d, a) \/ DonateDeposit(d, a) \/ RemoveFunds(u, d, a) => UNCHANGED now
    BY Zenon DEF AddFunds, DonateDeposit, RemoveFunds
  <2>4. \A u, d, m, active : WithdrawDeposit(u, d) \/ ConfigurePaymentMethod(u, d, m, active)
          => UNCHANGED now
    BY Zenon DEF WithdrawDeposit, ReturnPrincipal, ConfigurePaymentMethod
  <2> QED BY <2>1, <2>2, <2>3, <2>4, ZenonT(60) DEF MakerNext
<1>2. GovernanceNext \/ GuardianNext => UNCHANGED now
  BY Zenon DEF GovernanceNext, GuardianNext, ConfigureEscrow, ConfigureOrchestrator,
     ExtendIntentExpiry
<1> QED
  BY <1>1, <1>2, Zenon DEF DepositNext

\* The end of an intent unlocks or shrinks the lock in its dispute's name.
LEMMA EndedHalf ==
  ASSUME DisputeTypeOK, now \in Nat, NEW i \in IntentIds, Ended(i)
  PROVE  UNCHANGED stakeVars \/ DisputeHalf
<1>0. i \in LockIds /\ UNCHANGED <<now, delegationVars, handoverVars>>
  BY Zenon DEF Ended, frameVars
<1>1. CASE UNCHANGED custodyVars
  BY <1>0, <1>1, Zenon DEF stakeVars
<1>2. CASE CancelCoverage(i)
  <2>1. disputes[i].stakeOwner \in Users /\ UnlockStake(disputes[i].stakeOwner, i) /\ 0 \in Nat
    BY <1>2, Zenon DEF CancelCoverage, InStatus, DisputeTypeOK, DisputeIntent
  <2> QED BY <1>0, <2>1, Zenon DEF DisputeHalf
<1>3. ASSUME NEW release \in Nat, SettleCoverage(i, release) PROVE DisputeHalf
  <2> DEFINE until == now + disputes[i].riskWindow
             o == disputes[i].stakeOwner
  <2>1. o \in Users /\ disputes[i].riskWindow \in Nat /\ ShrinkStake(o, i, release, until)
    BY <1>3, Zenon DEF SettleCoverage, InStatus, DisputeTypeOK, DisputeIntent
  <2>2. until \in Nat
    BY <2>1, SMTT(60)
  <2> HIDE DEF until, o
  <2> QED BY <1>0, <2>1, <2>2, ZenonT(60) DEF DisputeHalf
<1> QED
  BY <1>1, <1>2, <1>3, ZenonT(60) DEF Ended

\* Every step of the composition is a step of the vault or the stake half of a
\* dispute handler.
LEMMA VaultStep ==
  ASSUME EscrowInv, RecordsInv, [ProtocolNext]_protocolVars
  PROVE  [StakeNext]_stakeVars \/ DisputeHalf
<1>0. /\ LifecycleInv /\ AccountsInv /\ DisputeTypeOK /\ now \in Nat
      /\ Never \in Nat /\ Amounts \subseteq Nat
  BY SMTT(60) DEF EscrowInv, AccountsInv, RecordsInv, Never
<1>1. CASE ~LifecycleNext
  <2>1. CASE VaultNext \/ ProtocolTick
    BY <2>1, Zenon DEF VaultNext, ProtocolTick, StakeNext, StakeTick
  <2>2. CASE DepositNext \/ DisputeConfigNext \/ UNCHANGED protocolVars
    BY <2>2, DepositKeepsTime, ZenonT(60) DEF DepositNext, DisputeConfigNext, SetRiskWindow,
       SetDisputeAdmissionsPaused, SetDepositDisputeProtection, stakeVars, protocolVars
  <2> QED BY <1>1, <2>1, <2>2, ZenonT(60) DEF ProtocolNext
<1>2. ASSUME NEW t \in Users, NEW d \in DepositIds, NEW m \in Methods, NEW a \in Amounts,
             SignalUncovered(t, d, m, a)
      PROVE  UNCHANGED stakeVars
  BY <1>2, Zenon DEF SignalUncovered, SignalIntent, frameVars, stakeVars
<1>3. ASSUME NEW t \in Users, NEW d \in DepositIds, NEW m \in Methods, NEW a \in Amounts,
             NEW o \in Users, SignalCovered(t, d, m, a, o)
      PROVE  DisputeHalf
  <2>1. nextIntent \in LockIds /\ a \in Nat
    BY <1>0, <1>3, SignalledFresh, ZenonT(60) DEF SignalCovered
  <2>2. LockStake(o, nextIntent, a, Never) /\ UNCHANGED <<now, delegationVars, handoverVars>>
    BY <1>3, Zenon DEF SignalCovered, SignalIntent, frameVars
  <2> QED BY <1>0, <2>1, <2>2, ZenonT(60) DEF DisputeHalf
<1>4. ASSUME NEW i \in IntentIds, Ended(i) PROVE UNCHANGED stakeVars \/ DisputeHalf
  BY <1>0, <1>4, EndedHalf, ZenonT(60)
<1>5. ASSUME NEW i \in IntentIds, ReleaseMaturedDispute(i) PROVE DisputeHalf
  <2>1. /\ disputes[i].stakeOwner \in Users /\ UnlockStake(disputes[i].stakeOwner, i)
        /\ UNCHANGED <<now, delegationVars, handoverVars>> /\ i \in LockIds /\ 0 \in Nat
    BY <1>0, <1>5, ZenonT(60) DEF ReleaseMaturedDispute, InStatus, DisputeTypeOK, DisputeIntent,
       frameVars
  <2> QED BY <2>1, Zenon DEF DisputeHalf
<1>6. ASSUME NEW i \in IntentIds, NEW p \in Payments, NEW e \in DisputeIds, SubmitDispute(i, p, e)
      PROVE  DisputeHalf
  <2> DEFINE b == disputes[i].depositor
             r == disputes[i].releaseAmount
             payout == Award(b, r)
  <2>1. b \in Users /\ r \in Nat /\ i \in LockIds
    BY <1>0, <1>6, ZenonT(60) DEF SubmitDispute, InStatus, DisputeTypeOK, DisputeIntent
  <2>2. /\ ResolveStake(locks[i].owner, i, payout) /\ claimOpen' = claimOpen \cup {b}
        /\ UNCHANGED <<now, delegationVars, handoverVars>>
    <3>1. locks[i].owner = disputes[i].stakeOwner
      BY <1>6, ZenonT(60) DEF SubmitDispute
    <3> QED BY <1>6, <3>1, ZenonT(60) DEF SubmitDispute
  <2>3. payout \in [Users -> Nat] /\ \A u \in Users : payout[u] > 0 => u = b
    BY <2>1, SMTT(60) DEF Award
  <2> HIDE DEF b, r, payout
  <2> QED BY <2>1, <2>2, <2>3, ZenonT(60) DEF DisputeHalf
<1> QED
  BY <1>0, <1>1, <1>2, <1>3, <1>4, <1>5, <1>6, LifecycleCases, ZenonT(60)

\* A resolution names an owner, and gives the beneficiary an account.
LEMMA ResolvedHalf ==
  ASSUME StakeFundsInv, NEW id \in LockIds, NEW payout \in [Users -> Nat], NEW b \in Users,
         ResolveStake(locks[id].owner, id, payout), claimOpen' = claimOpen \cup {b},
         \A u \in Users : payout[u] > 0 => u = b
  PROVE  locks[id].owner \in Users /\ StakeFundsInv'
<1>1. locks[id].owner \in Users
  BY Zenon DEF StakeFundsInv, CustodyTypeOK, ResolveStake, Live, StakeLock
<1>2. /\ claimOpen' \subseteq Users /\ claimOpen \subseteq claimOpen'
      /\ \A u \in Users : payout[u] > 0 => u \in claimOpen'
  BY Zenon DEF StakeFundsInv, CustodyTypeOK
<1> QED
  BY <1>1, <1>2, ResolveFunds, ZenonT(60)

\* Every step of the composition keeps the funds.
LEMMA FundsStep ==
  ASSUME EscrowInv, RecordsInv, StakeFundsInv, [ProtocolNext]_protocolVars
  PROVE  StakeFundsInv'
<1>1. CASE [StakeNext]_stakeVars
  BY <1>1, FundsNextInv, ZenonT(60)
<1>2. CASE DisputeHalf
  BY <1>2, LockStepFunds, ResolvedHalf, ZenonT(60) DEF DisputeHalf
<1> QED
  BY <1>1, <1>2, VaultStep, ZenonT(60)

\* Whatever a controller does to the locks, the vault's totals are the sums of
\* its positions and claims, its tokens cover both, and every claim has its
\* account.
THEOREM ProtocolFunds == ProtocolSpec => []StakeFundsInv
<1>1. ProtocolInit => StakeFundsInv
  BY StakeInitInv, ZenonT(60) DEF ProtocolInit, StakeInv, CustodyInv, StakeFundsInv
<1>2. ProtocolInv /\ StakeFundsInv /\ [ProtocolNext]_protocolVars => StakeFundsInv'
  BY FundsStep, ZenonT(60) DEF ProtocolInv
<1> QED
  BY <1>1, <1>2, ProtocolInvariant, PTL DEF ProtocolSpec

\* With the dispute handlers on top, and whoever controls it, the stake vault is
\* a custody account: nothing leaves it except against an equal claim.
THEOREM ProtocolImplementsCustody == ProtocolSpec => ImplementsCustody
<1> DEFINE State == EscrowInv /\ RecordsInv /\ StakeFundsInv
<1>1. ProtocolSpec => []State
  <2>1. ProtocolInv /\ StakeFundsInv => State
    BY Zenon DEF ProtocolInv
  <2> QED BY <2>1, ProtocolInvariant, ProtocolFunds, PTL
<1>2. ProtocolInit => Abstract!Init
  <2>1. StakeInit => Abstract!Init
    BY SMTT(60) DEF StakeInit, Abstract!Init
  <2> QED BY <2>1, ZenonT(60) DEF ProtocolInit
<1>3. ASSUME State, State', [ProtocolNext]_protocolVars
      PROVE  [Abstract!Next]_(Abstract!CustodyState)
  <2>1. CASE [StakeNext]_stakeVars
    BY <1>3, <2>1, CustodyStep, ZenonT(60)
  <2>2. ASSUME NEW o \in Users, NEW id \in LockIds, NEW a \in Nat, NEW m \in Nat,
               LockStake(o, id, a, m) \/ UnlockStake(o, id) \/ ShrinkStake(o, id, a, m)
        PROVE  UNCHANGED Abstract!CustodyState
    BY <2>2, ZenonT(60) DEF LockStake, UnlockStake, ShrinkStake, Abstract!CustodyState
  <2>3. ASSUME NEW id \in LockIds, NEW payout \in [Users -> Nat], NEW b \in Users,
               ResolveStake(locks[id].owner, id, payout), claimOpen' = claimOpen \cup {b},
               \A u \in Users : payout[u] > 0 => u = b
        PROVE  Abstract!Next
    BY <1>3, <2>3, ResolvedHalf, ResolutionCedes, ZenonT(60)
  <2>4. CASE DisputeHalf
    BY <2>2, <2>3, <2>4, ZenonT(60) DEF DisputeHalf
  <2> QED
    BY <1>3, <2>1, <2>4, VaultStep, ZenonT(60)
<1> QED
  BY <1>1, <1>2, <1>3, PTL DEF ProtocolSpec, ImplementsCustody, Abstract!Spec

\* Under the dispute handlers too, principal leaves a position only by a
\* withdrawal of free stake or through one of its own locks
\* (submit_dispute checks the lock's owner; cancelling, settling and releasing
\* move no principal).
THEOREM ProtocolPrincipal == ProtocolSpec => PrincipalLeavesThroughLocksOnly
<1> DEFINE Step == \A o \in Users : balance'[o] < balance[o] => LeavesProperly(o)
<1>1. ASSUME EscrowInv, RecordsInv, CustodyTypeOK, [ProtocolNext]_protocolVars PROVE Step
  <2> SUFFICES ASSUME NEW o \in Users, balance'[o] < balance[o] PROVE LeavesProperly(o)
    OBVIOUS
  <2>1. CASE [StakeNext]_stakeVars
    BY <1>1, <2>1, PrincipalOfStep, ZenonT(60)
  <2>2. ASSUME NEW q \in Users, NEW id \in LockIds, NEW a \in Nat, NEW m \in Nat,
               LockStake(q, id, a, m) \/ UnlockStake(q, id) \/ ShrinkStake(q, id, a, m)
        PROVE  FALSE
    <3>1. balance' = balance /\ balance[o] \in Nat
      BY <1>1, <2>2, ZenonT(60) DEF LockStake, UnlockStake, ShrinkStake, CustodyTypeOK
    <3> QED BY <3>1, SMTT(60)
  <2>3. CASE DisputeHalf
    BY <1>1, <2>2, <2>3, ResolutionDrops, ZenonT(60) DEF DisputeHalf
  <2> QED
    BY <1>1, <2>1, <2>3, VaultStep, ZenonT(60)
<1>2. ProtocolInv /\ StakeFundsInv /\ [ProtocolNext]_protocolVars => [Step]_stakeVars
  BY <1>1, ZenonT(60) DEF ProtocolInv, StakeFundsInv
<1>3. PrincipalLeavesThroughLocksOnly <=> [][Step]_stakeVars
  BY PTL DEF PrincipalLeavesThroughLocksOnly, LeavesProperly
<1> QED
  BY <1>2, <1>3, ProtocolInvariant, ProtocolFunds, PTL DEF ProtocolSpec

\* In the composition too the controller changes only to a candidate that stood
\* for the full delay: no dispute or escrow handler touches the handover.
THEOREM ProtocolHandoverDelayed == ProtocolSpec => HandoverIsDelayed
<1> DEFINE Boundary == validAt \in Nat /\ BoundaryWithinDelay
<1>1. ProtocolInit => Boundary
  BY SMTT(60) DEF ProtocolInit, StakeInit, BoundaryWithinDelay
<1>2. ASSUME ProtocolInv, Boundary, [ProtocolNext]_protocolVars
      PROVE  Boundary' /\ [DelayedStep]_stakeVars
  <2>0. EscrowInv /\ RecordsInv /\ now \in Nat
    BY <1>2, SMTT(60) DEF ProtocolInv, EscrowInv, AccountsInv
  <2>1. CASE [StakeNext]_stakeVars
    BY <1>2, <2>0, <2>1, BoundaryStep, DelayedOfStep, ZenonT(60)
  <2>2. CASE DisputeHalf
    <3>1. now' = now /\ controller' = controller /\ pending' = pending /\ validAt' = validAt
      BY <2>2, ZenonT(60) DEF DisputeHalf, handoverVars
    <3>2. Boundary'
      BY <1>2, <3>1, ZenonT(60) DEF BoundaryWithinDelay
    <3>3. DelayedStep
      BY <1>2, <3>1, SMTT(60) DEF DelayedStep
    <3> QED BY <3>2, <3>3, ZenonT(60)
  <2> QED
    BY <1>2, <2>0, <2>1, <2>2, VaultStep, ZenonT(60)
<1>3. HandoverIsDelayed <=> [][DelayedStep]_stakeVars
  BY PTL DEF HandoverIsDelayed, DelayedStep
<1> HIDE DEF Boundary
<1> QED
  BY <1>1, <1>2, <1>3, ProtocolInvariant, PTL DEF ProtocolSpec
=============================================================================
