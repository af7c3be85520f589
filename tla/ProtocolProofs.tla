--------------------------- MODULE ProtocolProofs ---------------------------
(***************************************************************************)
(* The composed protocol, for any number of users, deposits, intents and   *)
(* pieces of evidence.  Adding dispute protection leaves the escrow an     *)
(* escrow: every step of the composition is a step of Escrow or none, so   *)
(* all that is proved of Escrow holds here.  While the dispute PDA controls*)
(* the vault, intents, disputes and stake locks stay paired, and the       *)
(* vault's books stay right under the dispute handlers.                    *)
(***************************************************************************)
EXTENDS Protocol, StakeVaultProofs, EscrowProofs

USE ProtocolAssumption, StakeAssumption, EscrowAssumption, ChainAssumption
-----------------------------------------------------------------------------
(* The composition implements the escrow.                                  *)

\* The handlers of the vault do not move the clock.
LEMMA VaultKeepsTime == VaultNext => UNCHANGED now
<1>1. OwnerNext => UNCHANGED now
  BY Zenon DEF OwnerNext, InitializeStakeTokenVault, DepositStake, WithdrawStake,
     InitializeClaimBalance, ClaimStake, DonateStake, SetTakerAuthorization,
     SelectStakeOwner, ClearStakeOwner
<1>2. ControllerNext => UNCHANGED now
  <2>1. ASSUME NEW c, NEW o, NEW id, NEW a, NEW m,
               \/ ControllerLockStake(c, o, id, a, m) \/ ControllerFundLock(c, o, id, a, m)
               \/ IncreaseStakeLock(c, id, a) \/ ResizeStakeLock(c, id, a, m)
        PROVE  UNCHANGED now
    BY <2>1, Zenon DEF ControllerLockStake, ControllerFundLock, IncreaseStakeLock,
       ResizeStakeLock
  <2>2. ASSUME NEW c, NEW id, NEW payout,
               ControllerUnlockStake(c, id) \/ ResolveStakeLock(c, id, payout)
        PROVE  UNCHANGED now
    BY <2>2, Zenon DEF ControllerUnlockStake, ResolveStakeLock
  <2> QED BY <2>1, <2>2, ZenonT(60) DEF ControllerNext
<1>3. HandoverNext => UNCHANGED now
  BY Zenon DEF HandoverNext, ProposeStakeController, CancelStakeController,
     AcceptStakeController
<1> QED
  BY <1>1, <1>2, <1>3, ZenonT(60) DEF VaultNext

\* An intent ends, with the half that concerns its coverage.
Ended(i) ==
  /\ Active(i)
  /\ CloseIntent(i)
  /\ UNCHANGED <<now, nextIntent, frameVars>>
  /\ \/ i \notin covered /\ UNCHANGED <<custodyVars, disputes>>
     \/ CancelCoverage(i)
     \/ \E release \in Nat : SettleCoverage(i, release)

\* The kinds of lifecycle steps.
LEMMA LifecycleCases ==
  ASSUME LifecycleInv, LifecycleNext
  PROVE  \/ \E t \in Users, d \in DepositIds, m \in Methods, a \in Amounts :
              SignalUncovered(t, d, m, a)
         \/ \E t \in Users, d \in DepositIds, m \in Methods, a \in Amounts, o \in Users :
              SignalCovered(t, d, m, a, o)
         \/ \E i \in IntentIds : Ended(i)
         \/ \E i \in IntentIds : ReleaseMaturedDispute(i)
         \/ \E i \in IntentIds, p \in Payments, e \in DisputeIds : SubmitDispute(i, p, e)
<1>0. \A i \in IntentIds : Active(i) => intents[i].amount \in Nat
  BY Zenon DEF LifecycleInv, IntentsTypeOK, Active, Intent
<1>1. ASSUME NEW i \in IntentIds, NEW u \in Users, Cancel(u, i) PROVE Ended(i)
  BY <1>1, Zenon DEF Cancel, CancelIntent, CoverageCancelled, Ended
<1>2. ASSUME NEW i \in IntentIds, Prune(i) PROVE Ended(i)
  BY <1>2, Zenon DEF Prune, PruneExpiredIntent, CoverageCancelled, Ended
<1>3. ASSUME NEW i \in IntentIds, NEW u \in Users, Release(u, i) PROVE Ended(i)
  <2>1. intents[i].amount \in Nat
    BY <1>0, <1>3, ZenonT(60) DEF Release, ManualRelease
  <2> QED
    BY <1>3, <2>1, ZenonT(60) DEF Release, ManualRelease, CoverageSettled, Ended
<1>4. ASSUME NEW i \in IntentIds, NEW p \in Payments, NEW attested \in Amounts,
             Fulfill(i, p, attested)
      PROVE  Ended(i)
  <2>1. Released(i, attested) \in Nat
    BY <1>0, <1>4, ZenonT(60) DEF Fulfill, FulfillIntent, Released
  <2> QED
    BY <1>4, <2>1, ZenonT(60) DEF Fulfill, FulfillIntent, CoverageSettled, Ended
<1> QED
  BY <1>1, <1>2, <1>3, <1>4, ZenonT(60) DEF LifecycleNext

\* Every step of the composition is a step of the escrow, or leaves it alone.
LEMMA EscrowStep ==
  ASSUME [ProtocolNext]_protocolVars
  PROVE  [EscrowNext]_<<now, escrowVars>>
<1>1. CASE ProtocolTick
  BY <1>1, Zenon DEF ProtocolTick, EscrowNext, EscrowTick
<1>2. CASE VaultNext
  BY <1>2, VaultKeepsTime, ZenonT(60) DEF VaultNext
<1>3. CASE DepositNext
  BY <1>3, Zenon DEF DepositNext, GuardianNext, EscrowNext, IntentNext
<1>4. CASE DisputeConfigNext
  BY <1>4, Zenon DEF DisputeConfigNext, SetRiskWindow, SetDisputeAdmissionsPaused,
     SetDepositDisputeProtection, stakeVars
<1>5. CASE LifecycleNext
  <2>1. ASSUME NEW t \in Users, NEW d \in DepositIds, NEW m \in Methods, NEW a \in Amounts,
               \/ SignalUncovered(t, d, m, a)
               \/ \E o \in Users : SignalCovered(t, d, m, a, o)
        PROVE  EscrowNext
    <3>1. SignalIntent(t, d, m, a, FALSE) \/ SignalIntent(t, d, m, a, TRUE)
      BY <2>1, Zenon DEF SignalUncovered, SignalCovered
    <3>2. IntentNext
      BY <3>1, Zenon DEF IntentNext
    <3> QED BY <3>2, Zenon DEF EscrowNext
  <2>2. CASE \E i \in IntentIds :
               \/ \E u \in Users : Cancel(u, i) \/ Release(u, i)
               \/ Prune(i)
               \/ \E p \in Payments, attested \in Amounts : Fulfill(i, p, attested)
    BY <2>2, Zenon DEF Cancel, Release, Prune, Fulfill, EscrowNext, IntentNext
  <2>3. CASE \E i \in IntentIds :
               \/ ReleaseMaturedDispute(i)
               \/ \E p \in Payments, e \in DisputeIds : SubmitDispute(i, p, e)
    BY <2>3, Zenon DEF ReleaseMaturedDispute, SubmitDispute
  <2> QED BY <1>5, <2>1, <2>2, <2>3, ZenonT(60) DEF LifecycleNext
<1>6. CASE UNCHANGED protocolVars
  BY <1>6, Zenon DEF protocolVars, stakeVars
<1> QED
  BY <1>1, <1>2, <1>3, <1>4, <1>5, <1>6, ZenonT(60) DEF ProtocolNext

\* Dispute protection refines the escrow: whatever its handlers add, the
\* deposits, intents and payments behave as in Escrow, so everything proved of
\* Escrow holds of the composed protocol.
THEOREM ProtocolImplementsEscrow == ProtocolSpec => EscrowSpec
<1>1. ProtocolInit => EscrowInit
  BY Zenon DEF ProtocolInit
<1>2. [ProtocolNext]_protocolVars => [EscrowNext]_<<now, escrowVars>>
  BY EscrowStep, Zenon
<1> QED
  BY <1>1, <1>2, PTL DEF ProtocolSpec, EscrowSpec
-----------------------------------------------------------------------------
(* The steps that matter to dispute protection.                            *)

\* Nothing a dispute is about changes.
Quiet == UNCHANGED <<nextIntent, intents, covered, disputes, evidence>>

\* What makers, guardians and governance do to deposits leaves intents and disputes alone.
LEMMA DepositNextQuiet == DepositNext => Quiet /\ UNCHANGED disputeConfigVars
<1>1. MakerNext \/ GovernanceNext => UNCHANGED intentVars
  BY IntentsUntouched, Zenon
<1>2. GuardianNext => UNCHANGED <<nextIntent, intents, covered>>
  BY Zenon DEF GuardianNext, ExtendIntentExpiry
<1> QED
  BY <1>1, <1>2, Zenon DEF DepositNext, Quiet, intentVars, disputeVars

\* A step outside the lifecycle is quiet, and the dispute configuration keeps
\* its type.
LEMMA QuietSteps ==
  ASSUME DisputeTypeOK, [ProtocolNext]_protocolVars, ~LifecycleNext
  PROVE  Quiet /\ DisputeTypeOK'
<1>1. CASE ProtocolTick \/ VaultNext \/ UNCHANGED protocolVars
  <2>1. UNCHANGED <<escrowVars, disputeVars>>
    BY <1>1, Zenon DEF ProtocolTick, VaultNext, protocolVars
  <2> QED
    BY <2>1, Zenon DEF Quiet, escrowVars, intentVars, disputeVars, disputeConfigVars,
       DisputeTypeOK
<1>2. CASE DepositNext
  BY <1>2, DepositNextQuiet, ZenonT(60) DEF Quiet, disputeConfigVars, DisputeTypeOK
<1>3. CASE DisputeConfigNext
  <2>1. UNCHANGED <<escrowVars, disputes, evidence>>
    BY <1>3, Zenon DEF DisputeConfigNext, SetRiskWindow, SetDisputeAdmissionsPaused,
       SetDepositDisputeProtection
  <2>2. riskWindow' \in [Methods -> (0..MaxRiskWindow) \cup {NoWindow}]
    BY <1>3, Zenon DEF DisputeConfigNext, SetRiskWindow, SetDisputeAdmissionsPaused,
       SetDepositDisputeProtection, DisputeTypeOK
  <2>3. admissionsPaused' \in BOOLEAN
    BY <1>3, Zenon DEF DisputeConfigNext, SetRiskWindow, SetDisputeAdmissionsPaused,
       SetDepositDisputeProtection, DisputeTypeOK
  <2>4. optedOut' \subseteq DepositIds
    BY <1>3, Zenon DEF DisputeConfigNext, SetRiskWindow, SetDisputeAdmissionsPaused,
       SetDepositDisputeProtection, DisputeTypeOK, With
  <2> QED
    BY <2>1, <2>2, <2>3, <2>4, ZenonT(60) DEF Quiet, escrowVars, intentVars, DisputeTypeOK
<1> QED
  BY <1>1, <1>2, <1>3, Zenon DEF ProtocolNext

\* Ending an intent changes at most its own dispute, and only a pending one.
LEMMA EndedDispute ==
  ASSUME DisputeTypeOK, now \in Nat, NEW i \in IntentIds, Ended(i)
  PROVE  /\ disputes' \in [IntentIds -> DisputeIntent \cup {NoDispute}]
         /\ \A j \in IntentIds \ {i} : disputes'[j] = disputes[j]
         /\ \/ disputes'[i] = disputes[i]
            \/ /\ InStatus(i, "Pending") /\ disputes'[i] # NoDispute
               /\ disputes'[i].status \in {"Cancelled", "Settled"}
<1>1. CASE UNCHANGED disputes
  BY <1>1, Zenon DEF DisputeTypeOK
<1>2. CASE CancelCoverage(i)
  BY <1>2, SMTT(60) DEF CancelCoverage, InStatus, DisputeTypeOK, DisputeIntent, DisputeStatus
<1>3. ASSUME NEW release \in Nat, SettleCoverage(i, release)
      PROVE  /\ disputes' \in [IntentIds -> DisputeIntent \cup {NoDispute}]
             /\ \A j \in IntentIds \ {i} : disputes'[j] = disputes[j]
             /\ InStatus(i, "Pending") /\ disputes'[i] # NoDispute
             /\ disputes'[i].status = "Settled"
  <2>1. disputes[i] \in DisputeIntent /\ InStatus(i, "Pending")
    BY <1>3, Zenon DEF SettleCoverage, InStatus, DisputeTypeOK
  <2> DEFINE until == now + disputes[i].riskWindow
             x == [disputes[i] EXCEPT !.status = "Settled", !.releaseAmount = release,
                                      !.eligibleAt = until]
  <2>2. until \in Nat /\ "Settled" \in DisputeStatus
    BY <2>1, SMTT(60) DEF DisputeIntent, DisputeStatus
  <2>4. disputes' = [disputes EXCEPT ![i] = x]
    BY <1>3, Zenon DEF SettleCoverage
  <2> HIDE DEF until
  <2>3. x \in DisputeIntent /\ x.status = "Settled"
    BY <2>1, <2>2, ZenonT(60) DEF DisputeIntent
  <2> HIDE DEF x
  <2> QED BY <2>1, <2>3, <2>4, ZenonT(60) DEF DisputeTypeOK
<1> QED
  BY <1>1, <1>2, <1>3, ZenonT(60) DEF Ended

\* The dispute a covered signal opens.
Opening(t, d, m, a, o) ==
  [deposit |-> d, taker |-> t, stakeOwner |-> o, depositor |-> deposits[d].depositor,
   lockedAmount |-> a, status |-> "Pending", riskWindow |-> riskWindow[m], eligibleAt |-> 0,
   releaseAmount |-> 0]

\* What the other proofs need of it.
OpenedFor(x, t, d, a, o) ==
  /\ x \in DisputeIntent
  /\ x.deposit = d /\ x.taker = t /\ x.stakeOwner = o /\ x.lockedAmount = a
  /\ x.status = "Pending"

\* Signalling a covered intent opens exactly one record, for that intent.
LEMMA OpenedDispute ==
  ASSUME LifecycleInv, AccountsInv, DisputeTypeOK,
         NEW t \in Users, NEW d \in DepositIds, NEW m \in Methods, NEW a \in Amounts,
         NEW o \in Users, SignalCovered(t, d, m, a, o)
  PROVE  /\ disputes' = [disputes EXCEPT ![nextIntent] = Opening(t, d, m, a, o)]
         /\ OpenedFor(Opening(t, d, m, a, o), t, d, a, o)
<1> DEFINE x == Opening(t, d, m, a, o)
<1>1. deposits[d].depositor \in Users
  BY ZenonT(60) DEF AccountsInv, DepositsTypeOK, DepositTerms, SignalCovered, SignalIntent, Open
<1>2. riskWindow[m] \in Nat
  BY SMTT(60) DEF DisputeTypeOK, SignalCovered
<1>3. x \in DisputeIntent
  BY <1>1, <1>2, Zenon DEF Opening, DisputeIntent, DisputeStatus
<1>4. disputes' = [disputes EXCEPT ![nextIntent] = x]
  BY Zenon DEF SignalCovered, Opening
<1>5. /\ x.deposit = d /\ x.taker = t /\ x.stakeOwner = o /\ x.lockedAmount = a
      /\ x.status = "Pending"
  BY Zenon DEF Opening
<1> QED
  BY <1>3, <1>4, <1>5, ZenonT(60) DEF OpenedFor
-----------------------------------------------------------------------------
(* The dispute records, whoever controls the vault.                        *)

\* Records with the same evidence, where nothing becomes or stops being disputed.
LEMMA EvidenceKept ==
  ASSUME EvidencePaysOnce, HistoryStep, UNCHANGED evidence,
         \A i \in IntentIds : InStatus(i, "Disputed")' <=> InStatus(i, "Disputed")
  PROVE  EvidencePaysOnce'
BY Zenon DEF EvidencePaysOnce, HistoryStep

\* The intent half of the statuses that a signal or an end leaves alone.
LEMMA RecordsStep ==
  ASSUME EscrowInv, RecordsInv, [ProtocolNext]_protocolVars
  PROVE  RecordsInv'
<1>0. /\ LifecycleInv /\ AccountsInv /\ HistoryStep /\ now \in Nat /\ nextIntent \in Nat
      /\ DisputeTypeOK /\ DisputesFresh /\ EvidencePaysOnce
  BY EscrowStep, HistoryOfStep, SMTT(60) DEF EscrowInv, AccountsInv, LifecycleInv, IntentsTypeOK,
     RecordsInv
<1>1. CASE ~LifecycleNext
  <2>1. Quiet /\ DisputeTypeOK'
    BY <1>0, <1>1, QuietSteps, ZenonT(60)
  <2> QED
    BY <1>0, <2>1, EvidenceKept, ZenonT(60) DEF RecordsInv, Quiet, DisputesFresh, InStatus
<1>2. ASSUME NEW t \in Users, NEW d \in DepositIds, NEW m \in Methods, NEW a \in Amounts,
             SignalUncovered(t, d, m, a)
      PROVE  RecordsInv'
  <2>1. UNCHANGED <<disputes, evidence, disputeConfigVars>> /\ nextIntent' = nextIntent + 1
    BY <1>0, <1>2, SignalledFresh, ZenonT(60) DEF SignalUncovered, frameVars
  <2>2. DisputeTypeOK'
    BY <1>0, <2>1, ZenonT(60) DEF DisputeTypeOK, disputeConfigVars
  <2>3. DisputesFresh'
    BY <1>0, <2>1, SMTT(60) DEF DisputesFresh, IntentIds
  <2>4. \A i \in IntentIds : InStatus(i, "Disputed")' <=> InStatus(i, "Disputed")
    BY <2>1, Zenon DEF InStatus
  <2> QED
    BY <1>0, <2>1, <2>2, <2>3, <2>4, EvidenceKept, ZenonT(60) DEF RecordsInv
<1>3. ASSUME NEW t \in Users, NEW d \in DepositIds, NEW m \in Methods, NEW a \in Amounts,
             NEW o \in Users, SignalCovered(t, d, m, a, o)
      PROVE  RecordsInv'
  <2> DEFINE x == Opening(t, d, m, a, o)
  <2>0. disputes' = [disputes EXCEPT ![nextIntent] = x] /\ OpenedFor(x, t, d, a, o)
    BY <1>0, <1>3, OpenedDispute, ZenonT(60)
  <2> HIDE DEF x
  <2>1. /\ x \in DisputeIntent
        /\ disputes' = [disputes EXCEPT ![nextIntent] = x]
        /\ x.deposit = d /\ x.taker = t /\ x.stakeOwner = o /\ x.lockedAmount = a
        /\ x.status = "Pending"
    BY <2>0, Zenon DEF OpenedFor
  <2>2. /\ UNCHANGED <<evidence, disputeConfigVars>> /\ disputes[nextIntent] = NoDispute
        /\ nextIntent' = nextIntent + 1 /\ nextIntent \in IntentIds
    BY <1>0, <1>3, SignalledFresh, ZenonT(60) DEF SignalCovered, frameVars
  <2>3. DisputeTypeOK'
    <3>1. disputes' \in [IntentIds -> DisputeIntent \cup {NoDispute}]
      BY <1>0, <2>1, ZenonT(60) DEF DisputeTypeOK
    <3> QED BY <1>0, <2>2, <3>1, ZenonT(60) DEF DisputeTypeOK, disputeConfigVars
  <2>5. DisputesFresh'
    BY <1>0, <2>1, <2>2, SMTT(60) DEF DisputeTypeOK, DisputesFresh, IntentIds
  <2>4. \A i \in IntentIds : InStatus(i, "Disputed")' <=> InStatus(i, "Disputed")
    BY <1>0, <2>1, <2>2, ZenonT(60) DEF DisputeTypeOK, InStatus
  <2> QED
    BY <1>0, <2>2, <2>3, <2>4, <2>5, EvidenceKept, ZenonT(60) DEF RecordsInv
<1>4. ASSUME NEW i \in IntentIds, Ended(i) PROVE RecordsInv'
  <2>1. UNCHANGED <<nextIntent, evidence, disputeConfigVars>>
    BY <1>4, Zenon DEF Ended, frameVars
  <2>2. /\ disputes' \in [IntentIds -> DisputeIntent \cup {NoDispute}]
        /\ \A j \in IntentIds \ {i} : disputes'[j] = disputes[j]
        /\ \/ disputes'[i] = disputes[i]
           \/ /\ InStatus(i, "Pending") /\ disputes'[i] # NoDispute
              /\ disputes'[i].status \in {"Cancelled", "Settled"}
    BY <1>0, <1>4, EndedDispute, ZenonT(60)
  <2>3. DisputeTypeOK' /\ DisputesFresh'
    BY <1>0, <2>1, <2>2, ZenonT(60) DEF DisputeTypeOK, disputeConfigVars, DisputesFresh, InStatus
  <2>4. \A j \in IntentIds : InStatus(j, "Disputed")' <=> InStatus(j, "Disputed")
    BY <2>2, Zenon DEF InStatus
  <2> QED
    BY <1>0, <2>1, <2>3, <2>4, EvidenceKept, ZenonT(60) DEF RecordsInv
<1>5. ASSUME NEW i \in IntentIds, ReleaseMaturedDispute(i) PROVE RecordsInv'
  <2>1. /\ UNCHANGED <<nextIntent, evidence, disputeConfigVars>> /\ InStatus(i, "Settled")
        /\ disputes' = [disputes EXCEPT ![i].status = "Released"]
    BY <1>5, Zenon DEF ReleaseMaturedDispute, frameVars, escrowVars, intentVars
  <2>2. DisputeTypeOK' /\ DisputesFresh'
    BY <1>0, <2>1, SMTT(60) DEF DisputeTypeOK, disputeConfigVars, DisputesFresh, InStatus, DisputeIntent,
       DisputeStatus
  <2>3. \A j \in IntentIds : InStatus(j, "Disputed")' <=> InStatus(j, "Disputed")
    BY <1>0, <2>1, ZenonT(60) DEF InStatus, DisputeTypeOK, DisputeIntent
  <2> QED
    BY <1>0, <2>1, <2>2, <2>3, EvidenceKept, ZenonT(60) DEF RecordsInv
<1>6. ASSUME NEW i \in IntentIds, NEW p \in Payments, NEW e \in DisputeIds, SubmitDispute(i, p, e)
      PROVE  RecordsInv'
  <2>1. /\ UNCHANGED <<nextIntent, intentPayment, disputeConfigVars>> /\ InStatus(i, "Settled")
        /\ disputes' = [disputes EXCEPT ![i].status = "Disputed"]
        /\ evidence' = [evidence EXCEPT ![e] = i] /\ evidence[e] = NoIntent
        /\ intentPayment[i] # NoPayment
    BY <1>6, ZenonT(60) DEF SubmitDispute, escrowVars, intentVars, bindingVars
  <2>2. DisputeTypeOK' /\ DisputesFresh'
    BY <1>0, <2>1, SMTT(60) DEF DisputeTypeOK, disputeConfigVars, DisputesFresh, InStatus, DisputeIntent,
       DisputeStatus
  <2>3. /\ InStatus(i, "Disputed")' /\ ~InStatus(i, "Disputed")
        /\ \A j \in IntentIds \ {i} : InStatus(j, "Disputed")' <=> InStatus(j, "Disputed")
    <3>1. disputes[i] \in DisputeIntent /\ disputes \in [IntentIds -> DisputeIntent \cup {NoDispute}]
      BY <1>0, <2>1, Zenon DEF InStatus, DisputeTypeOK
    <3>2. /\ disputes'[i].status = "Disputed" /\ disputes'[i] \in DisputeIntent
          /\ \A j \in IntentIds \ {i} : disputes'[j] = disputes[j]
      BY <2>1, <3>1, Zenon DEF DisputeIntent, DisputeStatus
    <3> QED BY <2>1, <3>2, Zenon DEF InStatus
  <2>4. evidence \in [DisputeIds -> IntentIds \cup {NoIntent}]
    BY <1>0, Zenon DEF DisputeTypeOK
  <2>5. \A f \in DisputeIds : evidence[f] # i
    BY <1>0, <2>3, Zenon DEF EvidencePaysOnce
  <2>6. /\ evidence'[e] = i
        /\ \A f \in DisputeIds \ {e} : evidence'[f] = evidence[f]
    BY <2>1, <2>4, ZenonT(60)
  <2>7. \A j \in IntentIds : InStatus(j, "Disputed")' <=> \E f \in DisputeIds : evidence'[f] = j
    BY <1>0, <2>1, <2>3, <2>6, SMTT(60) DEF EvidencePaysOnce
  <2>8. \A f, g \in DisputeIds : evidence'[f] # NoIntent /\ evidence'[f] = evidence'[g] => f = g
    BY <1>0, <2>5, <2>6, ZenonT(60) DEF EvidencePaysOnce
  <2>9. \A j \in IntentIds : InStatus(j, "Disputed")' => intentPayment'[j] # NoPayment
    BY <1>0, <2>1, <2>3, ZenonT(60) DEF EvidencePaysOnce
  <2> QED
    BY <2>2, <2>7, <2>8, <2>9, Zenon DEF RecordsInv, EvidencePaysOnce
<1> QED
  BY <1>0, <1>1, <1>2, <1>3, <1>4, <1>5, <1>6, LifecycleCases, ZenonT(60)
-----------------------------------------------------------------------------
(* Collateral, while the dispute PDA controls the vault.                   *)

\* Control is never regained, and while it is held only the dispute handlers
\* touch a lock.
LEMMA ControlKept ==
  ASSUME [ProtocolNext]_protocolVars
  PROVE  (Protecting' => Protecting) /\ (Protecting /\ ~LifecycleNext => UNCHANGED locks)
<1>1. CASE VaultNext
  <2>1. CASE OwnerNext
    BY <2>1, Zenon DEF OwnerNext, InitializeStakeTokenVault, DepositStake, WithdrawStake,
       InitializeClaimBalance, ClaimStake, DonateStake, SetTakerAuthorization,
       SelectStakeOwner, ClearStakeOwner, handoverVars, custodyVars, Protecting
  <2>2. CASE HandoverNext
    BY <2>2, Zenon DEF HandoverNext, ProposeStakeController, CancelStakeController,
       AcceptStakeController, custodyVars, Protecting, StakeAssumption
  <2>3. CASE ControllerNext
    <3>1. ASSUME NEW c, NEW o, NEW id, NEW a, NEW m,
                 \/ ControllerLockStake(c, o, id, a, m) \/ ControllerFundLock(c, o, id, a, m)
                 \/ IncreaseStakeLock(c, id, a) \/ ResizeStakeLock(c, id, a, m)
          PROVE  SignedByController(c) /\ UNCHANGED handoverVars
      BY <3>1, ZenonT(60) DEF ControllerLockStake, ControllerFundLock, IncreaseStakeLock,
         ResizeStakeLock
    <3>2. ASSUME NEW c, NEW id, NEW payout,
                 ControllerUnlockStake(c, id) \/ ResolveStakeLock(c, id, payout)
          PROVE  SignedByController(c) /\ UNCHANGED handoverVars
      BY <3>2, ZenonT(60) DEF ControllerUnlockStake, ResolveStakeLock
    <3>3. controller \in Signers /\ UNCHANGED controller
      BY <2>3, <3>1, <3>2, ZenonT(60) DEF ControllerNext, SignedByController, handoverVars
    <3> QED BY <3>3, Zenon DEF Protecting
  <2> QED BY <1>1, <2>1, <2>2, <2>3, ZenonT(60) DEF VaultNext
<1>2. CASE ~VaultNext
  <2>1. UNCHANGED handoverVars
    <3>1. LifecycleNext => UNCHANGED handoverVars
      <4>1. ASSUME NEW t, NEW d, NEW m, NEW a, NEW o,
                   SignalUncovered(t, d, m, a) \/ SignalCovered(t, d, m, a, o)
            PROVE  UNCHANGED handoverVars
        BY <4>1, ZenonT(60) DEF SignalUncovered, SignalCovered, frameVars
      <4>2. ASSUME NEW u, NEW i, NEW p, NEW attested,
                   Cancel(u, i) \/ Release(u, i) \/ Prune(i) \/ Fulfill(i, p, attested)
            PROVE  UNCHANGED handoverVars
        BY <4>2, ZenonT(60) DEF Cancel, Release, Prune, Fulfill, CoverageCancelled, CoverageSettled,
           frameVars
      <4>3. ASSUME NEW i, NEW p, NEW e, ReleaseMaturedDispute(i) \/ SubmitDispute(i, p, e)
            PROVE  UNCHANGED handoverVars
        BY <4>3, ZenonT(60) DEF ReleaseMaturedDispute, SubmitDispute, frameVars
      <4> QED BY <4>1, <4>2, <4>3, ZenonT(60) DEF LifecycleNext
    <3>2. DisputeConfigNext => UNCHANGED stakeVars
      BY Zenon DEF DisputeConfigNext, SetRiskWindow, SetDisputeAdmissionsPaused,
         SetDepositDisputeProtection
    <3> QED
      BY <1>2, <3>1, <3>2, ZenonT(60) DEF ProtocolNext, ProtocolTick, DepositNext, stakeVars,
         protocolVars
  <2>2. ~LifecycleNext => UNCHANGED custodyVars
    <3>1. DisputeConfigNext => UNCHANGED stakeVars
      BY Zenon DEF DisputeConfigNext, SetRiskWindow, SetDisputeAdmissionsPaused,
         SetDepositDisputeProtection
    <3> QED
      BY <1>2, <3>1, ZenonT(60) DEF ProtocolNext, ProtocolTick, DepositNext, stakeVars, protocolVars
  <2> QED BY <2>1, <2>2, ZenonT(60) DEF handoverVars, custodyVars, Protecting
<1> QED
  BY <1>1, <1>2, Zenon

\* DisputePairing, for one intent.
Paired(i) ==
  /\ i \in covered <=> InStatus(i, "Pending")
  /\ InStatus(i, "Pending") =>
       /\ Active(i)
       /\ disputes[i].lockedAmount = intents[i].amount
       /\ disputes[i].deposit = intents[i].deposit
       /\ disputes[i].taker = intents[i].owner
       /\ Secured(i, disputes[i].lockedAmount, Never)
  /\ InStatus(i, "Settled") =>
       /\ ~Active(i)
       /\ disputes[i].releaseAmount \in 1..disputes[i].lockedAmount
       /\ Secured(i, disputes[i].releaseAmount, disputes[i].eligibleAt)
  /\ Live(i) => InStatus(i, "Pending") \/ InStatus(i, "Settled")

\* The pairing of intents, dispute records and locks, one intent at a time.
LEMMA PairedEach ==
  /\ DisputePairing <=> \A i \in IntentIds : Paired(i)
  /\ DisputePairing' <=> \A i \in IntentIds : Paired(i)'
BY Zenon DEF DisputePairing, Paired

\* The rest of the vault's state follows from its custody.
LEMMA CustodyFrame ==
  ASSUME StakeInv, CustodyInv', now' \in 0..MaxTime,
         UNCHANGED <<custodyOpen, delegationVars, handoverVars>>
  PROVE  StakeInv'
<1>1. custodyOpen' \in BOOLEAN
  BY Zenon DEF StakeInv, StakeTypeOK
<1>2. /\ controller' \in Signers \cup {DisputeConfig}
      /\ pending' \in Signers \cup {DisputeConfig, NoOne}
      /\ validAt' \in Nat
      /\ authorized' \subseteq Users \X Users
      /\ selected' \in [Users -> Users \cup {NoOne}]
  BY Zenon DEF StakeInv, StakeTypeOK, delegationVars, handoverVars
<1>3. StakeTypeOK'
  BY <1>1, <1>2, ZenonT(60) DEF StakeTypeOK, CustodyInv
<1>4. SelectionAuthorized'
  BY Zenon DEF StakeInv, SelectionAuthorized, delegationVars
<1> QED
  BY <1>3, <1>4, ZenonT(60) DEF StakeInv

\* The award of a dispute is one claim, of the maker, in an account that exists.
LEMMA AwardInv ==
  ASSUME CustodyInv, DisputeTypeOK, NEW i \in IntentIds, NEW p, NEW e, SubmitDispute(i, p, e)
  PROVE  CustodyInv'
<1> DEFINE b == disputes[i].depositor
           r == disputes[i].releaseAmount
           payout == Award(b, r)
<1>1. disputes[i] \in DisputeIntent /\ b \in Users /\ r \in Nat /\ i \in LockIds
  BY Zenon DEF SubmitDispute, InStatus, DisputeTypeOK, DisputeIntent
<1>2. /\ ResolveStake(locks[i].owner, i, payout)
      /\ claimOpen' = claimOpen \cup {b}
  BY Zenon DEF SubmitDispute
<1>3. claimOpen \subseteq Users
  BY ZenonT(60) DEF CustodyInv, CustodyTypeOK
<1>4. payout \in [Users -> Nat] /\ \A u \in Users : payout[u] > 0 => u = b
  BY <1>1, SMTT(60) DEF Award
<1> HIDE DEF b, r, payout
<1>5. claimOpen' \subseteq Users /\ claimOpen \subseteq claimOpen' /\ b \in claimOpen'
  BY <1>1, <1>2, <1>3, ZenonT(60)
<1> QED
  BY <1>1, <1>2, <1>4, <1>5, ResolveStakeInv, ZenonT(60)

\* Settled collateral stands in the name its dispute recorded.
OwnersRecorded ==
  \A i \in IntentIds : InStatus(i, "Settled") /\ Live(i) => locks[i].owner = disputes[i].stakeOwner

\* It does wherever intents and locks are paired.
LEMMA PairedOwners == DisputePairing => OwnersRecorded
<1>1. ASSUME NEW i \in IntentIds, Secured(i, disputes[i].releaseAmount, disputes[i].eligibleAt)
      PROVE  locks[i].owner = disputes[i].stakeOwner
  BY <1>1, SMTT(60) DEF Secured
<1> QED
  BY <1>1, PairedEach, ZenonT(60) DEF Paired, OwnersRecorded

\* Every dispute handler keeps the vault's books, because it names the owner the
\* lock was opened for.
LEMMA CollateralStep ==
  ASSUME EscrowInv, EscrowInv', RecordsInv, StakeInv, OwnersRecorded, [ProtocolNext]_protocolVars
  PROVE  StakeInv'
<1>0. /\ LifecycleInv /\ AccountsInv /\ DisputeTypeOK /\ CustodyInv /\ now \in Nat
      /\ now' \in 0..MaxTime /\ Never \in Nat /\ Amounts \subseteq Nat
  BY SMTT(60) DEF EscrowInv, AccountsInv, RecordsInv, StakeInv, Never
<1>1. CASE ~LifecycleNext
  <2>1. CASE VaultNext \/ ProtocolTick
    <3>1. StakeNext
      BY <2>1, ZenonT(60) DEF VaultNext, ProtocolTick, StakeNext, StakeTick
    <3> QED BY <3>1, StakeNextInv, ZenonT(60)
  <2>2. CASE DepositNext \/ DisputeConfigNext \/ UNCHANGED protocolVars
    <3>1. UNCHANGED <<custodyVars, delegationVars, handoverVars>>
      BY <2>2, Zenon DEF DepositNext, DisputeConfigNext, SetRiskWindow,
         SetDisputeAdmissionsPaused, SetDepositDisputeProtection, stakeVars, protocolVars
    <3> QED BY <1>0, <3>1, CustodyStutter, CustodyFrame, ZenonT(60) DEF custodyVars
  <2> QED BY <1>1, <2>1, <2>2, ZenonT(60) DEF ProtocolNext
<1>2. ASSUME NEW t \in Users, NEW d \in DepositIds, NEW m \in Methods, NEW a \in Amounts,
             SignalUncovered(t, d, m, a)
      PROVE  StakeInv'
  <2>1. UNCHANGED <<custodyVars, delegationVars, handoverVars>>
    BY <1>2, Zenon DEF SignalUncovered, frameVars
  <2> QED BY <1>0, <2>1, CustodyStutter, CustodyFrame, ZenonT(60) DEF custodyVars
<1>3. ASSUME NEW t \in Users, NEW d \in DepositIds, NEW m \in Methods, NEW a \in Amounts,
             NEW o \in Users, SignalCovered(t, d, m, a, o)
      PROVE  StakeInv'
  <2>1. nextIntent \in LockIds
    BY <1>0, <1>3, SignalledFresh, ZenonT(60) DEF SignalCovered
  <2>2. LockStake(o, nextIntent, a, Never) /\ UNCHANGED <<delegationVars, handoverVars>>
    BY <1>3, Zenon DEF SignalCovered, frameVars
  <2>3. CustodyInv'
    BY <1>0, <2>1, <2>2, LockStakeInv, ZenonT(60)
  <2> QED BY <1>0, <2>2, <2>3, CustodyFrame, ZenonT(60) DEF LockStake
<1>4. ASSUME NEW i \in IntentIds, Ended(i) PROVE StakeInv'
  <2>1. UNCHANGED <<delegationVars, handoverVars>> /\ i \in LockIds
    BY <1>4, ZenonT(60) DEF Ended, frameVars
  <2>2. CASE UNCHANGED custodyVars
    BY <1>0, <2>1, <2>2, CustodyStutter, CustodyFrame, ZenonT(60) DEF custodyVars
  <2>3. CASE CancelCoverage(i)
    <3>1. UnlockStake(locks[i].owner, i)
      BY <2>3, Zenon DEF CancelCoverage
    <3> QED BY <1>0, <2>1, <3>1, UnlockStakeInv, CustodyFrame, ZenonT(60) DEF UnlockStake
  <2>4. ASSUME NEW release \in Nat, SettleCoverage(i, release) PROVE StakeInv'
    <3>1. ShrinkStake(locks[i].owner, i, release, now + disputes[i].riskWindow)
      BY <2>4, Zenon DEF SettleCoverage
    <3>2. now + disputes[i].riskWindow \in Nat
      BY <1>0, <2>4, SMTT(60) DEF SettleCoverage, InStatus, DisputeTypeOK, DisputeIntent
    <3> QED BY <1>0, <2>1, <3>1, <3>2, ShrinkStakeInv, CustodyFrame, ZenonT(60) DEF ShrinkStake
  <2> QED BY <1>4, <2>2, <2>3, <2>4, ZenonT(60) DEF Ended
<1>5. ASSUME NEW i \in IntentIds, ReleaseMaturedDispute(i) PROVE StakeInv'
  <2>0. InStatus(i, "Settled") /\ Live(i) /\ i \in LockIds
    BY <1>5, Zenon DEF ReleaseMaturedDispute
  <2>1. locks[i].owner = disputes[i].stakeOwner
    BY <2>0, Zenon DEF OwnersRecorded
  <2>2. UnlockStake(locks[i].owner, i) /\ UNCHANGED <<delegationVars, handoverVars>>
    BY <1>5, <2>1, Zenon DEF ReleaseMaturedDispute, frameVars
  <2> QED BY <1>0, <2>0, <2>2, UnlockStakeInv, CustodyFrame, ZenonT(60) DEF UnlockStake
<1>6. ASSUME NEW i \in IntentIds, NEW p \in Payments, NEW e \in DisputeIds, SubmitDispute(i, p, e)
      PROVE  StakeInv'
  <2>1. CustodyInv'
    BY <1>0, <1>6, AwardInv, ZenonT(60)
  <2>2. UNCHANGED <<custodyOpen, delegationVars, handoverVars>>
    BY <1>6, Zenon DEF SubmitDispute, ResolveStake
  <2> QED BY <1>0, <2>1, <2>2, CustodyFrame, ZenonT(60)
<1> QED
  BY <1>0, <1>1, <1>2, <1>3, <1>4, <1>5, <1>6, LifecycleCases, ZenonT(60)
-----------------------------------------------------------------------------
(* Intents, disputes and locks stay paired.                                *)

\* An intent that a step does not concern stays paired.
LEMMA PairedFrame ==
  ASSUME NEW i \in IntentIds, Paired(i), intents'[i] = intents[i], disputes'[i] = disputes[i],
         locks'[i] = locks[i], i \in covered' <=> i \in covered
  PROVE  Paired(i)'
BY Zenon DEF Paired, InStatus, Active, Live, Secured

\* A lock is its three fields.
LEMMA LockFields ==
  ASSUME NEW l \in StakeLock
  PROVE  l = [owner |-> l.owner, amount |-> l.amount, maturesAt |-> l.maturesAt]
BY Zenon DEF StakeLock

\* What settling a dispute writes, and what it leaves.
LEMMA SettledFields ==
  ASSUME NEW x \in DisputeIntent, NEW release, NEW until
  PROVE  LET y == [x EXCEPT !.status = "Settled", !.releaseAmount = release, !.eligibleAt = until]
         IN  /\ y.status = "Settled" /\ y.releaseAmount = release /\ y.eligibleAt = until
             /\ y.stakeOwner = x.stakeOwner /\ y.lockedAmount = x.lockedAmount
BY SMTT(60) DEF DisputeIntent

\* The end of an intent is the end of its dispute's pending phase.
LEMMA EndedPaired ==
  ASSUME LifecycleInv, DisputeTypeOK, CustodyTypeOK, now \in Nat, NEW i \in IntentIds,
         Paired(i), Ended(i)
  PROVE  Paired(i)'
<1>0. i \in LockIds /\ Active(i) /\ ~Active(i)' /\ i \notin covered'
  BY Zenon DEF Ended, CloseIntent, LifecycleInv, IntentsTypeOK, Active
<1>1. CASE i \notin covered /\ UNCHANGED <<custodyVars, disputes>>
  <2>1. ~InStatus(i, "Pending") /\ ~InStatus(i, "Settled") /\ ~Live(i)
    BY <1>0, <1>1, ZenonT(60) DEF Paired
  <2>2. UNCHANGED <<locks, disputes>>
    BY <1>1, Zenon DEF custodyVars
  <2> QED BY <1>0, <2>1, <2>2, ZenonT(60) DEF Paired, InStatus, Live
<1>2. CASE CancelCoverage(i)
  <2>1. locks'[i] = NoLock
    BY <1>0, <1>2, ZenonT(60) DEF CancelCoverage, UnlockStake, CustodyTypeOK
  <2>2. disputes'[i].status = "Cancelled"
    BY <1>2, ZenonT(60) DEF CancelCoverage, InStatus, DisputeTypeOK, DisputeIntent
  <2> QED BY <1>0, <2>1, <2>2, ZenonT(60) DEF Paired, InStatus, Live
<1>3. ASSUME NEW release \in Nat, SettleCoverage(i, release) PROVE Paired(i)'
  <2> DEFINE until == now + disputes[i].riskWindow
  <2>1. /\ InStatus(i, "Pending") /\ disputes[i] \in DisputeIntent
        /\ ShrinkStake(disputes[i].stakeOwner, i, release, until)
        /\ disputes' = [disputes EXCEPT ![i] =
                          [@ EXCEPT !.status = "Settled", !.releaseAmount = release,
                                    !.eligibleAt = until]]
    BY <1>3, Zenon DEF SettleCoverage, InStatus, DisputeTypeOK
  <2>2. /\ locks[i] = [owner |-> disputes[i].stakeOwner, amount |-> disputes[i].lockedAmount,
                       maturesAt |-> Never]
        /\ disputes[i].lockedAmount \in Nat
    <3>1. Secured(i, disputes[i].lockedAmount, Never)
      BY <2>1, Zenon DEF Paired
    <3>2. disputes[i].lockedAmount \in Nat
      BY <2>1, ZenonT(60) DEF DisputeIntent
    <3> QED BY <3>1, <3>2, ZenonT(60) DEF Secured
  <2>3. release > 0 /\ release <= disputes[i].lockedAmount
    BY <2>1, <2>2, SMTT(60) DEF ShrinkStake
  <2> HIDE DEF until
  <2>4. locks'[i] = [locks[i] EXCEPT !.amount = release, !.maturesAt = until]
    BY <1>0, <2>1, ZenonT(60) DEF ShrinkStake, CustodyTypeOK
  <2>5. locks'[i] = [owner |-> disputes[i].stakeOwner, amount |-> release, maturesAt |-> until]
    <3>1. locks[i] \in StakeLock /\ locks[i].owner = disputes[i].stakeOwner
      BY <1>0, <2>1, <2>2, SMTT(60) DEF CustodyTypeOK, ShrinkStake, Live
    <3>2. until \in Nat
      BY <2>1, SMTT(60) DEF until, DisputeIntent
    <3>3. /\ locks'[i] \in StakeLock /\ locks'[i].owner = disputes[i].stakeOwner
          /\ locks'[i].amount = release /\ locks'[i].maturesAt = until
      BY <2>4, <3>1, <3>2, ZenonT(60) DEF StakeLock
    <3> QED BY <3>3, LockFields, ZenonT(60)
  <2>6. disputes'[i] = [disputes[i] EXCEPT !.status = "Settled", !.releaseAmount = release,
                                           !.eligibleAt = until]
    BY <2>1, ZenonT(60) DEF DisputeTypeOK
  <2>7. /\ disputes'[i].status = "Settled" /\ disputes'[i].releaseAmount = release
        /\ disputes'[i].eligibleAt = until
        /\ disputes'[i].stakeOwner = disputes[i].stakeOwner
        /\ disputes'[i].lockedAmount = disputes[i].lockedAmount
    <3> DEFINE x == [disputes[i] EXCEPT !.status = "Settled", !.releaseAmount = release,
                                        !.eligibleAt = until]
    <3>1. /\ x.status = "Settled" /\ x.releaseAmount = release /\ x.eligibleAt = until
          /\ x.stakeOwner = disputes[i].stakeOwner /\ x.lockedAmount = disputes[i].lockedAmount
      BY <2>1, SettledFields, SMTT(60)
    <3>2. disputes'[i] = x
      BY <2>6, Zenon
    <3> HIDE DEF x
    <3> QED BY <3>1, <3>2, ZenonT(60)
  <2>8. disputes'[i] # NoDispute
    BY <2>1, EndedDispute, ZenonT(60) DEF InStatus
  <2> QED BY <1>0, <2>2, <2>3, <2>5, <2>7, <2>8, SMTT(60) DEF Paired, InStatus, Live, Secured
<1> QED
  BY <1>1, <1>2, <1>3, ZenonT(60) DEF Ended

\* Only the ended intent's lock can change.
LEMMA EndedLocks ==
  ASSUME CustodyTypeOK, NEW i \in IntentIds, Ended(i)
  PROVE  \A j \in IntentIds \ {i} : locks'[j] = locks[j]
<1>1. ASSUME UNCHANGED custodyVars PROVE locks' = locks
  BY <1>1, Zenon DEF custodyVars
<1>2. ASSUME NEW x, locks' = [locks EXCEPT ![i] = x]
      PROVE  \A j \in IntentIds \ {i} : locks'[j] = locks[j]
  BY <1>2, Zenon DEF CustodyTypeOK
<1>3. CASE CancelCoverage(i)
  BY <1>2, <1>3, ZenonT(60) DEF CancelCoverage, UnlockStake
<1>4. ASSUME NEW release, SettleCoverage(i, release)
      PROVE  \A j \in IntentIds \ {i} : locks'[j] = locks[j]
  BY <1>2, <1>4, Zenon DEF SettleCoverage, ShrinkStake
<1> QED
  BY <1>1, <1>3, <1>4, ZenonT(60) DEF Ended

\* A settled dispute is closed together with its lock.
LEMMA ClosedPaired ==
  ASSUME DisputeTypeOK, CustodyTypeOK, NEW i \in IntentIds, Paired(i), InStatus(i, "Settled"),
         NEW s \in {"Released", "Disputed"},
         disputes' = [disputes EXCEPT ![i].status = s],
         locks' = [locks EXCEPT ![i] = NoLock],
         UNCHANGED <<intents, covered>>
  PROVE  /\ Paired(i)'
         /\ \A j \in IntentIds \ {i} : disputes'[j] = disputes[j] /\ locks'[j] = locks[j]
<1>1. locks'[i] = NoLock /\ \A j \in IntentIds \ {i} : locks'[j] = locks[j]
  BY Zenon DEF CustodyTypeOK
<1>2. disputes'[i].status = s /\ \A j \in IntentIds \ {i} : disputes'[j] = disputes[j]
  BY Zenon DEF DisputeTypeOK, InStatus, DisputeIntent
<1>3. i \notin covered
  BY Zenon DEF Paired, InStatus
<1>4. ~InStatus(i, "Pending")' /\ ~InStatus(i, "Settled")' /\ ~Live(i)' /\ i \notin covered'
  BY <1>1, <1>2, <1>3, ZenonT(60) DEF InStatus, Live
<1> QED
  BY <1>1, <1>2, <1>4, ZenonT(60) DEF Paired

\* A new intent is covered, disputed and locked for, or none of these.
LEMMA SignalPaired ==
  ASSUME EscrowInv, RecordsInv, CustodyTypeOK, DisputePairing,
         NEW t \in Users, NEW d \in DepositIds, NEW m \in Methods, NEW a \in Amounts,
         \/ SignalUncovered(t, d, m, a)
         \/ \E o \in Users : SignalCovered(t, d, m, a, o)
  PROVE  DisputePairing'
<1>a. LifecycleInv /\ AccountsInv /\ DisputeTypeOK /\ DisputesFresh
  BY Zenon DEF EscrowInv, RecordsInv
<1>b. SignalIntent(t, d, m, a, TRUE) \/ SignalIntent(t, d, m, a, FALSE)
  BY Zenon DEF SignalUncovered, SignalCovered
<1>c. PICK n \in IntentIds : n = nextIntent
  BY <1>a, <1>b, SignalledFresh, ZenonT(60)
<1> DEFINE new == [owner |-> t, deposit |-> d, method |-> m, amount |-> a, timestamp |-> now]
<1>0. Paired(n) /\ disputes[n] = NoDispute /\ n \in LockIds /\ intents' = [intents EXCEPT ![n] = new]
  <2>1. disputes[n] = NoDispute
    BY <1>a, <1>c, SMTT(60) DEF DisputesFresh, IntentIds
  <2>2. intents' = [intents EXCEPT ![n] = new]
    BY <1>b, <1>c, ZenonT(60) DEF SignalIntent
  <2> QED BY <2>1, <2>2, PairedEach, ZenonT(60)
<1>1. n \notin covered /\ ~Live(n)
  BY <1>0, Zenon DEF Paired, InStatus
<1>2. \A j \in IntentIds \ {n} : intents'[j] = intents[j]
  BY <1>a, <1>0, ZenonT(60) DEF LifecycleInv, IntentsTypeOK
<1>3. CASE SignalUncovered(t, d, m, a)
  <2>1. UNCHANGED <<locks, disputes>> /\ covered' = covered \ {n}
    BY <1>c, <1>3, ZenonT(60) DEF SignalUncovered, SignalIntent, custodyVars, With
  <2>2. Paired(n)'
    BY <1>0, <1>1, <2>1, ZenonT(60) DEF Paired, InStatus, Live
  <2>3. \A j \in IntentIds \ {n} : Paired(j)'
    BY <1>2, <2>1, PairedEach, PairedFrame, ZenonT(60)
  <2> QED BY <2>2, <2>3, PairedEach, ZenonT(60)
<1>4. ASSUME NEW o \in Users, SignalCovered(t, d, m, a, o) PROVE DisputePairing'
  <2> DEFINE x == Opening(t, d, m, a, o)
  <2>0. disputes' = [disputes EXCEPT ![nextIntent] = x] /\ OpenedFor(x, t, d, a, o)
    BY <1>a, <1>4, OpenedDispute, ZenonT(60)
  <2> HIDE DEF x
  <2>1. /\ x \in DisputeIntent
        /\ disputes' = [disputes EXCEPT ![n] = x]
        /\ x.deposit = d /\ x.taker = t /\ x.stakeOwner = o /\ x.lockedAmount = a
        /\ x.status = "Pending"
    BY <1>c, <2>0, ZenonT(60) DEF OpenedFor
  <2>2. /\ covered' = covered \cup {n}
        /\ locks' = [locks EXCEPT ![n] = [owner |-> o, amount |-> a, maturesAt |-> Never]]
    BY <1>c, <1>4, ZenonT(60) DEF SignalCovered, SignalIntent, LockStake, With
  <2>3. /\ disputes'[n] = x /\ x # NoDispute
        /\ \A j \in IntentIds \ {n} : disputes'[j] = disputes[j]
    BY <1>a, <2>1, ZenonT(60) DEF DisputeTypeOK
  <2>4. /\ locks'[n] = [owner |-> o, amount |-> a, maturesAt |-> Never]
        /\ \A j \in IntentIds \ {n} : locks'[j] = locks[j]
    BY <1>0, <2>2, ZenonT(60) DEF CustodyTypeOK
  <2>5. /\ intents'[n] = new /\ new \in Intent
        /\ new.owner = t /\ new.deposit = d /\ new.amount = a
    <3>1. now \in Nat /\ a \in Nat /\ intents \in [IntentIds -> Intent \cup {NoIntent}]
      BY <1>a, SMTT(60) DEF AccountsInv, LifecycleInv, IntentsTypeOK
    <3>2. new \in Intent /\ new.owner = t /\ new.deposit = d /\ new.amount = a
      BY <3>1, Zenon DEF Intent
    <3> HIDE DEF new
    <3> QED BY <1>0, <3>1, <3>2, ZenonT(60)
  <2>6. Paired(n)'
    <3> HIDE DEF new
    <3>1. InStatus(n, "Pending")' /\ ~InStatus(n, "Settled")' /\ Active(n)'
      BY <2>1, <2>3, <2>5, ZenonT(60) DEF InStatus, Active
    <3>2. Secured(n, disputes[n].lockedAmount, Never)'
      BY <2>1, <2>3, <2>4, ZenonT(60) DEF Secured
    <3> QED BY <2>1, <2>2, <2>3, <2>5, <3>1, <3>2, ZenonT(60) DEF Paired
  <2>7. \A j \in IntentIds \ {n} : Paired(j)'
    BY <1>2, <2>2, <2>3, <2>4, PairedEach, PairedFrame, ZenonT(60)
  <2> QED BY <2>6, <2>7, PairedEach, ZenonT(60)
<1> QED
  BY <1>3, <1>4, Zenon

\* Every step that leaves the dispute PDA in control of the vault keeps the pairing.
LEMMA PairingStep ==
  ASSUME EscrowInv, RecordsInv, Protecting', StakeInv, DisputePairing,
         [ProtocolNext]_protocolVars
  PROVE  DisputePairing'
<1>0. /\ LifecycleInv /\ AccountsInv /\ DisputeTypeOK /\ CustodyTypeOK /\ now \in Nat
  BY SMTT(60) DEF EscrowInv, AccountsInv, RecordsInv, StakeInv, CustodyInv
<1>1. CASE ~LifecycleNext
  <2>1. UNCHANGED <<intents, covered, disputes, locks>>
    BY <1>0, <1>1, QuietSteps, ControlKept, ZenonT(60) DEF Quiet
  <2>2. \A i \in IntentIds : Paired(i)'
    BY <2>1, PairedEach, PairedFrame, ZenonT(60)
  <2> QED BY <2>2, PairedEach, ZenonT(60)
<1>2. ASSUME NEW t \in Users, NEW d \in DepositIds, NEW m \in Methods, NEW a \in Amounts,
             SignalUncovered(t, d, m, a)
      PROVE  DisputePairing'
  BY <1>0, <1>2, SignalPaired, ZenonT(60)
<1>3. ASSUME NEW t \in Users, NEW d \in DepositIds, NEW m \in Methods, NEW a \in Amounts,
             NEW o \in Users, SignalCovered(t, d, m, a, o)
      PROVE  DisputePairing'
  BY <1>0, <1>3, SignalPaired, ZenonT(60)
<1>4. ASSUME NEW i \in IntentIds, Ended(i) PROVE DisputePairing'
  <2>1. \A j \in IntentIds \ {i} :
          disputes'[j] = disputes[j] /\ locks'[j] = locks[j] /\ intents'[j] = intents[j]
    BY <1>0, <1>4, EndedDispute, EndedLocks, ZenonT(60) DEF Ended, CloseIntent, LifecycleInv,
       IntentsTypeOK
  <2>2. covered' = covered \ {i}
    BY <1>4, Zenon DEF Ended, CloseIntent
  <2>3. Paired(i)'
    BY <1>0, <1>4, PairedEach, EndedPaired, ZenonT(60)
  <2>4. \A j \in IntentIds \ {i} : Paired(j)'
    BY <2>1, <2>2, PairedEach, PairedFrame, ZenonT(60)
  <2> QED BY <2>3, <2>4, PairedEach, ZenonT(60)
<1>5. ASSUME NEW i \in IntentIds, NEW s \in {"Released", "Disputed"}, InStatus(i, "Settled"),
             disputes' = [disputes EXCEPT ![i].status = s],
             locks' = [locks EXCEPT ![i] = NoLock],
             UNCHANGED <<intents, covered>>
      PROVE  DisputePairing'
  <2>1. Paired(i)' /\ \A j \in IntentIds \ {i} : disputes'[j] = disputes[j] /\ locks'[j] = locks[j]
    BY <1>0, <1>5, PairedEach, ClosedPaired, ZenonT(60)
  <2>2. \A j \in IntentIds \ {i} : Paired(j)'
    BY <1>5, <2>1, PairedEach, PairedFrame, ZenonT(60)
  <2> QED BY <2>1, <2>2, PairedEach, ZenonT(60)
<1>6. ASSUME NEW i \in IntentIds, ReleaseMaturedDispute(i) PROVE DisputePairing'
  BY <1>5, <1>6, ZenonT(60) DEF ReleaseMaturedDispute, UnlockStake, escrowVars, intentVars
<1>7. ASSUME NEW i \in IntentIds, NEW p \in Payments, NEW e \in DisputeIds, SubmitDispute(i, p, e)
      PROVE  DisputePairing'
  BY <1>5, <1>7, ZenonT(60) DEF SubmitDispute, ResolveStake, escrowVars, intentVars
<1> QED
  BY <1>0, <1>1, <1>2, <1>3, <1>4, <1>6, <1>7, LifecycleCases, ZenonT(60)
-----------------------------------------------------------------------------
(* The invariant of the composition.                                       *)

\* The inductive invariant holds in the initial states.
LEMMA ProtocolInitInv == ProtocolInit => ProtocolInv
<1> SUFFICES ASSUME ProtocolInit PROVE ProtocolInv
  BY Zenon
<1>1. StakeInit /\ EscrowInit
  BY Zenon DEF ProtocolInit
<1>2. EscrowInv /\ StakeInv
  BY <1>1, EscrowInitInv, StakeInitInv, ZenonT(60)
<1>3. DisputeTypeOK
  <2>1. admissionsPaused \in BOOLEAN
    BY Zenon DEF ProtocolInit
  <2>2. riskWindow \in [Methods -> (0..MaxRiskWindow) \cup {NoWindow}] /\ optedOut \subseteq DepositIds
    BY Zenon DEF ProtocolInit
  <2>3. /\ disputes \in [IntentIds -> DisputeIntent \cup {NoDispute}]
        /\ evidence \in [DisputeIds -> IntentIds \cup {NoIntent}]
    BY ZenonT(60) DEF ProtocolInit
  <2> QED BY <2>1, <2>2, <2>3, ZenonT(60) DEF DisputeTypeOK
<1>4. \A i \in IntentIds : disputes[i] = NoDispute /\ ~Live(i) /\ i \notin covered
  BY <1>1, SMTT(60) DEF ProtocolInit, StakeInit, EscrowInit, Live
<1>5. \A e \in DisputeIds : evidence[e] = NoIntent
  BY Zenon DEF ProtocolInit
<1>6. RecordsInv
  BY <1>3, <1>4, <1>5, ZenonT(60) DEF RecordsInv, DisputesFresh, EvidencePaysOnce, InStatus
<1>7. \A i \in IntentIds : Paired(i)
  BY <1>4, Zenon DEF Paired, InStatus
<1> QED
  BY <1>2, <1>6, <1>7, PairedEach, ZenonT(60) DEF ProtocolInv

\* Every step keeps the inductive invariant.
LEMMA ProtocolNextInv == ProtocolInv /\ [ProtocolNext]_protocolVars => ProtocolInv'
<1> SUFFICES ASSUME ProtocolInv, [ProtocolNext]_protocolVars PROVE ProtocolInv'
  BY Zenon
<1>1. EscrowInv /\ RecordsInv
  BY Zenon DEF ProtocolInv
<1>2. EscrowInv'
  BY <1>1, EscrowStep, EscrowNextInv, ZenonT(60)
<1>3. RecordsInv'
  BY <1>1, RecordsStep, ZenonT(60)
<1>4. ASSUME Protecting' PROVE StakeInv' /\ DisputePairing'
  <2>1. StakeInv /\ DisputePairing /\ OwnersRecorded
    BY <1>4, ControlKept, PairedOwners, ZenonT(60) DEF ProtocolInv
  <2> QED BY <1>1, <1>2, <1>4, <2>1, CollateralStep, PairingStep, SMTT(60)
<1> QED
  BY <1>2, <1>3, <1>4, ZenonT(60) DEF ProtocolInv

\* In every reachable state of the composition the escrow and the dispute records stand,
\* and while the dispute PDA controls the vault, so do the vault and the pairing of
\* every protected intent with its collateral lock.
THEOREM ProtocolInvariant == ProtocolSpec => []ProtocolInv
BY ProtocolInitInv, ProtocolNextInv, PTL DEF ProtocolSpec

\* Every dispute variable keeps its type, and risk windows their cap.
THEOREM DisputeTypes == ProtocolSpec => []DisputeTypeOK
<1>1. ProtocolInv => DisputeTypeOK
  BY Zenon DEF ProtocolInv, RecordsInv
<1> QED
  BY <1>1, ProtocolInvariant, PTL

\* Disputes, intents and stake locks begin and end together while the dispute
\* PDA controls the vault.
THEOREM DisputePairs == ProtocolSpec => []DisputesArePaired
<1>1. ProtocolInv => DisputesArePaired
  BY ZenonT(60) DEF ProtocolInv, DisputesArePaired
<1> QED
  BY <1>1, ProtocolInvariant, PTL

\* The vault's books stay right under the dispute handlers.
THEOREM DisputeCollateral == ProtocolSpec => []CollateralAccounted
<1>1. ProtocolInv => CollateralAccounted
  BY ZenonT(60) DEF ProtocolInv, CollateralAccounted, StakeInv, CustodyInv
<1> QED
  BY <1>1, ProtocolInvariant, PTL

\* One piece of evidence pays one dispute, over a bound payment only, whoever
\* controls the vault.
THEOREM DisputeEvidence == ProtocolSpec => []EvidencePaysOnce
<1>1. ProtocolInv => EvidencePaysOnce
  BY Zenon DEF ProtocolInv, RecordsInv
<1> QED
  BY <1>1, ProtocolInvariant, PTL
-----------------------------------------------------------------------------
(* When collateral may go.                                                 *)

\* What CollateralHeldThroughRisk says of one step.
HeldStep ==
  \A i \in IntentIds :
    Protecting /\ InStatus(i, "Settled") /\ locks'[i] # locks[i] =>
      \/ now >= disputes[i].eligibleAt
      \/ /\ disputes'[i].status = "Disputed"
         /\ claim'[disputes[i].depositor] =
              claim[disputes[i].depositor] + disputes[i].releaseAmount

\* A step that moves the lock of a settled intent waits for its window or is its dispute.
LEMMA HeldOfStep ==
  ASSUME ProtocolInv, [ProtocolNext]_protocolVars
  PROVE  HeldStep
<1> SUFFICES ASSUME NEW i \in IntentIds, Protecting, InStatus(i, "Settled"), locks'[i] # locks[i]
             PROVE  \/ now >= disputes[i].eligibleAt
                    \/ /\ disputes'[i].status = "Disputed"
                       /\ claim'[disputes[i].depositor] =
                            claim[disputes[i].depositor] + disputes[i].releaseAmount
  BY ZenonT(60) DEF HeldStep
<1>0. /\ LifecycleInv /\ DisputeTypeOK /\ CustodyTypeOK /\ disputes[i] \in DisputeIntent
      /\ i < nextIntent /\ i \in LockIds /\ nextIntent \in Nat
  BY SMTT(60) DEF ProtocolInv, EscrowInv, LifecycleInv, IntentsTypeOK, RecordsInv, DisputesFresh,
         StakeInv, CustodyInv, InStatus, DisputeTypeOK
<1>1. LifecycleNext
  BY ControlKept, Zenon
<1>2. ASSUME NEW j \in LockIds, NEW x, locks' = [locks EXCEPT ![j] = x] PROVE j = i
  BY <1>0, <1>2, ZenonT(60) DEF CustodyTypeOK
<1>3. ASSUME NEW t, NEW d, NEW m, NEW a, SignalUncovered(t, d, m, a) PROVE FALSE
  BY <1>3, ZenonT(60) DEF SignalUncovered, custodyVars
<1>4. ASSUME NEW t, NEW d, NEW m, NEW a, NEW o, SignalCovered(t, d, m, a, o) PROVE FALSE
  <2>1. nextIntent \in LockIds
    BY <1>0, <1>4, SignalledFresh, ZenonT(60) DEF SignalCovered
  <2>2. \E x : locks' = [locks EXCEPT ![nextIntent] = x]
    BY <1>4, Zenon DEF SignalCovered, LockStake
  <2>3. nextIntent = i
    BY <1>2, <2>1, <2>2, ZenonT(60)
  <2> QED BY <1>0, <2>3, SMTT(60)
<1>5. ASSUME NEW j \in IntentIds, Ended(j) PROVE FALSE
  <2>1. i = j
    BY <1>0, <1>5, EndedLocks, ZenonT(60)
  <2>2. UNCHANGED custodyVars \/ InStatus(j, "Pending")
    BY <1>5, ZenonT(60) DEF Ended, CancelCoverage, SettleCoverage
  <2> QED BY <2>1, <2>2, ZenonT(60) DEF custodyVars, InStatus
<1>6. ASSUME NEW j \in IntentIds, ReleaseMaturedDispute(j) PROVE now >= disputes[i].eligibleAt
  <2>1. j = i
    BY <1>2, <1>6, ZenonT(60) DEF ReleaseMaturedDispute, UnlockStake
  <2> QED BY <1>6, <2>1, ZenonT(60) DEF ReleaseMaturedDispute
<1>7. ASSUME NEW j \in IntentIds, NEW p \in Payments, NEW e \in DisputeIds, SubmitDispute(j, p, e)
      PROVE  /\ disputes'[i].status = "Disputed"
             /\ claim'[disputes[i].depositor] =
                  claim[disputes[i].depositor] + disputes[i].releaseAmount
  <2>1. j = i
    BY <1>2, <1>7, ZenonT(60) DEF SubmitDispute, ResolveStake
  <2>2. /\ disputes' = [disputes EXCEPT ![i].status = "Disputed"]
        /\ claim' = [b \in Users |->
                       claim[b] + Award(disputes[i].depositor, disputes[i].releaseAmount)[b]]
    BY <1>7, <2>1, ZenonT(60) DEF SubmitDispute, ResolveStake
  <2>3. disputes[i].depositor \in Users
    BY <1>0, Zenon DEF DisputeIntent
  <2>4. disputes'[i].status = "Disputed"
    BY <1>0, <2>2, ZenonT(60) DEF DisputeTypeOK, DisputeIntent
  <2> QED BY <2>2, <2>3, <2>4, ZenonT(60) DEF Award
<1> QED
  BY <1>0, <1>1, <1>3, <1>4, <1>5, <1>6, <1>7, LifecycleCases, ZenonT(60)

\* Settled collateral is gone only after its risk window, or into the maker's
\* claim.
THEOREM CollateralHeld == ProtocolSpec => CollateralHeldThroughRisk
<1>1. ProtocolInv /\ [ProtocolNext]_protocolVars => [HeldStep]_protocolVars
  BY HeldOfStep, ZenonT(60)
<1>2. CollateralHeldThroughRisk <=> [][HeldStep]_protocolVars
  BY PTL DEF CollateralHeldThroughRisk, HeldStep
<1> QED
  BY <1>1, <1>2, ProtocolInvariant, PTL DEF ProtocolSpec
-----------------------------------------------------------------------------
(* What collateral is worth.                                               *)

\* What CollateralMatchesLoss says of one intent in one step.
MatchesLoss(i) ==
  LET d == disputes[i].deposit IN
  /\ disputes'[i].releaseAmount = depositVault[d] - depositVault'[d]
  /\ disputes'[i].releaseAmount =
       remaining[d] + outstanding[d] - (remaining'[d] + outstanding'[d])
  /\ locks'[i].amount = disputes'[i].releaseAmount

\* Both halves of a settlement are for the same release.
LEMMA SettlementMatches ==
  ASSUME ProtocolInv, NEW i \in IntentIds, Active(i), NEW release \in Nat,
         SettleCoverage(i, release),
         DepositSettle(intents[i].deposit, intentLocks[i].amount, release)
  PROVE  MatchesLoss(i)
<1> DEFINE d == intents[i].deposit
           a == intentLocks[i].amount
<1>0. /\ LedgerInv /\ LifecycleInv /\ DisputeTypeOK /\ CustodyTypeOK
      /\ disputes[i].deposit = d /\ i \in LockIds
  BY Zenon DEF ProtocolInv, EscrowInv, RecordsInv, Protecting, StakeInv, CustodyInv,
     SettleCoverage
<1>1. d \in DepositIds /\ a \in Nat
  BY <1>0, LiveLockFacts, ZenonT(60)
<1>2. /\ remaining[d] \in Nat /\ outstanding[d] \in Nat /\ depositVault[d] \in Nat
      /\ remaining'[d] = remaining[d] + (a - release) /\ outstanding'[d] = outstanding[d] - a
      /\ depositVault'[d] = depositVault[d] - release
  BY <1>0, <1>1, ZenonT(60) DEF LedgerInv, BooksTypeOK, DepositSettle
<1>3. disputes'[i].releaseAmount = release
  <2>1. disputes[i] \in DisputeIntent
    BY <1>0, ZenonT(60) DEF SettleCoverage, InStatus, DisputeTypeOK
  <2>2. disputes' = [disputes EXCEPT ![i] =
                       [@ EXCEPT !.status = "Settled", !.releaseAmount = release,
                                 !.eligibleAt = now + disputes[i].riskWindow]]
    BY Zenon DEF SettleCoverage
  <2>3. disputes'[i] = [disputes[i] EXCEPT !.status = "Settled", !.releaseAmount = release,
                                           !.eligibleAt = now + disputes[i].riskWindow]
    BY <1>0, <2>2, ZenonT(60) DEF DisputeTypeOK
  <2> DEFINE x == disputes[i]
             until == now + disputes[i].riskWindow
  <2>4. x \in DisputeIntent
        /\ disputes'[i] = [x EXCEPT !.status = "Settled", !.releaseAmount = release,
                                    !.eligibleAt = until]
    BY <2>1, <2>3, ZenonT(60)
  <2> HIDE DEF x, until
  <2> QED BY <2>4, SMTT(60) DEF DisputeIntent
<1>4. locks'[i].amount = release
  <2>1. locks[i] \in StakeLock
    BY <1>0, Zenon DEF SettleCoverage, Live, CustodyTypeOK
  <2>2. PICK m : locks' = [locks EXCEPT ![i] = [@ EXCEPT !.amount = release, !.maturesAt = m]]
    BY Zenon DEF SettleCoverage, ShrinkStake
  <2>3. locks'[i] = [locks[i] EXCEPT !.amount = release, !.maturesAt = m]
    BY <1>0, <2>2, ZenonT(60) DEF CustodyTypeOK
  <2> DEFINE l == locks[i]
  <2>4. l \in StakeLock /\ locks'[i] = [l EXCEPT !.amount = release, !.maturesAt = m]
    BY <2>1, <2>3, ZenonT(60)
  <2> HIDE DEF l
  <2> QED BY <2>4, SMTT(60) DEF StakeLock
<1> DEFINE r == remaining[d]
           o == outstanding[d]
           v == depositVault[d]
<1>5. r \in Nat /\ o \in Nat /\ v \in Nat
  BY <1>2, ZenonT(60)
<1> HIDE DEF d, a, r, o, v
<1>6. /\ release = v - (v - release)
      /\ release = r + o - ((r + (a - release)) + (o - a))
  BY <1>1, <1>5, SMTT(60)
<1> QED
  BY <1>0, <1>2, <1>3, <1>4, <1>6, ZenonT(60) DEF MatchesLoss, r, o, v

\* Only the settlement of a covered intent settles its dispute.
LEMMA MatchesOfStep ==
  ASSUME ProtocolInv, [ProtocolNext]_protocolVars, NEW i \in IntentIds, InStatus(i, "Pending"),
         disputes'[i].status = "Settled"
  PROVE  MatchesLoss(i)
<1>0. /\ LifecycleInv /\ DisputeTypeOK /\ disputes[i] \in DisputeIntent
      /\ i < nextIntent /\ nextIntent \in Nat /\ disputes[i].status = "Pending"
  BY SMTT(60) DEF ProtocolInv, EscrowInv, LifecycleInv, IntentsTypeOK, RecordsInv, DisputesFresh,
         InStatus, DisputeTypeOK
<1>1. disputes'[i] # disputes[i]
  <2>1. "Pending" # "Settled"
    OBVIOUS
  <2> QED BY <1>0, <2>1, ZenonT(60)
<1>2. LifecycleNext
  BY <1>0, <1>1, QuietSteps, ZenonT(60) DEF Quiet
<1>3. ASSUME NEW j \in IntentIds, NEW s, disputes' = [disputes EXCEPT ![j].status = s]
      PROVE  j = i /\ s = "Settled"
  <2>1. j = i
    BY <1>0, <1>1, <1>3, ZenonT(60) DEF DisputeTypeOK
  <2>2. disputes'[i] = [disputes[i] EXCEPT !.status = s]
    BY <1>0, <1>3, <2>1, ZenonT(60) DEF DisputeTypeOK
  <2> QED BY <1>0, <2>1, <2>2, ZenonT(60) DEF DisputeIntent
<1>4. ASSUME NEW t, NEW d, NEW m, NEW a, SignalUncovered(t, d, m, a) PROVE FALSE
  BY <1>1, <1>4, ZenonT(60) DEF SignalUncovered
<1>5. ASSUME NEW t, NEW d, NEW m, NEW a, NEW o, SignalCovered(t, d, m, a, o) PROVE FALSE
  <2>1. i # nextIntent
    BY <1>0, SMTT(60)
  <2>2. \E x : disputes' = [disputes EXCEPT ![nextIntent] = x]
    BY <1>5, Zenon DEF SignalCovered
  <2> QED BY <1>0, <1>1, <2>1, <2>2, ZenonT(60) DEF DisputeTypeOK
<1>6. ASSUME NEW j \in IntentIds, ReleaseMaturedDispute(j) PROVE FALSE
  <2>1. "Released" # "Settled"
    OBVIOUS
  <2> QED BY <1>3, <1>6, <2>1, ZenonT(60) DEF ReleaseMaturedDispute
<1>7. ASSUME NEW j \in IntentIds, NEW p, NEW e, SubmitDispute(j, p, e) PROVE FALSE
  <2>1. "Disputed" # "Settled"
    OBVIOUS
  <2>2. disputes' = [disputes EXCEPT ![j].status = "Disputed"]
    BY <1>7, Zenon DEF SubmitDispute
  <2> QED BY <1>3, <2>1, <2>2, ZenonT(60)
<1>8. ASSUME NEW j \in IntentIds, CoverageCancelled(j) PROVE FALSE
  <2>1. "Cancelled" # "Settled"
    OBVIOUS
  <2> QED BY <1>1, <1>3, <1>8, <2>1, ZenonT(60) DEF CoverageCancelled, CancelCoverage
<1>9. ASSUME NEW j \in IntentIds, NEW release \in Nat, CoverageSettled(j, release), Active(j),
             DepositSettle(intents[j].deposit, intentLocks[j].amount, release)
      PROVE  MatchesLoss(i)
  <2>1. SettleCoverage(j, release)
    BY <1>1, <1>9, ZenonT(60) DEF CoverageSettled
  <2>2. \E x : disputes' = [disputes EXCEPT ![j] = x]
    BY <2>1, Zenon DEF SettleCoverage
  <2>3. j = i
    BY <1>0, <1>1, <2>2, ZenonT(60) DEF DisputeTypeOK
  <2> QED BY <1>9, <2>1, <2>3, SettlementMatches, ZenonT(60)
<1>10. ASSUME NEW j \in IntentIds, NEW u \in Users, Release(u, j) PROVE MatchesLoss(i)
  <2>1. intents[j].amount \in Nat
    BY <1>0, <1>10, ZenonT(60) DEF Release, ManualRelease, LifecycleInv, IntentsTypeOK, Active, Intent
  <2> QED BY <1>9, <1>10, <2>1, ZenonT(60) DEF Release, ManualRelease
<1>11. ASSUME NEW j \in IntentIds, NEW p \in Payments, NEW attested \in Amounts,
              Fulfill(j, p, attested)
       PROVE  MatchesLoss(i)
  <2>1. intents[j].amount \in Nat
    BY <1>0, <1>11, ZenonT(60) DEF Fulfill, FulfillIntent, LifecycleInv, IntentsTypeOK, Active, Intent
  <2>2. Released(j, attested) \in Nat
    BY <2>1, ZenonT(60) DEF Released
  <2> QED BY <1>9, <1>11, <2>2, ZenonT(60) DEF Fulfill, FulfillIntent
<1> QED
  BY <1>2, <1>4, <1>5, <1>6, <1>7, <1>8, <1>10, <1>11, ZenonT(60) DEF LifecycleNext, Cancel, Prune

\* The collateral kept for a settled intent is what its settlement cost the
\* maker.
THEOREM CollateralWorth == ProtocolSpec => CollateralMatchesLoss
<1> DEFINE Step == \A i \in IntentIds :
                     InStatus(i, "Pending") /\ disputes'[i].status = "Settled" => MatchesLoss(i)
<1>1. ProtocolInv /\ [ProtocolNext]_protocolVars => [Step]_protocolVars
  BY MatchesOfStep, Zenon
<1>2. CollateralMatchesLoss <=> [][Step]_protocolVars
  BY PTL DEF CollateralMatchesLoss, MatchesLoss
<1> HIDE DEF Step
<1> QED
  BY <1>1, <1>2, ProtocolInvariant, PTL DEF ProtocolSpec
=============================================================================
