------------------------------ MODULE Protocol ------------------------------
(***************************************************************************)
(* Dispute protection over the escrow and the stake vault: an intent on a  *)
(* protected deposit is admitted only with stake locked for its full       *)
(* amount; the lock follows the intent to its end, and after settlement it *)
(* is released when the risk window has passed or paid to the maker on     *)
(* valid evidence (instructions/dispute.rs, the dispute halves of          *)
(* orchestrator.rs and settlement.rs, the DisputeIntent methods of         *)
(* state.rs).                                                              *)
(*                                                                         *)
(* prepare_dispute refuses to run unless the matching signal_intent is the *)
(* next instruction of the transaction, and cancel_dispute unless the      *)
(* matching cancel_intent is; a transaction commits as a whole, so each    *)
(* pair is one action.  A stake lock is named by the intent's hash.        *)
(***************************************************************************)
EXTENDS StakeVault, Escrow

CONSTANTS
  RiskWindows,   \* risk windows governance passes
  MaxRiskWindow, \* MAX_RISK_WINDOW_SECONDS
  Vetted,        \* <<deposit, taker>>: an enabled whitelist admits the taker
  DisputeIds,    \* dispute nullifiers
  NoWindow, NoDispute  \* PDAs that do not exist

DisputeStatus == {"Pending", "Cancelled", "Settled", "Released", "Disputed"}

DisputeIntent ==
  [deposit : DepositIds, taker : Users, stakeOwner : Users, depositor : Users,
   lockedAmount : Nat, status : DisputeStatus, riskWindow : Nat, eligibleAt : Nat,
   releaseAmount : Nat]

ASSUME ProtocolAssumption ==
  /\ IntentIds \subseteq LockIds
  /\ RiskWindows \subseteq Nat
  /\ MaxRiskWindow \in Nat
  /\ Vetted \subseteq DepositIds \X Users
  /\ NoWindow \notin Nat
  /\ NoDispute \notin DisputeIntent

VARIABLES
  riskWindow,       \* RiskWindow PDAs: seconds, per payment method
  admissionsPaused, \* dispute_config.admissions_paused
  optedOut,         \* deposits whose dispute setting is disabled
  disputes,         \* DisputeIntent PDAs, never closed
  evidence          \* DisputeNullifier PDAs: nullifier -> intent

disputeConfigVars == <<riskWindow, admissionsPaused, optedOut>>
disputeVars  == <<disputeConfigVars, disputes, evidence>>
protocolVars == <<stakeVars, escrowVars, disputeVars>>

\* Every dispute variable has its type, and risk windows are within their cap.
DisputeTypeOK ==
  /\ riskWindow \in [Methods -> (0..MaxRiskWindow) \cup {NoWindow}]
  /\ admissionsPaused \in BOOLEAN
  /\ optedOut \subseteq DepositIds
  /\ disputes \in [IntentIds -> DisputeIntent \cup {NoDispute}]
  /\ evidence \in [DisputeIds -> IntentIds \cup {NoIntent}]

ProtocolTypeOK == StakeTypeOK /\ EscrowTypeOK /\ DisputeTypeOK

ProtocolInit ==
  /\ StakeInit
  /\ EscrowInit
  /\ riskWindow = [m \in Methods |-> NoWindow]
  /\ admissionsPaused = FALSE
  /\ optedOut = {}
  /\ disputes = [i \in IntentIds |-> NoDispute]
  /\ evidence = [e \in DisputeIds |-> NoIntent]
-----------------------------------------------------------------------------
(* Dispute configuration.                                                  *)

SetRiskWindow(m, seconds) ==
  /\ seconds \in 0..MaxRiskWindow
  /\ riskWindow' = [riskWindow EXCEPT ![m] = seconds]
  /\ UNCHANGED <<stakeVars, escrowVars, admissionsPaused, optedOut, disputes, evidence>>

SetDisputeAdmissionsPaused(paused) ==
  /\ admissionsPaused' = paused
  /\ UNCHANGED <<stakeVars, escrowVars, riskWindow, optedOut, disputes, evidence>>

SetDepositDisputeProtection(u, d, enabled) ==
  /\ Open(d)
  /\ u \in {deposits[d].depositor, deposits[d].delegate}
  /\ optedOut' = With(optedOut, d, ~enabled)
  /\ UNCHANGED <<stakeVars, escrowVars, riskWindow, admissionsPaused, disputes, evidence>>
-----------------------------------------------------------------------------
(* DisputeIntent transitions and the stake half of the intent handlers.    *)

InStatus(i, s) == disputes[i] # NoDispute /\ disputes[i].status = s

\* Mutant: coverage can be cancelled only while the dispute PDA is in control.
CancelCoverageInControl(i) ==
  /\ InStatus(i, "Pending")
  /\ controller = DisputeConfig
  /\ Live(i)
  /\ locks[i].owner = disputes[i].stakeOwner
  /\ disputes' = [disputes EXCEPT ![i].status = "Cancelled"]
  /\ UnlockStake(disputes[i].stakeOwner, i)

\* DisputeIntent::cancel, with the whole lock returned to its owner's free stake.
CancelCoverage(i) ==
  /\ InStatus(i, "Pending")
  /\ Live(i)
  /\ locks[i].owner = disputes[i].stakeOwner
  /\ disputes' = [disputes EXCEPT ![i].status = "Cancelled"]
  /\ UnlockStake(disputes[i].stakeOwner, i)

\* The release of every settled lock falls before the model's clock stops.
MaturesWithinHorizon(i) == now + disputes[i].riskWindow <= MaxTime

\* settle_dispute_if_covered and DisputeIntent::settle: the lock shrinks to the
\* release and matures when the snapshotted risk window has passed.
SettleCoverage(i, release) ==
  /\ InStatus(i, "Pending")
  /\ MaturesWithinHorizon(i)
  /\ controller = DisputeConfig
  /\ disputes[i].deposit = intents[i].deposit
  /\ disputes[i].taker = intents[i].owner
  /\ Live(i)
  /\ locks[i].owner = disputes[i].stakeOwner
  /\ ShrinkStake(disputes[i].stakeOwner, i, release, now + disputes[i].riskWindow)
  /\ disputes' = [disputes EXCEPT ![i] =
                    [@ EXCEPT !.status = "Settled", !.releaseAmount = release,
                              !.eligibleAt = now + disputes[i].riskWindow]]
-----------------------------------------------------------------------------
(* Intent handlers, both halves.                                           *)

frameVars == <<delegationVars, handoverVars, disputeConfigVars, evidence>>

\* validate_lifecycle_admission without collateral: no policy, a whitelist
\* policy that admits the taker (the whitelist account is optional, and absent
\* it counts as disabled), a vetted taker, an opted-out deposit, or a payment
\* method whose risk window is zero.
AdmittedUncovered(t, d, m) ==
  \/ orchestrator.policy \in {"None", "Whitelist"}
  \/ <<d, t>> \in Vetted
  \/ d \in optedOut
  \/ riskWindow[m] = 0

SignalUncovered(t, d, m, a) ==
  /\ AdmittedUncovered(t, d, m)
  /\ SignalIntent(t, d, m, a, FALSE)
  /\ UNCHANGED <<custodyVars, frameVars, disputes>>

\* The selection account is optional, and absent it the taker's own stake is used.
StakeOwners(t) == {t} \cup ({selected[t]} \ {NoOne})

\* prepare_dispute followed by signal_intent.  The opt-out account is optional
\* in both, so an opted-out deposit does not refuse collateral.
SignalCovered(t, d, m, a, o) ==
  /\ ~admissionsPaused
  /\ controller = DisputeConfig
  /\ orchestrator.policy = "WhitelistAndDispute"
  /\ riskWindow[m] # NoWindow
  /\ riskWindow[m] > 0
  /\ o \in StakeOwners(t)
  /\ SignalIntent(t, d, m, a, TRUE)
  /\ disputes[nextIntent] = NoDispute
  /\ LockStake(o, nextIntent, a, Never)
  /\ disputes' = [disputes EXCEPT ![nextIntent] =
       [deposit |-> d, taker |-> t, stakeOwner |-> o, depositor |-> deposits[d].depositor,
        lockedAmount |-> a, status |-> "Pending", riskWindow |-> riskWindow[m],
        eligibleAt |-> 0, releaseAmount |-> 0]]
  /\ UNCHANGED frameVars

\* The stake half of cancelling or pruning, and of settling, an intent.
CoverageCancelled(i) ==
  /\ \/ i \in covered /\ CancelCoverage(i)
     \/ i \notin covered /\ UNCHANGED <<custodyVars, disputes>>
  /\ UNCHANGED frameVars

CoverageSettled(i, release) ==
  /\ \/ i \in covered /\ SettleCoverage(i, release)
     \/ i \notin covered /\ UNCHANGED <<custodyVars, disputes>>
  /\ UNCHANGED frameVars

\* cancel_intent, after cancel_dispute when the intent is covered.
Cancel(t, i) == CancelIntent(t, i) /\ CoverageCancelled(i)

\* Mutant: pruning forgets the dispute half.
PruneUncovered(i) == PruneExpiredIntent(i) /\ UNCHANGED <<custodyVars, disputes, frameVars>>

Prune(i) == PruneExpiredIntent(i) /\ CoverageCancelled(i)

\* Mutant: coverage settles with the intent amount instead of the release.
FulfillInFull(i, p, attested) ==
  FulfillIntent(i, p, attested) /\ CoverageSettled(i, intents[i].amount)

Fulfill(i, p, attested) ==
  FulfillIntent(i, p, attested) /\ CoverageSettled(i, Released(i, attested))

Release(u, i) == ManualRelease(u, i) /\ CoverageSettled(i, intents[i].amount)
-----------------------------------------------------------------------------
(* The end of coverage.                                                    *)

\* Mutants: collateral is released one instant early, or only while admissions
\* are open.
ReleaseEarly(i) ==
  /\ InStatus(i, "Settled")
  /\ now + 1 >= disputes[i].eligibleAt
  /\ Live(i)
  /\ disputes' = [disputes EXCEPT ![i].status = "Released"]
  /\ UnlockStake(disputes[i].stakeOwner, i)
  /\ UNCHANGED <<now, escrowVars, frameVars>>
ReleaseUnlessPaused(i) ==
  /\ InStatus(i, "Settled")
  /\ ~admissionsPaused
  /\ now >= disputes[i].eligibleAt
  /\ Live(i)
  /\ disputes' = [disputes EXCEPT ![i].status = "Released"]
  /\ UnlockStake(disputes[i].stakeOwner, i)
  /\ UNCHANGED <<now, escrowVars, frameVars>>

\* DisputeIntent::release.  The position is the recorded stake owner's; the
\* handler compares the amounts, not the owner of the lock.
ReleaseMaturedDispute(i) ==
  /\ InStatus(i, "Settled")
  /\ now >= disputes[i].eligibleAt
  /\ Live(i)
  /\ locks[i].amount = disputes[i].releaseAmount
  /\ disputes' = [disputes EXCEPT ![i].status = "Released"]
  /\ UnlockStake(disputes[i].stakeOwner, i)
  /\ UNCHANGED <<now, escrowVars, frameVars>>

\* The whole award goes to one beneficiary.
Award(b, a) == [u \in Users |-> IF u = b THEN a ELSE 0]

\* Mutant: evidence may be reused.
SubmitDisputeReplayed(i, p, e) ==
  /\ InStatus(i, "Settled")
  /\ paymentIntent[p] = i
  /\ intentPayment[i] = p
  /\ Live(i)
  /\ disputes' = [disputes EXCEPT ![i].status = "Disputed"]
  /\ ResolveStake(disputes[i].stakeOwner, i,
                  Award(disputes[i].depositor, disputes[i].releaseAmount))
  /\ claimOpen' = claimOpen \cup {disputes[i].depositor}
  /\ evidence' = [evidence EXCEPT ![e] = i]
  /\ UNCHANGED <<now, escrowVars, delegationVars, handoverVars, disputeConfigVars>>

\* DisputeIntent::dispute on threshold-signed evidence `e` about payment `p`.
SubmitDispute(i, p, e) ==
  /\ InStatus(i, "Settled")
  /\ controller = DisputeConfig
  /\ paymentIntent[p] = i
  /\ intentPayment[i] = p
  /\ evidence[e] = NoIntent
  /\ Live(i)
  /\ locks[i].owner = disputes[i].stakeOwner
  /\ locks[i].amount = disputes[i].releaseAmount
  /\ disputes' = [disputes EXCEPT ![i].status = "Disputed"]
  /\ ResolveStake(disputes[i].stakeOwner, i,
                  Award(disputes[i].depositor, disputes[i].releaseAmount))
  /\ claimOpen' = claimOpen \cup {disputes[i].depositor}
  /\ evidence' = [evidence EXCEPT ![e] = i]
  /\ UNCHANGED <<now, escrowVars, delegationVars, handoverVars, disputeConfigVars>>
-----------------------------------------------------------------------------
ProtocolTick == Tick /\ UNCHANGED <<custodyVars, delegationVars, handoverVars, escrowVars, disputeVars>>

\* Handlers that touch the stake vault or the escrow alone.
VaultNext ==
  /\ OwnerNext \/ ControllerNext \/ HandoverNext
  /\ UNCHANGED <<escrowVars, disputeVars>>

GuardianNext ==
  \E g \in Users, i \in IntentIds, extra \in 1..MaxLifetime : ExtendIntentExpiry(g, i, extra)

DepositNext ==
  /\ MakerNext \/ GovernanceNext \/ GuardianNext
  /\ UNCHANGED <<custodyVars, delegationVars, handoverVars, disputeVars>>

DisputeConfigNext ==
  \/ \E m \in Methods, seconds \in RiskWindows : SetRiskWindow(m, seconds)
  \/ \E paused \in BOOLEAN : SetDisputeAdmissionsPaused(paused)
  \/ \E u \in Users, d \in DepositIds, enabled \in BOOLEAN :
       SetDepositDisputeProtection(u, d, enabled)

LifecycleNext ==
  \/ \E t \in Users, d \in DepositIds, m \in Methods, a \in Amounts :
       \/ SignalUncovered(t, d, m, a)
       \/ \E o \in Users : SignalCovered(t, d, m, a, o)
  \/ \E i \in IntentIds :
       \/ \E u \in Users : Cancel(u, i) \/ Release(u, i)
       \/ Prune(i)
       \/ \E p \in Payments, attested \in Amounts : Fulfill(i, p, attested)
       \/ ReleaseMaturedDispute(i)
       \/ \E p \in Payments, e \in DisputeIds : SubmitDispute(i, p, e)

ProtocolNext ==
  ProtocolTick \/ VaultNext \/ DepositNext \/ DisputeConfigNext \/ LifecycleNext

ProtocolSpec == ProtocolInit /\ [][ProtocolNext]_protocolVars

\* Time passes; expired intents are pruned and matured collateral is released
\* by whoever wants the liquidity or the stake back: both calls are
\* permissionless.
ProtocolFairness ==
  /\ WF_now(ProtocolTick)
  /\ \A i \in IntentIds :
       WF_protocolVars(Prune(i)) /\ WF_protocolVars(ReleaseMaturedDispute(i))

FairProtocolSpec == ProtocolSpec /\ ProtocolFairness
-----------------------------------------------------------------------------
(* Correctness of the composition.  Dispute locks belong to the dispute    *)
(* PDA; while it is the stake controller nobody else can touch them.       *)

Protecting == controller = DisputeConfig

Secured(i, a, m) ==
  locks[i] = [owner |-> disputes[i].stakeOwner, amount |-> a, maturesAt |-> m]

\* A dispute is pending exactly while its covered intent is live, with
\* unmatured collateral for the full amount; once settled, the collateral is
\* the settled release and matures at the eligibility boundary; in a terminal
\* status there is no stake lock at all.
DisputePairing ==
  \A i \in IntentIds :
    /\ i \in covered <=> InStatus(i, "Pending")
    /\ InStatus(i, "Pending") =>
         /\ Active(i)
         /\ disputes[i].lockedAmount = intents[i].amount
         /\ disputes[i].deposit = intents[i].deposit
         /\ disputes[i].taker = intents[i].owner
         /\ Secured(i, disputes[i].lockedAmount, Never)
    /\ InStatus(i, "Settled") =>
         /\ ~Active(i)
         /\ disputes[i].releaseAmount \in 1..disputes[i].lockedAmount
         /\ Secured(i, disputes[i].releaseAmount, disputes[i].eligibleAt)
    /\ Live(i) => InStatus(i, "Pending") \/ InStatus(i, "Settled")

\* A dispute-protection intent and its stake lock exist together and end
\* together as long as the dispute PDA controls the vault.
DisputesArePaired == Protecting => DisputePairing

\* The stake vault's own bookkeeping survives the dispute handlers.
CollateralAccounted == Protecting => LockedIsSumOfLocks /\ LockedWithinBalance

\* A controller handover strands nobody: settlement and disputes stop for
\* covered intents, but an intent whose collateral the successor left in place
\* can still be cancelled or pruned, and settled collateral released, whoever
\* controls the vault (settle_dispute_if_covered, which asks for the dispute
\* PDA, against cancel_dispute, prune_expired_intent and
\* release_matured_dispute, which do not).
ExitsSurviveHandover ==
  \A i \in IntentIds :
    /\ Active(i) /\ (i \in covered => Live(i)) =>
         /\ ENABLED Cancel(intents[i].owner, i)
         /\ now > intentLocks[i].expiry => ENABLED Prune(i)
    /\ InStatus(i, "Settled") /\ Live(i) /\ now >= disputes[i].eligibleAt
         /\ locks[i].amount = disputes[i].releaseAmount => ENABLED ReleaseMaturedDispute(i)

\* Each piece of evidence pays for one dispute, and a paid dispute was settled
\* by a payment that is bound to its intent: a manual release is never disputed.
EvidencePaysOnce ==
  /\ \A i \in IntentIds :
       InStatus(i, "Disputed") <=> \E e \in DisputeIds : evidence[e] = i
  /\ \A e, f \in DisputeIds : evidence[e] # NoIntent /\ evidence[e] = evidence[f] => e = f
  /\ \A i \in IntentIds : InStatus(i, "Disputed") => intentPayment[i] # NoPayment

\* A dispute is about an intent that has been signalled.
DisputesFresh == \A i \in IntentIds : disputes[i] # NoDispute => i < nextIntent

\* The dispute records, whoever controls the vault.
RecordsInv == DisputeTypeOK /\ DisputesFresh /\ EvidencePaysOnce

\* The inductive invariant of the composition: the escrow and the records stand
\* whoever controls the vault; the vault's own invariant and the pairing stand
\* as long as the dispute PDA does.
ProtocolInv ==
  /\ EscrowInv
  /\ RecordsInv
  /\ Protecting => StakeInv /\ DisputePairing

\* Collateral is never freed early: a settled lock is gone only after the risk
\* window that was snapshotted at admission, or through a paid dispute.
CollateralHeldThroughRisk ==
  [][\A i \in IntentIds :
       Protecting /\ InStatus(i, "Settled") /\ locks'[i] # locks[i] =>
         \/ now >= disputes[i].eligibleAt
         \/ /\ disputes'[i].status = "Disputed"
            /\ claim'[disputes[i].depositor] =
                 claim[disputes[i].depositor] + disputes[i].releaseAmount]_protocolVars

\* The collateral kept for a settled intent, and with it the award of a later
\* dispute, is exactly what the settlement took out of the maker's deposit.
CollateralMatchesLoss ==
  [][\A i \in IntentIds :
       InStatus(i, "Pending") /\ disputes'[i].status = "Settled" =>
         LET d == disputes[i].deposit IN
         /\ disputes'[i].releaseAmount = depositVault[d] - depositVault'[d]
         /\ disputes'[i].releaseAmount =
              remaining[d] + outstanding[d] - (remaining'[d] + outstanding'[d])
         /\ locks'[i].amount = disputes'[i].releaseAmount]_protocolVars

\* Every settled collateral is eventually released or paid out.
CollateralComesBack ==
  \A i \in IntentIds :
    InStatus(i, "Settled") ~> InStatus(i, "Released") \/ InStatus(i, "Disputed")
=============================================================================
