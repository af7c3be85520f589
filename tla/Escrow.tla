------------------------------- MODULE Escrow -------------------------------
(***************************************************************************)
(* The escrow and the intent lifecycle of the orchestrator: maker deposits *)
(* with their own token vaults, intents that lock deposit liquidity until  *)
(* they are cancelled, pruned after expiry or settled, and the one-to-one  *)
(* payment bindings (instructions/escrow.rs, orchestrator.rs,              *)
(* settlement.rs, governance.rs and the Deposit methods of state.rs).      *)
(*                                                                         *)
(* A handler is one atomic instruction.  Intent handlers also have a       *)
(* dispute half when the intent is covered; here that half is left open,   *)
(* and module Protocol conjoins it.  An intent is named by its nonce: the  *)
(* intent hash is a digest of the orchestrator key and the nonce.          *)
(***************************************************************************)
EXTENDS SolanaChain, Sums

CONSTANTS
  MaxDeposits,    \* bound on the deposits a model creates
  MaxIntents,     \* bound on the intents a model signals
  Methods,        \* payment methods
  Payments,       \* payment nullifiers
  MaxLifetime,    \* MAX_INTENT_LIFETIME_SECONDS
  Terms,          \* deposit terms makers pass
  EscrowSettings, OrchestratorSettings,  \* settings governance passes
  NoDeposit, NoIntent, NoPayment  \* PDAs that do not exist

DepositIds == 0..(MaxDeposits - 1)
IntentIds == 0..(MaxIntents - 1)

\* Deposit accounts without their books and flags, Intent accounts without the
\* flag dispute_covered, EscrowIntentLock accounts.
DepositTerms == [depositor : Users, delegate : Users \cup {NoOne},
                 guardian : Users \cup {NoOne}, min : Nat, max : Nat]
Intent == [owner : Users, deposit : DepositIds, method : Methods, amount : Nat,
           timestamp : Nat]
EscrowIntentLock == [deposit : DepositIds, amount : Nat, timestamp : Nat, expiry : Nat]

LifecyclePolicy == {"None", "Whitelist", "WhitelistAndDispute"}
EscrowConfig == [paused : BOOLEAN, maxIntents : Nat, period : Nat, dustThreshold : Nat]
OrchestratorConfig == [paused : BOOLEAN, allowMultiple : BOOLEAN, policy : LifecyclePolicy]

ASSUME EscrowAssumption ==
  /\ MaxDeposits \in Nat
  /\ MaxIntents \in Nat
  /\ MaxLifetime \in Nat \ {0}
  /\ Terms \subseteq DepositTerms
  /\ EscrowSettings \subseteq EscrowConfig
  /\ OrchestratorSettings \subseteq OrchestratorConfig
  /\ NoDeposit \notin DepositTerms
  /\ NoIntent \notin Intent \cup EscrowIntentLock \cup IntentIds
  /\ NoPayment \notin Payments

VARIABLES
  escrow,         \* EscrowConfig
  orchestrator,   \* OrchestratorConfig
  nextDeposit,    \* escrow_config.next_deposit_id
  nextIntent,     \* orchestrator.next_intent_id
  deposits,       \* Deposit PDAs (the vault exists exactly when the PDA does)
  accepting,      \* deposits with accepting_intents
  retained,       \* deposits with retain_on_empty
  methods,        \* active payment methods, per deposit
  remaining,      \* deposit.remaining_deposits
  outstanding,    \* deposit.outstanding_intent_amount
  activeIntents,  \* deposit.active_intents
  depositVault,   \* tokens in the deposit's vault
  intents,        \* Intent PDAs
  covered,        \* intents with dispute_covered
  intentLocks,    \* EscrowIntentLock PDAs
  takerActive,    \* taker_state.active_intents
  paymentIntent,  \* PaymentBinding: nullifier -> intent
  intentPayment   \* IntentPaymentBinding: intent -> nullifier

configVars  == <<escrow, orchestrator>>
depositVars == <<nextDeposit, deposits, accepting, retained, methods>>
bookVars    == <<remaining, outstanding, activeIntents, depositVault>>
intentVars  == <<nextIntent, intents, covered, intentLocks, takerActive>>
bindingVars == <<paymentIntent, intentPayment>>
escrowVars  == <<configVars, depositVars, bookVars, intentVars, bindingVars>>

BooksTypeOK ==
  /\ remaining \in [DepositIds -> Nat]
  /\ outstanding \in [DepositIds -> Nat]
  /\ activeIntents \in [DepositIds -> Nat]
  /\ depositVault \in [DepositIds -> Nat]

IntentsTypeOK ==
  /\ nextIntent \in 0..MaxIntents
  /\ intents \in [IntentIds -> Intent \cup {NoIntent}]
  /\ covered \subseteq IntentIds
  /\ intentLocks \in [IntentIds -> EscrowIntentLock \cup {NoIntent}]
  /\ takerActive \in [Users -> Nat]

DepositsTypeOK ==
  /\ nextDeposit \in 0..MaxDeposits
  /\ deposits \in [DepositIds -> DepositTerms \cup {NoDeposit}]
  /\ accepting \subseteq DepositIds
  /\ retained \subseteq DepositIds
  /\ methods \in [DepositIds -> SUBSET Methods]

BindingsTypeOK ==
  /\ paymentIntent \in [Payments -> IntentIds \cup {NoIntent}]
  /\ intentPayment \in [IntentIds -> Payments \cup {NoPayment}]

\* Every variable has its type, and the configured expiration period stays
\* within the lifetime cap.
EscrowTypeOK ==
  /\ now \in 0..MaxTime
  /\ escrow \in EscrowConfig
  /\ escrow.period \in 1..MaxLifetime
  /\ orchestrator \in OrchestratorConfig
  /\ DepositsTypeOK
  /\ BooksTypeOK
  /\ IntentsTypeOK
  /\ BindingsTypeOK

ValidSettings(c) == c.maxIntents > 0 /\ c.period > 0 /\ c.period <= MaxLifetime

\* handle_initialize_protocol, with the cap and the period it is given.
EscrowInit ==
  /\ now = 0
  /\ escrow \in {c \in EscrowSettings :
                  ValidSettings(c) /\ ~c.paused /\ c.dustThreshold = 0}
  /\ orchestrator = [paused |-> FALSE, allowMultiple |-> FALSE,
                     policy |-> "WhitelistAndDispute"]
  /\ nextDeposit = 0
  /\ nextIntent = 0
  /\ deposits = [d \in DepositIds |-> NoDeposit]
  /\ accepting = {}
  /\ retained = {}
  /\ methods = [d \in DepositIds |-> {}]
  /\ remaining = [d \in DepositIds |-> 0]
  /\ outstanding = [d \in DepositIds |-> 0]
  /\ activeIntents = [d \in DepositIds |-> 0]
  /\ depositVault = [d \in DepositIds |-> 0]
  /\ intents = [i \in IntentIds |-> NoIntent]
  /\ covered = {}
  /\ intentLocks = [i \in IntentIds |-> NoIntent]
  /\ takerActive = [u \in Users |-> 0]
  /\ paymentIntent = [p \in Payments |-> NoIntent]
  /\ intentPayment = [i \in IntentIds |-> NoPayment]
-----------------------------------------------------------------------------
(* Deposits.                                                               *)

Open(d) == deposits[d] # NoDeposit
With(S, x, flag) == IF flag THEN S \cup {x} ELSE S \ {x}

ValidRange(t) == 0 < t.min /\ t.min <= t.max

CreateDeposit(t, retain, m, a) ==
  /\ nextDeposit < MaxDeposits
  /\ ~Open(nextDeposit)
  /\ ~escrow.paused
  /\ a > 0
  /\ a <= Supply
  /\ ValidRange(t)
  /\ a >= t.min
  /\ t.delegate # t.depositor
  /\ deposits' = [deposits EXCEPT ![nextDeposit] = t]
  /\ accepting' = accepting \cup {nextDeposit}
  /\ retained' = With(retained, nextDeposit, retain)
  /\ methods' = [methods EXCEPT ![nextDeposit] = @ \cup {m}]
  /\ remaining' = [remaining EXCEPT ![nextDeposit] = a]
  /\ outstanding' = [outstanding EXCEPT ![nextDeposit] = 0]
  /\ activeIntents' = [activeIntents EXCEPT ![nextDeposit] = 0]
  /\ depositVault' = [depositVault EXCEPT ![nextDeposit] = a]
  /\ nextDeposit' = nextDeposit + 1
  /\ UNCHANGED <<now, configVars, intentVars, bindingVars>>

AddFunds(d, a) ==
  /\ Open(d)
  /\ ~escrow.paused
  /\ a > 0
  /\ depositVault[d] + a <= Supply
  /\ remaining' = [remaining EXCEPT ![d] = @ + a]
  /\ depositVault' = [depositVault EXCEPT ![d] = @ + a]
  /\ UNCHANGED <<now, configVars, depositVars, outstanding, activeIntents,
                 intentVars, bindingVars>>

\* Mutant: limited by the vault instead of the available liquidity.
RemoveFundsFromVault(u, d, a) ==
  /\ Open(d)
  /\ u = deposits[d].depositor
  /\ ~escrow.paused
  /\ a > 0
  /\ depositVault[d] >= a
  /\ remaining' = [remaining EXCEPT ![d] = @ - a]
  /\ depositVault' = [depositVault EXCEPT ![d] = @ - a]
  /\ UNCHANGED <<now, configVars, depositVars, outstanding, activeIntents,
                 intentVars, bindingVars>>

RemoveFunds(u, d, a) ==
  /\ Open(d)
  /\ u = deposits[d].depositor
  /\ ~escrow.paused
  /\ a > 0
  /\ remaining[d] >= a
  /\ depositVault[d] >= a
  /\ remaining' = [remaining EXCEPT ![d] = @ - a]
  /\ depositVault' = [depositVault EXCEPT ![d] = @ - a]
  /\ UNCHANGED <<now, configVars, depositVars, outstanding, activeIntents,
                 intentVars, bindingVars>>

\* Mutant: what should be left according to the books.
ResidualByBooks(d) == outstanding[d]

\* Tokens left once the available principal has been returned.
Residual(d) == depositVault[d] - remaining[d]

\* No intent holds liquidity and the maker did not ask to keep the account.
Closable(d) == activeIntents[d] = 0 /\ outstanding[d] = 0 /\ d \notin retained

\* handle_withdraw_deposit up to the three ways it ends.
ReturnPrincipal(u, d) ==
  /\ Open(d)
  /\ u = deposits[d].depositor
  /\ depositVault[d] >= remaining[d]
  /\ remaining' = [remaining EXCEPT ![d] = 0]
  /\ accepting' = accepting \ {d}
  /\ UNCHANGED <<now, configVars, nextDeposit, methods, outstanding, activeIntents,
                 intentVars, bindingVars>>

\* Liabilities or retention keep the deposit; so does a residual above the dust
\* threshold, which turns retention on; otherwise the dust is swept and the
\* vault and the deposit are closed.
WithdrawDeposit(u, d) ==
  /\ ReturnPrincipal(u, d)
  /\ \/ /\ ~Closable(d)
        /\ depositVault' = [depositVault EXCEPT ![d] = Residual(d)]
        /\ UNCHANGED <<deposits, retained>>
     \/ /\ Closable(d)
        /\ Residual(d) > escrow.dustThreshold
        /\ depositVault' = [depositVault EXCEPT ![d] = Residual(d)]
        /\ retained' = retained \cup {d}
        /\ UNCHANGED deposits
     \/ /\ Closable(d)
        /\ Residual(d) <= escrow.dustThreshold
        /\ depositVault' = [depositVault EXCEPT ![d] = 0]
        /\ deposits' = [deposits EXCEPT ![d] = NoDeposit]
        /\ UNCHANGED retained

\* `t`, `accept` and `retain` are the settings after the update.
UpdateDeposit(u, d, t, accept, retain) ==
  /\ Open(d)
  /\ ~escrow.paused
  /\ u \in {deposits[d].depositor, deposits[d].delegate}
  /\ t.depositor = deposits[d].depositor
  /\ t.delegate # deposits[d].delegate => u = t.depositor /\ t.delegate # t.depositor
  /\ ValidRange(t)
  /\ accept /\ d \notin accepting => remaining[d] >= t.min
  /\ deposits' = [deposits EXCEPT ![d] = t]
  /\ accepting' = With(accepting, d, accept)
  /\ retained' = With(retained, d, retain)
  /\ UNCHANGED <<now, configVars, nextDeposit, methods, bookVars, intentVars, bindingVars>>

ConfigurePaymentMethod(u, d, m, active) ==
  /\ Open(d)
  /\ ~escrow.paused
  /\ u \in {deposits[d].depositor, deposits[d].delegate}
  /\ methods' = [methods EXCEPT ![d] = With(@, m, active)]
  /\ UNCHANGED <<now, configVars, nextDeposit, deposits, accepting, retained, bookVars,
                 intentVars, bindingVars>>

\* Anyone may send tokens straight to a deposit vault.
DonateDeposit(d, a) ==
  /\ Open(d)
  /\ a > 0
  /\ depositVault[d] + a <= Supply
  /\ depositVault' = [depositVault EXCEPT ![d] = @ + a]
  /\ UNCHANGED <<now, configVars, depositVars, remaining, outstanding, activeIntents,
                 intentVars, bindingVars>>
-----------------------------------------------------------------------------
(* Intents.                                                                *)

Active(i) == intents[i] # NoIntent

\* Deposit::lock
DepositLock(d, a) ==
  /\ d \in accepting
  /\ a >= deposits[d].min
  /\ a <= deposits[d].max
  /\ remaining[d] >= a
  /\ activeIntents[d] + 1 <= escrow.maxIntents
  /\ remaining' = [remaining EXCEPT ![d] = @ - a]
  /\ outstanding' = [outstanding EXCEPT ![d] = @ + a]
  /\ activeIntents' = [activeIntents EXCEPT ![d] = @ + 1]

\* Mutant: the unlocked amount does not become available again.
DepositUnlockLosing(d, a) ==
  /\ outstanding[d] >= a
  /\ activeIntents[d] >= 1
  /\ outstanding' = [outstanding EXCEPT ![d] = @ - a]
  /\ activeIntents' = [activeIntents EXCEPT ![d] = @ - 1]
  /\ UNCHANGED remaining

\* Deposit::unlock
DepositUnlock(d, a) ==
  /\ outstanding[d] >= a
  /\ activeIntents[d] >= 1
  /\ outstanding' = [outstanding EXCEPT ![d] = @ - a]
  /\ remaining' = [remaining EXCEPT ![d] = @ + a]
  /\ activeIntents' = [activeIntents EXCEPT ![d] = @ - 1]

\* Mutant: the unreleased part stays locked.
DepositSettlePartly(d, a, release) ==
  /\ release > 0
  /\ release <= a
  /\ activeIntents[d] >= 1
  /\ depositVault[d] >= release
  /\ outstanding' = [outstanding EXCEPT ![d] = @ - release]
  /\ activeIntents' = [activeIntents EXCEPT ![d] = @ - 1]
  /\ depositVault' = [depositVault EXCEPT ![d] = @ - release]
  /\ UNCHANGED remaining

\* Deposit::settle, with the transfers of distribute_funds: fees and proceeds
\* together are the release.
DepositSettle(d, a, release) ==
  /\ release > 0
  /\ release <= a
  /\ outstanding[d] >= a
  /\ activeIntents[d] >= 1
  /\ depositVault[d] >= release
  /\ outstanding' = [outstanding EXCEPT ![d] = @ - a]
  /\ remaining' = [remaining EXCEPT ![d] = @ + (a - release)]
  /\ activeIntents' = [activeIntents EXCEPT ![d] = @ - 1]
  /\ depositVault' = [depositVault EXCEPT ![d] = @ - release]

\* The intent and its lock are closed and leave the taker's count.
CloseIntent(i) ==
  /\ takerActive[intents[i].owner] >= 1
  /\ takerActive' = [takerActive EXCEPT ![intents[i].owner] = @ - 1]
  /\ intents' = [intents EXCEPT ![i] = NoIntent]
  /\ covered' = covered \ {i}
  /\ intentLocks' = [intentLocks EXCEPT ![i] = NoIntent]

\* Every intent signalled so far can expire before the model's clock stops.
WithinHorizon == now + MaxLifetime < MaxTime

\* Rate floor, gating signature and fee bounds decide whether the call is made
\* at all; `cover` is the dispute_covered flag of the admission.
SignalIntent(t, d, m, a, cover) ==
  LET i == nextIntent IN
  /\ WithinHorizon
  /\ i < MaxIntents
  /\ Open(d)
  /\ ~orchestrator.paused
  /\ ~escrow.paused
  /\ m \in methods[d]
  /\ orchestrator.allowMultiple \/ takerActive[t] = 0
  /\ ~Active(i)
  /\ DepositLock(d, a)
  /\ intents' = [intents EXCEPT ![i] = [owner |-> t, deposit |-> d, method |-> m,
                                        amount |-> a, timestamp |-> now]]
  /\ covered' = With(covered, i, cover)
  /\ intentLocks' = [intentLocks EXCEPT ![i] = [deposit |-> d, amount |-> a,
                        timestamp |-> now, expiry |-> now + escrow.period]]
  /\ takerActive' = [takerActive EXCEPT ![t] = @ + 1]
  /\ nextIntent' = i + 1
  /\ UNCHANGED <<now, configVars, depositVars, depositVault, bindingVars>>

CancelIntent(t, i) ==
  /\ Active(i)
  /\ t = intents[i].owner
  /\ DepositUnlock(intents[i].deposit, intentLocks[i].amount)
  /\ CloseIntent(i)
  /\ UNCHANGED <<now, configVars, depositVars, depositVault, nextIntent, bindingVars>>

\* Mutant: pruning waits for the escrow to be resumed.
PruneExpiredIntentUnlessPaused(i) ==
  /\ Active(i)
  /\ ~escrow.paused
  /\ now > intentLocks[i].expiry
  /\ DepositUnlock(intents[i].deposit, intentLocks[i].amount)
  /\ CloseIntent(i)
  /\ UNCHANGED <<now, configVars, depositVars, depositVault, nextIntent, bindingVars>>

PruneExpiredIntent(i) ==
  /\ Active(i)
  /\ now > intentLocks[i].expiry
  /\ DepositUnlock(intents[i].deposit, intentLocks[i].amount)
  /\ CloseIntent(i)
  /\ UNCHANGED <<now, configVars, depositVars, depositVault, nextIntent, bindingVars>>

\* Mutant: the cap is measured from the extension instead of the signal.
ExtendIntentExpiryFromNow(g, i, extra) ==
  /\ Active(i)
  /\ g = deposits[intentLocks[i].deposit].guardian
  /\ extra > 0
  /\ intentLocks[i].expiry + extra <= now + MaxLifetime
  /\ intentLocks' = [intentLocks EXCEPT ![i].expiry = @ + extra]
  /\ UNCHANGED <<now, configVars, depositVars, bookVars, nextIntent, intents, covered,
                 takerActive, bindingVars>>

ExtendIntentExpiry(g, i, extra) ==
  /\ Active(i)
  /\ g = deposits[intentLocks[i].deposit].guardian
  /\ extra > 0
  /\ intentLocks[i].expiry + extra <= intentLocks[i].timestamp + MaxLifetime
  /\ intentLocks' = [intentLocks EXCEPT ![i].expiry = @ + extra]
  /\ UNCHANGED <<now, configVars, depositVars, bookVars, nextIntent, intents, covered,
                 takerActive, bindingVars>>

\* An attestation for payment `p` releases at most the intent amount.
Released(i, attested) == IF attested < intents[i].amount THEN attested ELSE intents[i].amount

\* Mutants: a payment may be bound again, or is bound one way only.
FulfillIntentReplayed(i, p, attested) ==
  /\ Active(i)
  /\ ~orchestrator.paused
  /\ intentPayment[i] = NoPayment
  /\ DepositSettle(intents[i].deposit, intentLocks[i].amount, Released(i, attested))
  /\ paymentIntent' = [paymentIntent EXCEPT ![p] = i]
  /\ intentPayment' = [intentPayment EXCEPT ![i] = p]
  /\ CloseIntent(i)
  /\ UNCHANGED <<now, configVars, depositVars, nextIntent>>
FulfillIntentOneWay(i, p, attested) ==
  /\ Active(i)
  /\ ~orchestrator.paused
  /\ paymentIntent[p] = NoIntent
  /\ DepositSettle(intents[i].deposit, intentLocks[i].amount, Released(i, attested))
  /\ paymentIntent' = [paymentIntent EXCEPT ![p] = i]
  /\ CloseIntent(i)
  /\ UNCHANGED <<now, configVars, depositVars, nextIntent, intentPayment>>

FulfillIntent(i, p, attested) ==
  /\ Active(i)
  /\ ~orchestrator.paused
  /\ paymentIntent[p] = NoIntent
  /\ intentPayment[i] = NoPayment
  /\ DepositSettle(intents[i].deposit, intentLocks[i].amount, Released(i, attested))
  /\ paymentIntent' = [paymentIntent EXCEPT ![p] = i]
  /\ intentPayment' = [intentPayment EXCEPT ![i] = p]
  /\ CloseIntent(i)
  /\ UNCHANGED <<now, configVars, depositVars, nextIntent>>

ManualRelease(u, i) ==
  /\ Active(i)
  /\ u = deposits[intents[i].deposit].depositor
  /\ DepositSettle(intents[i].deposit, intentLocks[i].amount, intents[i].amount)
  /\ CloseIntent(i)
  /\ UNCHANGED <<now, configVars, depositVars, nextIntent, bindingVars>>
-----------------------------------------------------------------------------
(* Governance.                                                             *)

\* Each field may be left alone, so an update installs any admissible settings.
ConfigureEscrow(c) ==
  /\ ValidSettings(c)
  /\ escrow' = c
  /\ UNCHANGED <<now, orchestrator, depositVars, bookVars, intentVars, bindingVars>>

ConfigureOrchestrator(c) ==
  /\ orchestrator' = c
  /\ UNCHANGED <<now, escrow, depositVars, bookVars, intentVars, bindingVars>>
-----------------------------------------------------------------------------
EscrowTick == Tick /\ UNCHANGED escrowVars

MakerNext ==
  \/ \E t \in Terms, retain \in BOOLEAN :
       \/ \E m \in Methods, a \in Amounts : CreateDeposit(t, retain, m, a)
       \/ \E u \in Users, d \in DepositIds, accept \in BOOLEAN :
            UpdateDeposit(u, d, t, accept, retain)
  \/ \E d \in DepositIds, a \in Amounts : AddFunds(d, a) \/ DonateDeposit(d, a)
  \/ \E u \in Users, d \in DepositIds :
       \/ \E a \in Amounts : RemoveFunds(u, d, a)
       \/ WithdrawDeposit(u, d)
       \/ \E m \in Methods, active \in BOOLEAN : ConfigurePaymentMethod(u, d, m, active)

GovernanceNext ==
  \/ \E c \in EscrowSettings : ConfigureEscrow(c)
  \/ \E c \in OrchestratorSettings : ConfigureOrchestrator(c)

IntentNext ==
  \/ \E t \in Users, d \in DepositIds, m \in Methods, a \in Amounts, cover \in BOOLEAN :
       SignalIntent(t, d, m, a, cover)
  \/ \E i \in IntentIds :
       \/ \E u \in Users : CancelIntent(u, i) \/ ManualRelease(u, i)
       \/ PruneExpiredIntent(i)
       \/ \E g \in Users, extra \in 1..MaxLifetime : ExtendIntentExpiry(g, i, extra)
       \/ \E p \in Payments, attested \in Amounts : FulfillIntent(i, p, attested)

EscrowNext == EscrowTick \/ MakerNext \/ GovernanceNext \/ IntentNext

EscrowSpec == EscrowInit /\ [][EscrowNext]_<<now, escrowVars>>
-----------------------------------------------------------------------------
(* Correctness of the escrow.                                              *)

\* The live locks on a deposit, and their amounts (0 elsewhere).
LocksOn(d) == {i \in IntentIds : intentLocks[i] # NoIntent /\ intentLocks[i].deposit = d}
LockedOn(d) == [i \in IntentIds |-> IF i \in LocksOn(d) THEN intentLocks[i].amount ELSE 0]

\* A live intent has its own escrow lock, on the same deposit, for the same
\* amount and instant, and that deposit is still open; no lock outlives its
\* intent, and only live intents are covered.
IntentsArePaired ==
  \A i \in IntentIds :
    /\ Active(i) <=> intentLocks[i] # NoIntent
    /\ i \in covered => Active(i)
    /\ Active(i) =>
         /\ Open(intents[i].deposit)
         /\ intents[i].amount > 0
         /\ intentLocks[i].deposit = intents[i].deposit
         /\ intentLocks[i].amount = intents[i].amount
         /\ intentLocks[i].timestamp = intents[i].timestamp

\* outstanding_intent_amount and active_intents summarise the live locks of the
\* deposit exactly.
BooksMatchLocks ==
  \A d \in DepositIds :
    /\ outstanding[d] = Sum(LockedOn(d), IntentIds)
    /\ activeIntents[d] = Cardinality(LocksOn(d))

\* Every vault covers its deposit's available and locked liquidity, and a
\* closed deposit leaves no books and no tokens behind.
DepositsBacked ==
  \A d \in DepositIds :
    /\ remaining[d] + outstanding[d] <= depositVault[d]
    /\ ~Open(d) => depositVault[d] = 0

\* A taker's active_intents counts the taker's live intents, so the
\* single-intent admission check is exact.
TakerCountsIntents ==
  \A u \in Users :
    takerActive[u] = Cardinality({i \in IntentIds : Active(i) /\ intents[i].owner = u})

\* However often a guardian extends it, a lock expires after its signal and no
\* later than the lifetime cap measured from it.
ExpiryWithinLifetime ==
  \A i \in IntentIds : intentLocks[i] # NoIntent =>
    /\ intentLocks[i].timestamp <= now
    /\ intentLocks[i].timestamp < intentLocks[i].expiry
    /\ intentLocks[i].expiry <= intentLocks[i].timestamp + MaxLifetime

\* Payments and intents are bound one to one, and a bound intent is settled.
PaymentsBindOnce ==
  /\ \A p \in Payments, i \in IntentIds : paymentIntent[p] = i <=> intentPayment[i] = p
  /\ \A i \in IntentIds : intentPayment[i] # NoPayment => i < nextIntent /\ ~Active(i)

\* Identifiers at or beyond the counters are unused: `init` of the next
\* deposit, intent or lock cannot meet an existing account.
FreshIdentifiers ==
  /\ \A d \in DepositIds : Open(d) => d < nextDeposit
  /\ \A i \in IntentIds : Active(i) => i < nextIntent

\* Open deposits keep a valid intent range, so no lock is for nothing.
RangesValid == \A d \in DepositIds : Open(d) => ValidRange(deposits[d])

\* What the books of the deposits say about the locks, and the tokens.
LedgerInv == BooksTypeOK /\ BooksMatchLocks /\ DepositsBacked

\* What the intents say about their locks, deposits, takers and payments.
LifecycleInv ==
  /\ IntentsTypeOK
  /\ IntentsArePaired
  /\ TakerCountsIntents
  /\ ExpiryWithinLifetime
  /\ BindingsTypeOK
  /\ PaymentsBindOnce

\* The settings and the deposit accounts themselves.
AccountsInv ==
  /\ now \in 0..MaxTime
  /\ escrow \in EscrowConfig
  /\ escrow.period \in 1..MaxLifetime
  /\ orchestrator \in OrchestratorConfig
  /\ DepositsTypeOK
  /\ FreshIdentifiers
  /\ RangesValid

\* The inductive invariant of the escrow: accounts, books, tokens, intents and
\* bindings agree after every handler in any order.
EscrowInv == AccountsInv /\ LedgerInv /\ LifecycleInv

\* The checked_sub calls and transfers that end an intent, and those that
\* return a maker's principal, cannot fail.
ExitsNeverBlocked ==
  /\ \A i \in IntentIds : Active(i) =>
       /\ intentLocks[i].amount <= outstanding[intents[i].deposit]
       /\ intentLocks[i].amount <= depositVault[intents[i].deposit]
       /\ activeIntents[intents[i].deposit] >= 1
       /\ takerActive[intents[i].owner] >= 1
       /\ intentPayment[i] = NoPayment
  /\ \A d \in DepositIds : remaining[d] <= depositVault[d]

\* Tokens of a deposit vault that no liability accounts for.
Unaccounted(d) == depositVault[d] - remaining[d] - outstanding[d]

\* No handler pays out tokens of an open deposit without reducing its
\* liabilities by the same amount; closing one sweeps dust at most.
OnlyDustIsSwept ==
  [][\A d \in DepositIds : Open(d) =>
       \/ deposits'[d] # NoDeposit /\ Unaccounted(d)' >= Unaccounted(d)
       \/ deposits'[d] = NoDeposit /\ Unaccounted(d) <= escrow.dustThreshold]_<<now, escrowVars>>

\* Liquidity leaves a deposit with its tokens, in two ways only: to the maker,
\* out of what is not locked, or through the settlement of one intent, within
\* that intent's amount.
LiquidityLeavesByRequest ==
  [][\A d \in DepositIds :
       LET drop == remaining[d] + outstanding[d] - (remaining'[d] + outstanding'[d]) IN
       Open(d) /\ drop > 0 =>
         /\ depositVault[d] - depositVault'[d] >= drop
         /\ \/ drop <= remaining[d] /\ intentLocks' = intentLocks
            \/ \E i \in LocksOn(d) :
                 /\ drop <= intentLocks[i].amount
                 /\ intents'[i] = NoIntent
                 /\ intentLocks' = [intentLocks EXCEPT ![i] = NoIntent]]_<<now, escrowVars>>

\* A closed identifier is never opened again, and a payment binding is neither
\* changed nor removed.
HistoryIsPermanent ==
  [][/\ \A d \in DepositIds : d < nextDeposit /\ ~Open(d) => deposits'[d] = NoDeposit
     /\ \A i \in IntentIds : i < nextIntent /\ ~Active(i) => intents'[i] = NoIntent
     /\ \A p \in Payments : paymentIntent[p] # NoIntent => paymentIntent'[p] = paymentIntent[p]
     /\ \A i \in IntentIds : intentPayment[i] # NoPayment =>
          intentPayment'[i] = intentPayment[i]]_<<now, escrowVars>>

\* Whatever governance, makers and guardians do, every intent ends.
IntentsEnd == \A i \in IntentIds : Active(i) ~> ~Active(i)
=============================================================================
