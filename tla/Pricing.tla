------------------------------ MODULE Pricing -------------------------------
(***************************************************************************)
(* What an intent costs: oracle quotes, the currencies a deposit lists,    *)
(* delegated rate managers, the rate floor an intent is signalled against, *)
(* the fees it snapshots and how a settlement is divided                   *)
(* (instructions/rate_manager.rs, the pricing halves of escrow.rs,         *)
(* orchestrator.rs, settlement.rs and governance.rs, DepositCurrency in    *)
(* state.rs).                                                              *)
(*                                                                         *)
(* Module Escrow moves the liquidity; here every escrow handler that also  *)
(* prices or pays is conjoined with its other half.  Tokens paid out are   *)
(* counted per owner; module Payout has the token accounts.                *)
(***************************************************************************)
EXTENDS Escrow, FeeMath

CONSTANTS
  Currencies,        \* fiat currencies
  Feeds,             \* oracle quote PDAs, one per authority and quote id
  Rates,             \* market, manager and intent rates callers pass
  Fees,              \* fees callers pass
  CurrencySettings,  \* currency settings makers pass
  ManagerSettings,   \* arguments of create_rate_manager
  Referrals,         \* referral lists takers pass
  MaxManagers,       \* bound on the rate managers a model creates
  NoFeed, NoManager, NoTerms  \* absent options and PDAs that do not exist

ManagerIds == 0..(MaxManagers - 1)

OracleQuote == [rate : Nat, updatedAt : Nat, valid : BOOLEAN]
DepositCurrency == [listed : BOOLEAN, fixed : Nat, oracle : Feeds \cup {NoFeed},
                    spread : Int, staleness : Nat]
RateManager == [manager : Users, recipient : Users \cup {NoOne}, maxFee : Nat, fee : Nat,
                min : Nat]

\* The pricing fields of an Intent.  `protocolFee` is not stored by the
\* program: it is the fee in force at the signal, for the properties.
IntentTerms == [currency : Currencies, rate : Nat, recipient : Users,
                manager : Users \cup {NoOne}, managerFee : Nat,
                referral : [Users -> Nat], protocolFee : Nat]

ASSUME PricingAssumption ==
  /\ Rates \subseteq Nat
  /\ Fees \subseteq Nat
  /\ CurrencySettings \subseteq DepositCurrency
  /\ ManagerSettings \subseteq RateManager
  /\ Referrals \subseteq [Users -> Nat]
  /\ MaxManagers \in Nat
  /\ NoFeed \notin Feeds
  /\ NoManager \notin RateManager \cup ManagerIds
  /\ NoTerms \notin IntentTerms

VARIABLES
  quotes,       \* OracleQuote PDAs
  currencies,   \* DepositCurrency PDAs
  managers,     \* RateManager PDAs
  nextManager,  \* rate_manager_config.next_manager_id
  entries,      \* RateEntry PDAs: rate per manager, method and currency
  delegated,    \* deposit.rate_manager
  protocol,     \* orchestrator.protocol_fee and protocol_fee_recipient
  terms,        \* pricing fields of live intents
  paid          \* tokens settlements have paid to each owner

marketVars  == <<quotes, currencies, managers, nextManager, entries, delegated, protocol>>
pricingVars == <<marketVars, terms, paid>>
pricedVars  == <<now, escrowVars, pricingVars>>

\* An account that does not exist lists no currency and quotes no rate.
Unlisted == [listed |-> FALSE, fixed |-> 0, oracle |-> NoFeed, spread |-> 0, staleness |-> 0]
Unquoted == [rate |-> 0, updatedAt |-> 0, valid |-> FALSE]

PricingInit ==
  /\ EscrowInit
  /\ quotes = [f \in Feeds |-> Unquoted]
  /\ currencies = [k \in DepositIds \X Methods \X Currencies |-> Unlisted]
  /\ managers = [k \in ManagerIds |-> NoManager]
  /\ nextManager = 0
  /\ entries = [k \in ManagerIds \X Methods \X Currencies |-> 0]
  /\ delegated = [d \in DepositIds |-> NoManager]
  /\ protocol \in [fee : Fees \cap (0..MaxFee), recipient : Users]
  /\ terms = [i \in IntentIds |-> NoTerms]
  /\ paid = [u \in Users |-> 0]
-----------------------------------------------------------------------------
(* Quotes, currencies and the protocol fee.                                *)

UpdateOracleQuote(f, rate, valid) ==
  /\ valid => rate > 0
  /\ quotes' = [quotes EXCEPT ![f] = [rate |-> rate, updatedAt |-> now, valid |-> valid]]
  /\ UNCHANGED <<now, escrowVars, currencies, managers, nextManager, entries, delegated,
                 protocol, terms, paid>>

ValidCurrency(s) ==
  /\ s.listed => s.fixed > 0 \/ s.oracle # NoFeed
  /\ s.spread > -Bps
  /\ s.oracle # NoFeed => s.staleness > 0

\* The PDA of the payment method has to exist; the same caller can create it,
\* inactive, in the same transaction, so that is no restriction.
ConfigureCurrency(u, d, m, c, s) ==
  /\ Open(d)
  /\ ~escrow.paused
  /\ u \in {deposits[d].depositor, deposits[d].delegate}
  /\ ValidCurrency(s)
  /\ currencies' = [currencies EXCEPT ![<<d, m, c>>] = s]
  /\ UNCHANGED <<now, escrowVars, quotes, managers, nextManager, entries, delegated,
                 protocol, terms, paid>>

\* create_deposit also lists the first currency of the new deposit; the other
\* maker handlers leave pricing alone.
PricedMakerNext ==
  /\ MakerNext
  /\ \/ /\ nextDeposit' = nextDeposit
        /\ UNCHANGED currencies
     \/ /\ nextDeposit' # nextDeposit
        /\ \E m \in methods'[nextDeposit], c \in Currencies, s \in CurrencySettings :
             /\ s.listed
             /\ ValidCurrency(s)
             /\ currencies' = [currencies EXCEPT ![<<nextDeposit, m, c>>] = s]
  /\ UNCHANGED <<quotes, managers, nextManager, entries, delegated, protocol, terms, paid>>

\* Mutant: any fee is accepted.
ConfigureFeesUncapped(c, fee, recipient) ==
  /\ ConfigureOrchestrator(c)
  /\ protocol' = [fee |-> fee, recipient |-> recipient]
  /\ UNCHANGED <<quotes, currencies, managers, nextManager, entries, delegated, terms, paid>>

\* handle_configure_orchestrator: the fee and its recipient with the settings
\* the escrow knows.
ConfigureFees(c, fee, recipient) ==
  /\ fee <= MaxFee
  /\ ConfigureOrchestrator(c)
  /\ protocol' = [fee |-> fee, recipient |-> recipient]
  /\ UNCHANGED <<quotes, currencies, managers, nextManager, entries, delegated, terms, paid>>
-----------------------------------------------------------------------------
(* Rate managers.                                                          *)

Manages(u, k) == managers[k] # NoManager /\ u = managers[k].manager

CreateRateManager(s) ==
  /\ nextManager < MaxManagers
  /\ s.maxFee <= MaxFee
  /\ s.fee <= s.maxFee
  /\ s.fee > 0 => s.recipient # NoOne
  /\ managers' = [managers EXCEPT ![nextManager] = s]
  /\ nextManager' = nextManager + 1
  /\ UNCHANGED <<now, escrowVars, quotes, currencies, entries, delegated, protocol,
                 terms, paid>>

\* Mutant: the recipient may be cleared while a fee is set.
SetRateManagerConfigClearing(u, k, manager, recipient) ==
  /\ Manages(u, k)
  /\ managers' = [managers EXCEPT ![k] =
                    [@ EXCEPT !.manager = manager, !.recipient = recipient]]
  /\ UNCHANGED <<now, escrowVars, quotes, currencies, nextManager, entries, delegated,
                 protocol, terms, paid>>

SetRateManagerConfig(u, k, manager, recipient) ==
  /\ Manages(u, k)
  /\ managers[k].fee > 0 => recipient # NoOne
  /\ managers' = [managers EXCEPT ![k] =
                    [@ EXCEPT !.manager = manager, !.recipient = recipient]]
  /\ UNCHANGED <<now, escrowVars, quotes, currencies, nextManager, entries, delegated,
                 protocol, terms, paid>>

SetManagerFee(u, k, fee) ==
  /\ Manages(u, k)
  /\ fee <= managers[k].maxFee
  /\ fee > 0 => managers[k].recipient # NoOne
  /\ managers' = [managers EXCEPT ![k].fee = fee]
  /\ UNCHANGED <<now, escrowVars, quotes, currencies, nextManager, entries, delegated,
                 protocol, terms, paid>>

SetManagerMinLiquidity(u, k, min) ==
  /\ Manages(u, k)
  /\ managers' = [managers EXCEPT ![k].min = min]
  /\ UNCHANGED <<now, escrowVars, quotes, currencies, nextManager, entries, delegated,
                 protocol, terms, paid>>

SetManagerRate(u, k, m, c, rate) ==
  /\ Manages(u, k)
  /\ entries' = [entries EXCEPT ![<<k, m, c>>] = rate]
  /\ UNCHANGED <<now, escrowVars, quotes, currencies, managers, nextManager, delegated,
                 protocol, terms, paid>>

\* `k` is NoManager when the delegation is cleared.
SetDepositRateManager(u, d, k) ==
  /\ Open(d)
  /\ ~escrow.paused
  /\ u \in {deposits[d].depositor, deposits[d].delegate}
  /\ k # NoManager =>
       managers[k] # NoManager /\ remaining[d] + outstanding[d] >= managers[k].min
  /\ delegated' = [delegated EXCEPT ![d] = k]
  /\ UNCHANGED <<now, escrowVars, quotes, currencies, managers, nextManager, entries,
                 protocol, terms, paid>>
-----------------------------------------------------------------------------
(* The rate floor.  A floor of zero and an error both refuse the signal.   *)

Larger(a, b) == IF a >= b THEN a ELSE b

Usable(q, s) ==
  /\ q.valid
  /\ q.rate > 0
  /\ q.updatedAt > 0
  /\ q.updatedAt <= now
  /\ now - q.updatedAt <= s.staleness
  /\ SpreadFits(q.rate, s.spread)

\* Mutant: an unusable quote leaves the fixed floor in force.
EscrowFloorFallback(s) ==
  IF ~s.listed THEN 0
  ELSE IF s.oracle # NoFeed /\ Usable(quotes[s.oracle], s)
       THEN Larger(s.fixed, SpreadRateCeil(quotes[s.oracle].rate, s.spread))
       ELSE s.fixed

\* DepositCurrency::escrow_floor
EscrowFloor(s) ==
  CASE ~s.listed -> 0
    [] s.listed /\ s.oracle = NoFeed -> s.fixed
    [] s.listed /\ s.oracle # NoFeed ->
         IF Usable(quotes[s.oracle], s)
         THEN Larger(s.fixed, SpreadRateCeil(quotes[s.oracle].rate, s.spread))
         ELSE 0

EffectiveRate(d, m, c) ==
  LET floor == EscrowFloor(currencies[d, m, c])
      k == delegated[d]
  IN CASE floor = 0 -> 0
       [] floor # 0 /\ k = NoManager -> floor
       [] floor # 0 /\ k # NoManager ->
            IF entries[k, m, c] > 0 THEN Larger(entries[k, m, c], floor) ELSE 0
-----------------------------------------------------------------------------
(* The pricing halves of the intent handlers.                              *)

\* A gating service that refuses to sign only keeps a call from being made.
Signal(t, d, m, a, cover, c, rate, recipient, referral) ==
  LET floor == EffectiveRate(d, m, c)
      k == delegated[d]
  IN /\ ValidReferralFees(referral)
     /\ floor > 0
     /\ rate >= floor
     /\ k # NoManager => managers[k].fee <= MaxFee
     /\ SignalIntent(t, d, m, a, cover)
     /\ terms' = [terms EXCEPT ![nextIntent] =
          [currency |-> c, rate |-> rate, recipient |-> recipient,
           manager |-> IF k = NoManager THEN NoOne ELSE managers[k].recipient,
           managerFee |-> IF k = NoManager THEN 0 ELSE managers[k].fee,
           referral |-> referral, protocolFee |-> protocol.fee]]
     /\ UNCHANGED <<marketVars, paid>>

\* Mutant: the manager's current fee is charged instead of the snapshot.
SettlementLive(i, a) ==
  LET k == delegated[intents[i].deposit] IN
  [release |-> a, protocolFee |-> protocol.fee, protocolTo |-> protocol.recipient,
   managerFee |-> IF k = NoManager THEN 0 ELSE managers[k].fee,
   managerTo |-> IF k = NoManager THEN NoOne ELSE managers[k].recipient,
   referral |-> terms[i].referral, recipient |-> terms[i].recipient]

\* The terms on which `a` is released for intent i: the protocol fee is the one
\* in force, the others are the intent's own.
Settlement(i, a) ==
  [release |-> a, protocolFee |-> protocol.fee, protocolTo |-> protocol.recipient,
   managerFee |-> terms[i].managerFee, managerTo |-> terms[i].manager,
   referral |-> terms[i].referral, recipient |-> terms[i].recipient]

\* The checks of distribute_funds that depend on fees.
Payable(s) ==
  /\ PreciseMulFloor(s.release, s.managerFee) > 0 => s.managerTo # NoOne
  /\ NetProceeds(s) > 0

\* distribute_funds: the legs of a settlement, all or none.
DistributeFunds(i, a) ==
  /\ Payable(Settlement(i, a))
  /\ paid' = [u \in Users |-> paid[u] + Due(u, Settlement(i, a))]
  /\ terms' = [terms EXCEPT ![i] = NoTerms]
  /\ UNCHANGED marketVars

DropTerms(i) ==
  /\ terms' = [terms EXCEPT ![i] = NoTerms]
  /\ UNCHANGED <<marketVars, paid>>

Cancel(t, i) == CancelIntent(t, i) /\ DropTerms(i)
Prune(i) == PruneExpiredIntent(i) /\ DropTerms(i)
Fulfill(i, p, attested) ==
  FulfillIntent(i, p, attested) /\ DistributeFunds(i, Released(i, attested))
Release(u, i) == ManualRelease(u, i) /\ DistributeFunds(i, intents[i].amount)
-----------------------------------------------------------------------------
MarketNext ==
  \/ \E f \in Feeds, rate \in Rates, valid \in BOOLEAN : UpdateOracleQuote(f, rate, valid)
  \/ \E u \in Users, d \in DepositIds :
       \/ \E m \in Methods, c \in Currencies, s \in CurrencySettings :
            ConfigureCurrency(u, d, m, c, s)
       \/ \E k \in ManagerIds \cup {NoManager} : SetDepositRateManager(u, d, k)

FeesNext ==
  \E c \in OrchestratorSettings, fee \in Fees, recipient \in Users :
    ConfigureFees(c, fee, recipient)

ManagerNext ==
  \/ \E s \in ManagerSettings : CreateRateManager(s)
  \/ \E u \in Users, k \in ManagerIds :
       \/ \E v \in Users, recipient \in Users \cup {NoOne} :
            SetRateManagerConfig(u, k, v, recipient)
       \/ \E fee \in Fees : SetManagerFee(u, k, fee)
       \/ \E min \in Amounts : SetManagerMinLiquidity(u, k, min)
       \/ \E m \in Methods, c \in Currencies, rate \in Rates : SetManagerRate(u, k, m, c, rate)

PricedIntentNext ==
  \/ \E t \in Users, d \in DepositIds, m \in Methods, a \in Amounts, cover \in BOOLEAN,
        c \in Currencies, rate \in Rates, recipient \in Users, referral \in Referrals :
       Signal(t, d, m, a, cover, c, rate, recipient, referral)
  \/ \E i \in IntentIds :
       \/ \E u \in Users : Cancel(u, i) \/ Release(u, i)
       \/ Prune(i)
       \/ \E p \in Payments, attested \in Amounts : Fulfill(i, p, attested)

UnpricedNext ==
  /\ \/ EscrowTick
     \/ \E c \in EscrowSettings : ConfigureEscrow(c)
     \/ \E g \in Users, i \in IntentIds, extra \in 1..MaxLifetime : ExtendIntentExpiry(g, i, extra)
  /\ UNCHANGED pricingVars

PricingNext ==
  \/ UnpricedNext \/ PricedMakerNext \/ MarketNext \/ FeesNext \/ ManagerNext
  \/ PricedIntentNext

PricingSpec == PricingInit /\ [][PricingNext]_pricedVars
-----------------------------------------------------------------------------
(* Correctness of prices and payouts.                                      *)

\* Quotes, currencies and manager rates have their types.
RatesTypeOK ==
  /\ quotes \in [Feeds -> OracleQuote]
  /\ currencies \in [DepositIds \X Methods \X Currencies -> DepositCurrency]
  /\ entries \in [ManagerIds \X Methods \X Currencies -> Nat]
  /\ paid \in [Users -> Nat]

\* A manager's fee is within its own cap and the program's, and goes somewhere.
SoundManager(k) ==
  managers[k] # NoManager =>
    /\ managers[k].fee <= managers[k].maxFee
    /\ managers[k].maxFee <= MaxFee
    /\ managers[k].fee > 0 => managers[k].recipient # NoOne

\* Managers and the protocol fee keep to the caps; a deposit delegates to a
\* manager that exists.
MarketInv ==
  /\ managers \in [ManagerIds -> RateManager \cup {NoManager}]
  /\ nextManager \in 0..MaxManagers
  /\ delegated \in [DepositIds -> ManagerIds \cup {NoManager}]
  /\ protocol \in [fee : 0..MaxFee, recipient : Users]
  /\ \A k \in ManagerIds : SoundManager(k)
  /\ \A d \in DepositIds : delegated[d] # NoManager => managers[delegated[d]] # NoManager

\* The snapshot of a live intent is within the caps, and its manager fee goes
\* somewhere.
SoundTerms(i) ==
  /\ terms[i] \in IntentTerms
  /\ terms[i].managerFee <= MaxFee
  /\ terms[i].managerFee > 0 => terms[i].manager # NoOne
  /\ Sum(terms[i].referral, Users) <= MaxReferralFee

\* Exactly the live intents have terms, and those are sound.
TermsInv ==
  /\ terms \in [IntentIds -> IntentTerms \cup {NoTerms}]
  /\ \A i \in IntentIds : terms[i] # NoTerms <=> Active(i)
  /\ \A i \in IntentIds : Active(i) => SoundTerms(i)

\* The inductive invariant of pricing: pricing leaves the escrow's invariant
\* standing, and every fee that a settlement will charge is within the caps and
\* has somebody to go to.
PricingInv == EscrowInv /\ RatesTypeOK /\ MarketInv /\ TermsInv

\* Whatever governance and managers change after the signal, no fee can block a
\* settlement: for every amount a live intent can release, the manager's share
\* has somebody to go to and something is left for the recipient, so neither a
\* checked_sub nor the nonzero check of distribute_funds fails.
SettlementPayable ==
  \A i \in IntentIds : Active(i) =>
    \A a \in 1..intents[i].amount : Payable(Settlement(i, a))

\* An intent is signalled at a positive rate that is no lower than the fixed
\* floor of its currency, than the market rate with the spread, unrounded, on a
\* quote that was valid and fresh at that instant, and than the rate of the
\* manager the deposit delegates to, whose fee and recipient it snapshots.
SignalledAboveFloors ==
  [][\A i \in IntentIds : ~Active(i) /\ intents'[i] # NoIntent =>
       LET t == terms'[i]
           d == intents'[i].deposit
           s == currencies[d, intents'[i].method, t.currency]
           k == delegated[d]
       IN /\ s.listed
          /\ t.rate > 0
          /\ t.rate >= s.fixed
          /\ s.oracle # NoFeed =>
               LET q == quotes[s.oracle] IN
               /\ q.valid
               /\ q.updatedAt \in (now - s.staleness)..now
               /\ t.rate * Bps >= q.rate * (Bps + s.spread)
          /\ k # NoManager =>
               /\ entries[k, intents'[i].method, t.currency] \in 1..t.rate
               /\ t.managerFee = managers[k].fee]_pricedVars

\* The tokens a settlement takes from the vault are exactly the tokens it pays
\* out, and nothing else pays.
SettlementConserves ==
  [][LET released(i) == IF Active(i) /\ intents'[i] = NoIntent
                        THEN depositVault[intents[i].deposit] - depositVault'[intents[i].deposit]
                        ELSE 0
         gain(u) == paid'[u] - paid[u]
     IN /\ \A u \in Users : gain(u) >= 0
        /\ Sum([u \in Users |-> gain(u)], Users)
             = Sum([i \in IntentIds |-> released(i)], IntentIds)]_pricedVars

\* The recipient of an intent is paid, of every token released for it, at least
\* what the manager and referral fees agreed at the signal and the cap on the
\* protocol fee leave, whatever managers and governance have changed since.
ProceedsGuaranteed ==
  [][\A i \in IntentIds :
       LET d == intents[i].deposit
           a == depositVault[d] - depositVault'[d]
           t == terms[i]
       IN Active(i) /\ intents'[i] = NoIntent /\ a > 0 =>
            (paid'[t.recipient] - paid[t.recipient]) * Unit
              >= a * (Unit - MaxFee - t.managerFee - Sum(t.referral, Users))]_pricedVars

\* Every fee an intent pays was fixed when it was signalled.
FeesFixedAtSignal ==
  [][\A i \in IntentIds : Active(i) /\ intents'[i] = NoIntent /\ paid' # paid =>
       protocol.fee = terms[i].protocolFee]_pricedVars
=============================================================================
