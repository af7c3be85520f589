----------------------------- MODULE MCPricing ------------------------------
(* Small instances of pricing for TLC.                                     *)
EXTENDS Pricing, TLC

CONSTANTS maker, taker

MCTerms == {[depositor |-> maker, delegate |-> NoOne, guardian |-> maker,
             min |-> 3, max |-> 5]}

MCEscrowSettings ==
  {[paused |-> FALSE, maxIntents |-> 1, period |-> 1, dustThreshold |-> 0]}

MCOrchestratorSettings ==
  {[paused |-> FALSE, allowMultiple |-> TRUE, policy |-> "None"]}

\* A fixed floor, an oracle with a spread and a lower fixed floor, a currency
\* taken off the list, and settings that are refused.
Fixed == [Unlisted EXCEPT !.listed = TRUE, !.fixed = 1]

MCCurrencySettings ==
  {Fixed,
   [listed |-> TRUE, fixed |-> 1, oracle |-> CHOOSE f \in Feeds : TRUE, spread |-> 1,
    staleness |-> 1],
   Unlisted, [Unlisted EXCEPT !.listed = TRUE], [Unlisted EXCEPT !.spread = -Bps]}

\* A free manager, one with a fee, and settings that are refused.
MCManagerSettings ==
  LET free == [manager |-> maker, recipient |-> NoOne, maxFee |-> MaxFee, fee |-> 0,
               min |-> 0]
  IN {free, [free EXCEPT !.recipient = maker, !.fee = MaxFee, !.min = 5],
      [free EXCEPT !.fee = MaxFee], [free EXCEPT !.maxFee = MaxFee + 1],
      [free EXCEPT !.maxFee = 0, !.fee = MaxFee, !.recipient = maker]}

\* No referral, two recipients at the cap together, and above it.
MCReferrals ==
  {[u \in Users |-> 0], [u \in Users |-> 1], [u \in Users |-> MaxReferralFee]}

\* What is explored: escrow handlers that do not meet pricing have runs of
\* their own, so a state they lead to is checked and not continued.
Focused ==
  /\ \A d \in DepositIds : Unaccounted(d) = 0
  /\ retained = {}
  /\ nextDeposit = 0 \/ orchestrator \in OrchestratorSettings
  /\ covered = {}
  /\ \A d \in DepositIds : Open(d) => methods[d] = Methods /\ d \in accepting
  /\ \A i \in IntentIds : Active(i) => intents[i].owner = taker /\ terms[i].recipient = taker
  /\ protocol.recipient = maker
  /\ \A k \in ManagerIds : managers[k] # NoManager => managers[k].manager = maker

\* Every market an intent can be signalled in; the signal itself is checked.
OnRates ==
  /\ nextIntent = 0
  /\ protocol.fee = 0
  /\ \A d \in DepositIds : d < nextDeposit => Open(d) /\ remaining[d] = Supply
  /\ \A k \in ManagerIds : managers[k] # NoManager =>
       managers[k].recipient = NoOne /\ managers[k].fee = 0

\* Fees that change between the signal and the settlement, at one rate; the end
\* of the intent is checked.
OnFees ==
  /\ \A i \in IntentIds : i < nextIntent => Active(i)
  /\ now <= 2
  /\ quotes = [f \in Feeds |-> Unquoted]
  /\ \A d \in DepositIds : d < nextDeposit => Open(d)
  /\ \A k \in DOMAIN currencies : Open(k[1]) => currencies[k] = Fixed
  /\ \A k \in DOMAIN entries : entries[k] \in {0, 1}
  /\ \A k \in ManagerIds : managers[k] # NoManager => managers[k].min \in {0, Supply}
  /\ \A i \in IntentIds : Active(i) =>
       terms[i].rate = 1 /\ intentLocks[i].expiry = intentLocks[i].timestamp + 1

Explored == Focused /\ (OnRates \/ OnFees)

\* Payments are interchangeable.
Symmetric == Permutations(Payments)
=============================================================================
