----------------------------- MODULE MCProtocol -----------------------------
(* Small instances of the composed protocol for TLC.                       *)
EXTENDS Protocol, TLC

CONSTANTS maker, taker

MCTerms == {[depositor |-> maker, delegate |-> NoOne, guardian |-> maker,
             min |-> 1, max |-> 2]}

MCEscrowSettings ==
  {[paused |-> FALSE, maxIntents |-> 2, period |-> 1, dustThreshold |-> 0]}

MCPausableSettings ==
  {[paused |-> p, maxIntents |-> 2, period |-> 1, dustThreshold |-> 0] : p \in BOOLEAN}

MCOrchestratorSettings ==
  {[paused |-> FALSE, allowMultiple |-> TRUE, policy |-> "WhitelistAndDispute"]}

\* With one intent there is nothing for allowMultiple to decide.
MCSingleSettings ==
  {[paused |-> FALSE, allowMultiple |-> FALSE, policy |-> "WhitelistAndDispute"]}

\* What is explored: the escrow and stake handlers that do not meet the dispute
\* handlers (donations, retention, method switches, idle claim accounts, loans
\* in the other direction) have runs of their own, so a state they lead to is
\* checked and not continued.
Focused ==
  /\ Surplus = 0
  /\ \A d \in DepositIds : Unaccounted(d) = 0
  /\ retained = {}
  /\ nextDeposit = 0 \/ orchestrator \in OrchestratorSettings
  /\ \A d \in DepositIds : Open(d) => methods[d] = Methods
  /\ claimOpen \subseteq {maker}
  /\ authorized \subseteq {<<maker, taker>>}
  /\ \A i \in IntentIds : Active(i) => intents[i].owner = taker
  /\ accepting = {d \in DepositIds : Open(d)}
  /\ ~(admissionsPaused /\ optedOut # {})
  /\ \A m \in Methods : admissionsPaused \/ optedOut # {} => riskWindow[m] \notin {0, NoWindow}

\* One intent of any size, with every configuration of disputes, until neither
\* it nor its collateral is left.
Alone ==
  /\ nextIntent = 0 \/ (nextIntent = 1 /\ (Active(0) \/ Live(0)))
  /\ pending = NoOne /\ Protecting

\* Intents of one token on the taker's own stake, with disputes on.
Plain ==
  /\ \A i \in IntentIds : disputes[i] # NoDispute => disputes[i].lockedAmount = 1
  /\ \A i \in IntentIds : Active(i) => intents[i].amount = 1
  /\ balance[maker] = 0
  /\ authorized = {}
  /\ ~admissionsPaused
  /\ optedOut = {}
  /\ \A m \in Methods : riskWindow[m] # 0

\* Two plain intents share a stake position, or one lives through a handover.
Pair == Plain /\ pending = NoOne /\ Protecting
Handover == Plain /\ nextIntent <= 1

Explored == Focused /\ (Alone \/ Pair \/ Handover)

\* Payments and pieces of evidence are interchangeable.
Symmetric == Permutations(Payments) \cup Permutations(DisputeIds)
=============================================================================
