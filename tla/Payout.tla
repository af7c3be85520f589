------------------------------- MODULE Payout -------------------------------
(***************************************************************************)
(* distribute_funds and transfer_exact of settlement.rs, leg by leg over   *)
(* token accounts.  The program compares the balance of the vault and of   *)
(* the credited account around every transfer.  The accounts named in the  *)
(* instruction were read when it started; a referral account is read when  *)
(* its leg begins, and the vault is reloaded after every leg.              *)
(*                                                                         *)
(* The legs are one instruction: an error undoes all of them.  The caller  *)
(* chooses the token accounts, so roles may share an account.              *)
(***************************************************************************)
EXTENDS FeeMath

CONSTANTS
  Owners,     \* owners of token accounts
  Accounts,   \* token accounts of the mint, the vault apart
  OwnerOf,    \* their owners
  NoAccount,  \* an optional account that is not passed
  Opening,    \* balances accounts start with
  Calls       \* settlements that are called

\* Token accounts passed for the roles of an agreement.
Tokens == [protocol : Accounts, manager : Accounts \cup {NoAccount}, recipient : Accounts,
           referral : [Owners -> Accounts]]

VARIABLES
  agreed,     \* the terms of the settlement
  tokens,     \* the accounts passed
  leg,        \* the leg that runs next, or how the instruction ended
  listed,     \* referral recipients still to be paid
  totalFees,  \* total_fees
  vault,      \* balance of the deposit vault
  vaultSeen,  \* the same, as last reloaded
  balance,    \* balances of the other accounts
  before      \* all balances when the instruction began

payoutVars == <<agreed, tokens, leg, listed, totalFees, vault, vaultSeen, balance, before>>

Legs == {"protocol", "manager", "referral", "net"}

\* How the legs appear to the specification of the whole.
Committed == leg = "committed"

\* What each owner's accounts have gained together.
Gained(o) ==
  LET gain == [t \in Accounts |-> IF OwnerOf[t] = o THEN balance[t] - before.balance[t] ELSE 0]
  IN Sum(gain, Accounts)

Atomic == INSTANCE AtomicPayout WITH
  outcome <- IF leg \in Legs THEN "running" ELSE leg,
  drawn <- IF Committed THEN before.vault - vault ELSE 0,
  received <- [o \in Owners |-> IF Committed THEN Gained(o) ELSE 0]

\* What signal_intent and the configuration handlers guarantee of a settlement
\* (Pricing.SettlementPayable), with a vault that holds the release
\* (Escrow.ExitsNeverBlocked).
Admissible(s) ==
  /\ s.release > 0
  /\ s.protocolFee <= MaxFee
  /\ s.managerFee <= MaxFee
  /\ ValidReferralFees(s.referral)

ASSUME PayoutAssumption ==
  /\ IsFiniteSet(Owners)
  /\ IsFiniteSet(Accounts)
  /\ OwnerOf \in [Accounts -> Owners]
  /\ NoAccount \notin Accounts
  /\ Opening \subseteq Nat
  /\ Calls \subseteq {s \in Atomic!Agreement : Admissible(s)} \X Tokens

PayoutInit ==
  /\ \E call \in Calls : agreed = call[1] /\ tokens = call[2]
  /\ leg = "protocol"
  /\ listed = {o \in Owners : agreed.referral[o] > 0}
  /\ totalFees = 0
  /\ vault \in {agreed.release, agreed.release + 1}
  /\ vaultSeen = vault
  /\ balance \in [Accounts -> Opening]
  /\ before = [vault |-> vault, balance |-> balance]
-----------------------------------------------------------------------------
(* transfer_exact                                                          *)

\* The transfer and both comparisons succeed; `seen` is the balance the program
\* holds for the credited account.
Transferable(account, seen, a) ==
  /\ a > 0
  /\ vault >= a
  /\ vaultSeen - (vault - a) = a
  /\ balance[account] + a - seen = a

\* Mutant: the vault is not reloaded.
TransferUnreloaded(account, a) ==
  /\ vault' = vault - a
  /\ balance' = [balance EXCEPT ![account] = @ + a]
  /\ UNCHANGED vaultSeen

Transfer(account, a) ==
  /\ vault' = vault - a
  /\ vaultSeen' = vault - a
  /\ balance' = [balance EXCEPT ![account] = @ + a]

\* A leg of zero moves nothing.
PayLeg(account, a) ==
  /\ IF a > 0 THEN Transfer(account, a) ELSE UNCHANGED <<vault, vaultSeen, balance>>
  /\ totalFees' = totalFees + a
  /\ UNCHANGED <<agreed, tokens, before>>
-----------------------------------------------------------------------------
(* The legs of distribute_funds, in order.                                 *)

ProtocolShare == PreciseMulFloor(agreed.release, agreed.protocolFee)
ManagerShare == PreciseMulFloor(agreed.release, agreed.managerFee)
ReferralShare(o) == PreciseMulFloor(agreed.release, agreed.referral[o])

\* The recipient's and the protocol's accounts are checked before any transfer.
ProtocolLegPasses ==
  /\ OwnerOf[tokens.recipient] = agreed.recipient
  /\ OwnerOf[tokens.protocol] = agreed.protocolTo
  /\ ProtocolShare > 0 =>
       Transferable(tokens.protocol, before.balance[tokens.protocol], ProtocolShare)

ManagerLegPasses ==
  IF ManagerShare > 0
  THEN /\ tokens.manager # NoAccount
       /\ OwnerOf[tokens.manager] = agreed.managerTo
       /\ Transferable(tokens.manager, before.balance[tokens.manager], ManagerShare)
  ELSE tokens.manager = NoAccount

\* The account is read here, so it may have been credited by an earlier leg.
ReferralLegPasses(o) ==
  /\ OwnerOf[tokens.referral[o]] = o
  /\ ReferralShare(o) > 0 =>
       Transferable(tokens.referral[o], balance[tokens.referral[o]], ReferralShare(o))

NetLegPasses ==
  Transferable(tokens.recipient, before.balance[tokens.recipient],
               agreed.release - totalFees)

PayProtocol ==
  /\ leg = "protocol"
  /\ ProtocolLegPasses
  /\ PayLeg(tokens.protocol, ProtocolShare)
  /\ leg' = "manager"
  /\ UNCHANGED listed

\* Mutant: the manager's share is paid and not counted.
PayManagerUncounted ==
  /\ leg = "manager"
  /\ ManagerLegPasses
  /\ IF ManagerShare > 0 THEN Transfer(tokens.manager, ManagerShare)
                         ELSE UNCHANGED <<vault, vaultSeen, balance>>
  /\ leg' = "referral"
  /\ UNCHANGED <<agreed, tokens, before, listed, totalFees>>

PayManager ==
  /\ leg = "manager"
  /\ ManagerLegPasses
  /\ PayLeg(tokens.manager, ManagerShare)
  /\ leg' = "referral"
  /\ UNCHANGED listed

\* The list fixes an order of its recipients; their accounts differ, because
\* the recipients do, so any order stands for it.
PayReferral(o) ==
  /\ leg = "referral"
  /\ o \in listed
  /\ ReferralLegPasses(o)
  /\ PayLeg(tokens.referral[o], ReferralShare(o))
  /\ listed' = listed \ {o}
  /\ UNCHANGED leg

ReferralsDone ==
  /\ leg = "referral"
  /\ listed = {}
  /\ leg' = "net"
  /\ UNCHANGED <<agreed, tokens, listed, totalFees, vault, vaultSeen, balance, before>>

PayNet ==
  /\ leg = "net"
  /\ NetLegPasses
  /\ Transfer(tokens.recipient, agreed.release - totalFees)
  /\ leg' = "committed"
  /\ UNCHANGED <<agreed, tokens, listed, totalFees, before>>

\* An error in any leg undoes the instruction.
Fail ==
  /\ \/ leg = "protocol" /\ ~ProtocolLegPasses
     \/ leg = "manager" /\ ~ManagerLegPasses
     \/ leg = "referral" /\ \E o \in listed : ~ReferralLegPasses(o)
     \/ leg = "net" /\ ~NetLegPasses
  /\ leg' = "aborted"
  /\ vault' = before.vault
  /\ vaultSeen' = before.vault
  /\ balance' = before.balance
  /\ UNCHANGED <<agreed, tokens, listed, totalFees, before>>

PayoutNext ==
  \/ PayProtocol \/ PayManager \/ ReferralsDone \/ PayNet \/ Fail
  \/ \E o \in Owners : PayReferral(o)

\* The runtime executes an instruction to its end.
PayoutSpec == PayoutInit /\ [][PayoutNext]_payoutVars /\ WF_payoutVars(PayoutNext)
-----------------------------------------------------------------------------
(* Correctness of the payout.                                              *)

\* The legs together do what a settlement promises, whichever accounts the
\* caller passes: the vault loses exactly the release and every owner gains
\* exactly its shares, or nothing moves.
PayoutIsAtomic == Atomic!AtomicSpec

\* The caller names an account of the right owner for every share, no two
\* roles share one, and a manager's account is passed when it is paid.
ProperTokens ==
  LET roles == {tokens.protocol, tokens.recipient}
               \cup (IF ManagerShare > 0 THEN {tokens.manager} ELSE {})
               \cup {tokens.referral[o] : o \in {p \in Owners : agreed.referral[p] > 0}}
      shares == 2 + (IF ManagerShare > 0 THEN 1 ELSE 0)
                  + Cardinality({o \in Owners : agreed.referral[o] > 0})
  IN /\ OwnerOf[tokens.protocol] = agreed.protocolTo
     /\ OwnerOf[tokens.recipient] = agreed.recipient
     /\ IF ManagerShare > 0
        THEN tokens.manager # NoAccount /\ OwnerOf[tokens.manager] = agreed.managerTo
        ELSE tokens.manager = NoAccount
     /\ \A o \in Owners : agreed.referral[o] > 0 => OwnerOf[tokens.referral[o]] = o
     /\ Cardinality(roles) = shares

\* Balances that are compared with stale readings never refuse a settlement
\* whose accounts are distinct: it runs to its end and commits.
ProperPayoutCommits == ProperTokens ~> Committed
=============================================================================
