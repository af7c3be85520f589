-------------------------- MODULE SettlementProofs --------------------------
(***************************************************************************)
(* Settling an intent: how it is paid out, and which evidence counts.      *)
(*                                                                         *)
(* The legs of distribute_funds implement one atomic payment, whichever    *)
(* token accounts the caller passes: the invariant says what has been paid *)
(* when a leg begins, and the last leg completes what every owner is due.  *)
(*                                                                         *)
(* The payment verifier, for any number of keys, witnesses, methods,       *)
(* intents and statements: its threshold can always be met, only a quorum  *)
(* of the current witnesses settles or disputes, and such a quorum is      *)
(* enough.  The counting arguments are the two lemmas on signature lists:  *)
(* a list that passes names as many different witnesses as it is long, and *)
(* the signatures of a set of witnesses can be listed so that it passes.   *)
(***************************************************************************)
EXTENDS Payout, Verifier, SumsProofs, SequenceTheorems, TLAPS

-----------------------------------------------------------------------------
(* PAYOUT.                                                                 *)


\* What the legs that have run were for; an owner that is not listed for a
\* referral has a share of zero.
ProtocolPaid == IF leg = "protocol" THEN 0 ELSE ProtocolShare
ManagerPaid == IF leg \in {"protocol", "manager"} THEN 0 ELSE ManagerShare
ReferralPaid == [o \in Owners |-> IF o \in listed THEN 0 ELSE ReferralShare(o)]

Part(o, owner, share) == IF o = owner THEN share ELSE 0

PayoutTypeOK ==
  /\ agreed \in Atomic!Agreement
  /\ tokens \in Tokens
  /\ leg \in Legs \cup {"committed", "aborted"}
  /\ before.vault \in Nat
  /\ before.balance \in [Accounts -> Nat]

\* Between two legs the vault is short of exactly the fees counted, the fees
\* counted are the shares of the legs that ran, every owner has gained its
\* shares among them, and the recipient's account has been checked.
LegsInv ==
  /\ listed \subseteq Owners
  /\ totalFees \in Nat
  /\ balance \in [Accounts -> Nat]
  /\ \A t \in Accounts : balance[t] >= before.balance[t]
  /\ vault = before.vault - totalFees
  /\ totalFees = ProtocolPaid + ManagerPaid + Sum(ReferralPaid, Owners)
  /\ \A o \in Owners : Gained(o) = Part(o, agreed.protocolTo, ProtocolPaid)
                                     + Part(o, agreed.managerTo, ManagerPaid) + ReferralPaid[o]
  /\ leg # "protocol" => OwnerOf[tokens.recipient] = agreed.recipient
  /\ leg = "net" => listed = {}

PayoutInv == PayoutTypeOK /\ (leg \in Legs => LegsInv)
-----------------------------------------------------------------------------
(* Shares and gains.                                                       *)

\* A floored share of an amount is a natural number.
LEMMA ShareNat ==
  ASSUME NEW a \in Nat, NEW f \in Nat
  PROVE  PreciseMulFloor(a, f) \in Nat
<1>1. Unit \in Nat \ {0} /\ a * f \in Nat
  BY FeeAssumption, SMT
<1> DEFINE x == a * f
<1>2. x \in Nat
  BY <1>1, Zenon
<1> HIDE DEF x
<1>3. x \div Unit \in Nat
  BY <1>1, <1>2, SMT
<1> QED
  BY <1>3, Zenon DEF PreciseMulFloor, x

\* The shares of a well-formed agreement are natural numbers, and a referral
\* without a fee has a share of zero.
LEMMA SharesNat ==
  ASSUME agreed \in Atomic!Agreement
  PROVE  /\ ProtocolShare \in Nat /\ ManagerShare \in Nat
         /\ \A o \in Owners : ReferralShare(o) \in Nat
         /\ \A o \in Owners : ~(agreed.referral[o] > 0) => ReferralShare(o) = 0
<1>1. /\ agreed.release \in Nat /\ agreed.protocolFee \in Nat /\ agreed.managerFee \in Nat
      /\ agreed.referral \in [Owners -> Nat]
  BY SMTT(60) DEF Atomic!Agreement
<1>2. ProtocolShare \in Nat /\ ManagerShare \in Nat
  BY <1>1, ShareNat, Zenon DEF ProtocolShare, ManagerShare
<1>3. \A o \in Owners : agreed.referral[o] \in Nat
  BY <1>1, Zenon
<1>4. \A o \in Owners : ReferralShare(o) \in Nat
  BY <1>1, <1>3, ShareNat, Zenon DEF ReferralShare
<1>5. ASSUME NEW o \in Owners, ~(agreed.referral[o] > 0) PROVE ReferralShare(o) = 0
  <2> DEFINE f == agreed.referral[o]
             a == agreed.release
  <2>1. f \in Nat /\ a \in Nat /\ ~(f > 0)
    BY <1>1, <1>3, <1>5, Zenon
  <2> HIDE DEF f, a
  <2>2. f = 0
    BY <2>1, SMT
  <2>3. (a * 0) \div Unit = 0
    BY <2>1, FeeAssumption, SMT
  <2> QED BY <2>2, <2>3, Zenon DEF ReferralShare, PreciseMulFloor, f, a
<1> QED
  BY <1>2, <1>4, <1>5, Zenon

\* Crediting an account takes no balance below where it was.
LEMMA CreditStep ==
  ASSUME NEW z \in [Accounts -> Nat], NEW b \in [Accounts -> Nat],
         \A t \in Accounts : b[t] >= z[t], NEW account \in Accounts, NEW a \in Nat
  PROVE  /\ [b EXCEPT ![account] = @ + a] \in [Accounts -> Nat]
         /\ \A t \in Accounts : [b EXCEPT ![account] = @ + a][t] >= z[t]
BY SMT

\* What the accounts of owner o hold under balances b beyond balances z.
GainOver(b, z, o) == Sum([t \in Accounts |-> IF OwnerOf[t] = o THEN b[t] - z[t] ELSE 0], Accounts)

\* Crediting an account is a gain of its owner and of nobody else.
LEMMA GainStep ==
  ASSUME NEW z \in [Accounts -> Nat], NEW b \in [Accounts -> Nat],
         \A t \in Accounts : b[t] >= z[t],
         NEW account \in Accounts, NEW a \in Nat, NEW o
  PROVE  GainOver([b EXCEPT ![account] = @ + a], z, o)
           = GainOver(b, z, o) + Part(o, OwnerOf[account], a)
<1> DEFINE c == [b EXCEPT ![account] = @ + a]
           f == [t \in Accounts |-> IF OwnerOf[t] = o THEN b[t] - z[t] ELSE 0]
           g == [t \in Accounts |-> IF OwnerOf[t] = o THEN c[t] - z[t] ELSE 0]
<1>1. c \in [Accounts -> Nat] /\ c[account] = b[account] + a
      /\ \A t \in Accounts \ {account} : c[t] = b[t]
  BY SMT
<1> HIDE DEF c
<1>2. \A t \in Accounts : c[t] >= z[t]
  BY <1>1, SMT
<1>3. f \in [Accounts -> Nat] /\ g \in [Accounts -> Nat]
  <2>1. \A t \in Accounts : b[t] - z[t] \in Nat /\ c[t] - z[t] \in Nat
    BY <1>1, <1>2, SMTT(60)
  <2> QED BY <2>1, SMT
<1>4. \A t \in Accounts \ {account} : g[t] = f[t]
  BY <1>1, Zenon
<1>5. g[account] = f[account] + Part(o, OwnerOf[account], a)
  <2>1. CASE OwnerOf[account] = o
    <3>1. f[account] = b[account] - z[account] /\ g[account] = c[account] - z[account]
          /\ Part(o, OwnerOf[account], a) = a
      BY <2>1, Zenon DEF Part
    <3>2. b[account] \in Nat /\ z[account] \in Nat
      BY Zenon
    <3> HIDE DEF f, g
    <3> QED BY <1>1, <3>1, <3>2, SMTT(60)
  <2>2. CASE OwnerOf[account] # o
    <3>1. f[account] = 0 /\ g[account] = 0 /\ Part(o, OwnerOf[account], a) = 0
      BY <2>2, Zenon DEF Part
    <3> HIDE DEF f, g
    <3> QED BY <3>1, SMT
  <2> QED BY <2>1, <2>2, Zenon
<1>6. Part(o, OwnerOf[account], a) \in Nat
  BY SMT DEF Part
<1> HIDE DEF f, g
<1>7. Sum(g, Accounts) = Sum(f, Accounts) - f[account] + g[account]
  <2>1. IsFiniteSet(Accounts)
    BY PayoutAssumption, Zenon
  <2> QED BY <1>3, <1>4, <2>1, SumStep, SMTT(60)
<1>8. Sum(f, Accounts) \in Nat
  BY <1>3, PayoutAssumption, SumType, Zenon
<1>9. f[account] \in Nat /\ g[account] \in Nat
  BY <1>3, Zenon
<1>10. Sum(g, Accounts) = Sum(f, Accounts) + Part(o, OwnerOf[account], a)
  BY <1>5, <1>6, <1>7, <1>8, <1>9, SMTT(60)
<1> QED
  BY <1>10, Zenon DEF GainOver, f, g, c
-----------------------------------------------------------------------------
(* The legs.                                                               *)

\* The effect of a leg that pays `a` to `account`.
LEMMA LegPays ==
  ASSUME PayoutTypeOK, LegsInv, NEW account, NEW a \in Nat, a > 0 => account \in Accounts,
         PayLeg(account, a)
  PROVE  /\ totalFees' = totalFees + a /\ totalFees' \in Nat
         /\ balance' \in [Accounts -> Nat]
         /\ \A t \in Accounts : balance'[t] >= before.balance[t]
         /\ vault' = before.vault - totalFees'
         /\ \A o : Gained(o)' = Gained(o) + Part(o, OwnerOf[account], a)
         /\ UNCHANGED <<agreed, tokens, before>>
<1>1. /\ totalFees \in Nat /\ balance \in [Accounts -> Nat]
      /\ \A t \in Accounts : balance[t] >= before.balance[t]
      /\ vault = before.vault - totalFees
  BY Zenon DEF LegsInv
<1>2. before.vault \in Nat /\ before.balance \in [Accounts -> Nat]
  BY Zenon DEF PayoutTypeOK
<1>3. totalFees' = totalFees + a /\ UNCHANGED <<agreed, tokens, before>>
  BY Zenon DEF PayLeg
<1>4. totalFees' \in Nat
  BY <1>1, <1>3, SMTT(60)
<1>5. \A o : /\ Gained(o) = GainOver(balance, before.balance, o)
             /\ Gained(o)' = GainOver(balance', before.balance, o)
  BY <1>3, Zenon DEF Gained, GainOver
<1>6. CASE a > 0
  <2>1. /\ account \in Accounts /\ vault' = vault - a
        /\ balance' = [balance EXCEPT ![account] = @ + a]
    BY <1>6, Zenon DEF PayLeg, Transfer
  <2>2. /\ balance' \in [Accounts -> Nat]
        /\ \A t \in Accounts : balance'[t] >= before.balance[t]
    <3> DEFINE z == before.balance
    <3>1. z \in [Accounts -> Nat] /\ \A t \in Accounts : balance[t] >= z[t]
      BY <1>1, <1>2, Zenon
    <3> HIDE DEF z
    <3>2. balance' \in [Accounts -> Nat] /\ \A t \in Accounts : balance'[t] >= z[t]
      BY <1>1, <2>1, <3>1, CreditStep, Zenon
    <3> QED BY <3>2, Zenon DEF z
  <2>3. vault' = before.vault - totalFees'
    <3> DEFINE v == before.vault
    <3>1. v \in Nat /\ vault = v - totalFees
      BY <1>1, <1>2, Zenon
    <3> HIDE DEF v
    <3>2. vault' = v - totalFees'
      BY <1>1, <1>3, <2>1, <3>1, SMTT(60)
    <3> QED BY <3>2, Zenon DEF v
  <2>4. \A o : GainOver(balance', before.balance, o)
                = GainOver(balance, before.balance, o) + Part(o, OwnerOf[account], a)
    <3> DEFINE z == before.balance
    <3>1. z \in [Accounts -> Nat] /\ \A t \in Accounts : balance[t] >= z[t]
      BY <1>1, <1>2, Zenon
    <3> HIDE DEF z
    <3>2. \A o : GainOver([balance EXCEPT ![account] = @ + a], z, o)
                  = GainOver(balance, z, o) + Part(o, OwnerOf[account], a)
      BY <1>1, <2>1, <3>1, GainStep, Zenon
    <3> QED BY <2>1, <3>2, ZenonT(60) DEF z
  <2> QED BY <1>3, <1>4, <1>5, <2>2, <2>3, <2>4, ZenonT(60)
<1>7. CASE ~(a > 0)
  <2>1. UNCHANGED <<vault, balance>>
    BY <1>7, Zenon DEF PayLeg
  <2>2. a = 0
    BY <1>7, SMTT(60)
  <2>3. totalFees' = totalFees
    BY <1>1, <1>3, <2>2, SMTT(60)
  <2>4. \A o : GainOver(balance, before.balance, o) \in Nat
    <3> SUFFICES ASSUME NEW o PROVE GainOver(balance, before.balance, o) \in Nat
      OBVIOUS
    <3> DEFINE z == before.balance
               f == [t \in Accounts |-> IF OwnerOf[t] = o THEN balance[t] - z[t] ELSE 0]
    <3>1. z \in [Accounts -> Nat] /\ \A t \in Accounts : balance[t] >= z[t]
      BY <1>1, <1>2, Zenon
    <3>2. f \in [Accounts -> Nat]
      <4> HIDE DEF z
      <4>1. \A t \in Accounts : balance[t] - z[t] \in Nat
        BY <1>1, <3>1, SMTT(60)
      <4> QED BY <4>1, SMTT(60)
    <3>3. Sum(f, Accounts) \in Nat
      BY <3>2, PayoutAssumption, SumType, Zenon
    <3> QED BY <3>3, Zenon DEF GainOver
  <2>5. \A o : Gained(o)' = Gained(o) + Part(o, OwnerOf[account], a)
    <3> SUFFICES ASSUME NEW o PROVE Gained(o)' = Gained(o) + Part(o, OwnerOf[account], a)
      OBVIOUS
    <3>1. Gained(o)' = Gained(o) /\ Gained(o) \in Nat
      BY <1>5, <2>1, <2>4, Zenon
    <3>2. Part(o, OwnerOf[account], a) = 0
      BY <2>2, Zenon DEF Part
    <3> DEFINE x == Gained(o)
    <3>3. x \in Nat
      BY <3>1, Zenon
    <3> HIDE DEF x
    <3>4. x = x + 0
      BY <3>3, SMTT(60)
    <3> QED BY <3>1, <3>2, <3>4, ZenonT(60) DEF x
  <2> QED BY <1>1, <1>3, <1>4, <2>1, <2>3, <2>5, ZenonT(60)
<1> QED
  BY <1>6, <1>7, Zenon

\* The shares counted for an owner.
Counted(o) == Part(o, agreed.protocolTo, ProtocolPaid) + Part(o, agreed.managerTo, ManagerPaid)
                + ReferralPaid[o]

\* A leg preserves the invariant when it counts for the total, and for the
\* owner of the account, what it pays.
LEMMA LegKeeps ==
  ASSUME PayoutTypeOK, LegsInv, NEW account, NEW a \in Nat, a > 0 => account \in Accounts,
         PayLeg(account, a), listed' \subseteq Owners, leg' # "net",
         OwnerOf[tokens.recipient] = agreed.recipient,
         ProtocolPaid' + ManagerPaid' + Sum(ReferralPaid', Owners) = totalFees + a,
         \A o \in Owners : Counted(o)' = Counted(o) + Part(o, OwnerOf[account], a)
  PROVE  LegsInv'
<1>1. /\ totalFees' = totalFees + a /\ totalFees' \in Nat
      /\ balance' \in [Accounts -> Nat]
      /\ \A t \in Accounts : balance'[t] >= before.balance[t]
      /\ vault' = before.vault - totalFees'
      /\ \A o : Gained(o)' = Gained(o) + Part(o, OwnerOf[account], a)
      /\ UNCHANGED <<agreed, tokens, before>>
  BY LegPays, Zenon
<1>2. \A o \in Owners : Gained(o) = Counted(o)
  BY Zenon DEF LegsInv, Counted
<1>3. \A o \in Owners : Gained(o)' = Counted(o)'
  BY <1>1, <1>2, Zenon
<1>4. totalFees' = ProtocolPaid' + ManagerPaid' + Sum(ReferralPaid', Owners)
  BY <1>1, Zenon
<1> QED
  BY <1>1, <1>3, <1>4, Zenon DEF LegsInv, Counted

\* What has been counted, as numbers.
LEMMA PaidTypes ==
  ASSUME PayoutTypeOK
  PROVE  /\ ProtocolPaid \in Nat /\ ManagerPaid \in Nat
         /\ ReferralPaid \in [Owners -> Nat] /\ Sum(ReferralPaid, Owners) \in Nat
<1>1. /\ ProtocolShare \in Nat /\ ManagerShare \in Nat
      /\ \A o \in Owners : ReferralShare(o) \in Nat
  BY SharesNat, Zenon DEF PayoutTypeOK
<1>2. ProtocolPaid \in Nat /\ ManagerPaid \in Nat
  BY <1>1, SMT DEF ProtocolPaid, ManagerPaid
<1>3. ReferralPaid \in [Owners -> Nat]
  BY <1>1, SMT DEF ReferralPaid
<1>4. Sum(ReferralPaid, Owners) \in Nat
  BY <1>3, PayoutAssumption, SumType, Zenon
<1> QED
  BY <1>2, <1>3, <1>4, Zenon

\* An owner's part of an amount is a natural number.
LEMMA PartNat == ASSUME NEW o, NEW w, NEW a \in Nat PROVE Part(o, w, a) \in Nat
BY SMT DEF Part

\* The account names of a call.
LEMMA TokenTypes ==
  ASSUME PayoutTypeOK
  PROVE  /\ tokens.protocol \in Accounts /\ tokens.recipient \in Accounts
         /\ tokens.manager \in Accounts \cup {NoAccount}
         /\ \A o \in Owners : tokens.referral[o] \in Accounts
BY Zenon DEF PayoutTypeOK, Tokens

\* The transfer of the protocol's fee.
LEMMA ProtocolLegKeeps ==
  ASSUME PayoutTypeOK, LegsInv, PayProtocol
  PROVE  LegsInv'
<1> DEFINE P == ProtocolShare
           R == Sum(ReferralPaid, Owners)
<1>1. /\ leg = "protocol" /\ leg' = "manager" /\ listed' = listed /\ agreed' = agreed
      /\ PayLeg(tokens.protocol, P) /\ OwnerOf[tokens.protocol] = agreed.protocolTo
      /\ OwnerOf[tokens.recipient] = agreed.recipient
  BY Zenon DEF PayProtocol, ProtocolLegPasses, PayLeg
<1>2. P \in Nat
  BY SharesNat, Zenon DEF PayoutTypeOK
<1>3. /\ ProtocolPaid = 0 /\ ManagerPaid = 0
      /\ ProtocolPaid' = P /\ ManagerPaid' = 0 /\ ReferralPaid' = ReferralPaid
  BY <1>1, Zenon DEF ProtocolPaid, ManagerPaid, ReferralPaid, ProtocolShare, ReferralShare
<1>4. R \in Nat /\ ReferralPaid \in [Owners -> Nat]
  BY PaidTypes, Zenon
<1>5. totalFees = 0 + 0 + R
  BY <1>3, Zenon DEF LegsInv
<1> HIDE DEF P, R
<1>6. P + 0 + R = totalFees + P
  BY <1>2, <1>4, <1>5, SMTT(60)
<1>7. ASSUME NEW o \in Owners
      PROVE  Counted(o)' = Counted(o) + Part(o, OwnerOf[tokens.protocol], P)
  <2> DEFINE x == Part(o, agreed.protocolTo, P)
             r == ReferralPaid[o]
  <2>1. Counted(o)' = x + Part(o, agreed.managerTo, 0) + r
    BY <1>1, <1>3, Zenon DEF Counted
  <2>2. Counted(o) = Part(o, agreed.protocolTo, 0) + Part(o, agreed.managerTo, 0) + r
    BY <1>3, Zenon DEF Counted
  <2>3. Part(o, agreed.protocolTo, 0) = 0 /\ Part(o, agreed.managerTo, 0) = 0
    BY Zenon DEF Part
  <2>4. x \in Nat /\ r \in Nat
    BY <1>2, <1>4, PartNat, Zenon
  <2> HIDE DEF x, r
  <2>5. x + 0 + r = 0 + 0 + r + x
    BY <2>4, SMT
  <2> QED BY <1>1, <2>1, <2>2, <2>3, <2>5, ZenonT(60) DEF x
<1>8. ProtocolPaid' + ManagerPaid' + Sum(ReferralPaid', Owners) = totalFees + P
  BY <1>3, <1>6, Zenon DEF R
<1>9. tokens.protocol \in Accounts /\ listed' \subseteq Owners /\ leg' # "net"
  BY <1>1, TokenTypes, Zenon DEF LegsInv
<1> QED
  BY <1>1, <1>2, <1>7, <1>8, <1>9, LegKeeps, ZenonT(60)

\* The transfer of the rate manager's fee.
LEMMA ManagerLegKeeps ==
  ASSUME PayoutTypeOK, LegsInv, PayManager
  PROVE  LegsInv'
<1> DEFINE M == ManagerShare
           P == ProtocolShare
           R == Sum(ReferralPaid, Owners)
<1>1. /\ leg = "manager" /\ leg' = "referral" /\ listed' = listed /\ agreed' = agreed
      /\ PayLeg(tokens.manager, M) /\ ManagerLegPasses
  BY Zenon DEF PayManager, PayLeg
<1>2. M \in Nat /\ P \in Nat
  BY SharesNat, Zenon DEF PayoutTypeOK
<1>3. /\ ProtocolPaid = P /\ ManagerPaid = 0
      /\ ProtocolPaid' = P /\ ManagerPaid' = M /\ ReferralPaid' = ReferralPaid
  BY <1>1, Zenon DEF ProtocolPaid, ManagerPaid, ReferralPaid, ProtocolShare, ManagerShare,
     ReferralShare
<1>4. R \in Nat /\ ReferralPaid \in [Owners -> Nat]
  BY PaidTypes, Zenon
<1>5. totalFees = P + 0 + R
  BY <1>3, Zenon DEF LegsInv
<1>6. M > 0 => tokens.manager \in Accounts /\ OwnerOf[tokens.manager] = agreed.managerTo
  BY <1>1, TokenTypes, Zenon DEF ManagerLegPasses
<1> HIDE DEF P, M, R
<1>7. P + M + R = totalFees + M
  BY <1>2, <1>4, <1>5, SMTT(60)
<1>8. \A o : Part(o, OwnerOf[tokens.manager], M) = Part(o, agreed.managerTo, M)
  <2>1. CASE M > 0
    BY <1>6, <2>1, Zenon
  <2>2. CASE ~(M > 0)
    <3>1. M = 0
      BY <1>2, <2>2, SMTT(60)
    <3> QED BY <3>1, Zenon DEF Part
  <2> QED BY <2>1, <2>2, Zenon
<1>9. ASSUME NEW o \in Owners
      PROVE  Counted(o)' = Counted(o) + Part(o, OwnerOf[tokens.manager], M)
  <2> DEFINE x == Part(o, agreed.managerTo, M)
             p == Part(o, agreed.protocolTo, P)
             r == ReferralPaid[o]
  <2>1. Counted(o)' = p + x + r
    BY <1>1, <1>3, Zenon DEF Counted
  <2>2. Counted(o) = p + Part(o, agreed.managerTo, 0) + r
    BY <1>3, Zenon DEF Counted
  <2>3. Part(o, agreed.managerTo, 0) = 0
    BY Zenon DEF Part
  <2>4. x \in Nat /\ r \in Nat /\ p \in Nat
    BY <1>2, <1>4, PartNat, Zenon
  <2> HIDE DEF x, r, p
  <2>5. p + x + r = p + 0 + r + x
    BY <2>4, SMTT(60)
  <2> QED BY <1>8, <2>1, <2>2, <2>3, <2>5, ZenonT(60) DEF x
<1>10. ProtocolPaid' + ManagerPaid' + Sum(ReferralPaid', Owners) = totalFees + M
  BY <1>3, <1>7, Zenon DEF R
<1>11. /\ listed' \subseteq Owners /\ leg' # "net"
       /\ OwnerOf[tokens.recipient] = agreed.recipient
  BY <1>1, Zenon DEF LegsInv
<1> QED
  BY <1>1, <1>2, <1>6, <1>9, <1>10, <1>11, LegKeeps, ZenonT(60)

\* The transfer to one referrer, in any order among them.
LEMMA ReferralLegKeeps ==
  ASSUME PayoutTypeOK, LegsInv, NEW q \in Owners, PayReferral(q)
  PROVE  LegsInv'
<1> DEFINE S == ReferralShare(q)
           P == ProtocolPaid
           M == ManagerPaid
           f == ReferralPaid
           g == ReferralPaid'
<1>1. /\ leg = "referral" /\ leg' = leg /\ listed' = listed \ {q} /\ agreed' = agreed
      /\ PayLeg(tokens.referral[q], S) /\ OwnerOf[tokens.referral[q]] = q /\ q \in listed
  BY Zenon DEF PayReferral, PayLeg, ReferralLegPasses
<1>2. S \in Nat /\ \A o \in Owners : ReferralShare(o) \in Nat
  BY SharesNat, Zenon DEF PayoutTypeOK
<1>3. P \in Nat /\ M \in Nat /\ f \in [Owners -> Nat] /\ Sum(f, Owners) \in Nat
  BY PaidTypes, Zenon
<1>4. ProtocolPaid' = P /\ ManagerPaid' = M
  BY <1>1, Zenon DEF ProtocolPaid, ManagerPaid, ProtocolShare, ManagerShare
<1>5. g = [o \in Owners |-> IF o \in listed' THEN 0 ELSE ReferralShare(o)]
  BY <1>1, Zenon DEF ReferralPaid, ReferralShare
<1>6. /\ g \in [Owners -> Nat] /\ f[q] = 0 /\ g[q] = S
      /\ \A o \in Owners \ {q} : g[o] = f[o]
  <2> HIDE DEF g
  <2>1. g \in [Owners -> Nat]
    BY <1>2, <1>5, SMTT(60)
  <2>2. f[q] = 0 /\ g[q] = S
    BY <1>1, <1>5, Zenon DEF ReferralPaid
  <2>3. \A o \in Owners \ {q} : g[o] = f[o]
    BY <1>1, <1>5, Zenon DEF ReferralPaid
  <2> QED BY <2>1, <2>2, <2>3, Zenon
<1>7. totalFees = P + M + Sum(f, Owners)
  BY Zenon DEF LegsInv
<1> HIDE DEF S, P, M, f, g
<1>8. Sum(g, Owners) = Sum(f, Owners) - f[q] + g[q]
  <2>1. IsFiniteSet(Owners)
    BY PayoutAssumption, Zenon
  <2> QED BY <1>3, <1>6, <2>1, SumStep, SMTT(60)
<1>9. P + M + Sum(g, Owners) = totalFees + S
  BY <1>2, <1>3, <1>6, <1>7, <1>8, SMTT(60)
<1>10. ASSUME NEW o \in Owners
       PROVE  Counted(o)' = Counted(o) + Part(o, OwnerOf[tokens.referral[q]], S)
  <2> DEFINE p == Part(o, agreed.protocolTo, P)
             m == Part(o, agreed.managerTo, M)
  <2>1. Counted(o)' = p + m + g[o] /\ Counted(o) = p + m + f[o]
    BY <1>1, <1>4, Zenon DEF Counted, P, M, f, g
  <2>2. p \in Nat /\ m \in Nat /\ f[o] \in Nat
    BY <1>3, PartNat, Zenon
  <2> HIDE DEF p, m
  <2>3. g[o] = f[o] + Part(o, q, S)
    <3>1. CASE o = q
      BY <1>2, <1>6, <3>1, SMTT(60) DEF Part
    <3>2. CASE o # q
      <4>1. g[o] = f[o] /\ Part(o, q, S) = 0
        BY <1>6, <3>2, Zenon DEF Part
      <4> QED BY <2>2, <4>1, SMTT(60)
    <3> QED BY <3>1, <3>2, Zenon
  <2>4. Part(o, q, S) \in Nat
    BY <1>2, PartNat, Zenon
  <2>5. p + m + (f[o] + Part(o, q, S)) = p + m + f[o] + Part(o, q, S)
    BY <2>2, <2>4, SMTT(60)
  <2> QED BY <1>1, <2>1, <2>3, <2>5, ZenonT(60)
<1>11. ProtocolPaid' + ManagerPaid' + Sum(ReferralPaid', Owners) = totalFees + S
  BY <1>4, <1>9, Zenon DEF g
<1>12. /\ tokens.referral[q] \in Accounts /\ listed' \subseteq Owners /\ leg' # "net"
       /\ OwnerOf[tokens.recipient] = agreed.recipient
  BY <1>1, TokenTypes, Zenon DEF LegsInv
<1> QED
  BY <1>1, <1>2, <1>10, <1>11, <1>12, LegKeeps, ZenonT(60)

\* The end of the loop over referrers moves no tokens.
LEMMA ReferralsDoneKeeps ==
  ASSUME PayoutTypeOK, LegsInv, ReferralsDone
  PROVE  LegsInv'
<1>1. /\ leg = "referral" /\ leg' = "net" /\ listed = {}
      /\ UNCHANGED <<agreed, tokens, listed, totalFees, vault, balance, before>>
  BY Zenon DEF ReferralsDone
<1>2. /\ ProtocolPaid' = ProtocolPaid /\ ManagerPaid' = ManagerPaid
      /\ ReferralPaid' = ReferralPaid /\ \A o : Gained(o)' = Gained(o)
  BY <1>1, Zenon DEF ProtocolPaid, ManagerPaid, ReferralPaid, ProtocolShare, ManagerShare,
     ReferralShare, Gained
<1> QED
  BY <1>1, <1>2, Zenon DEF LegsInv
-----------------------------------------------------------------------------
(* The invariant.                                                          *)

\* The invariant holds when the payout starts.
LEMMA PayoutInitInv == PayoutInit => PayoutInv
<1> SUFFICES ASSUME PayoutInit PROVE PayoutInv
  OBVIOUS
<1>1. /\ leg = "protocol" /\ listed = {o \in Owners : agreed.referral[o] > 0} /\ totalFees = 0
      /\ before = [vault |-> vault, balance |-> balance]
      /\ vault \in {agreed.release, agreed.release + 1} /\ balance \in [Accounts -> Opening]
  BY Zenon DEF PayoutInit
<1>2. agreed \in Atomic!Agreement /\ tokens \in Tokens
  <2>1. PICK call \in Calls : agreed = call[1] /\ tokens = call[2]
    BY Zenon DEF PayoutInit
  <2>2. call \in {s \in Atomic!Agreement : Admissible(s)} \X Tokens
    BY PayoutAssumption, Zenon
  <2> QED BY <2>1, <2>2, SMTT(60)
<1>3. agreed.release \in Nat
  BY <1>2, SMTT(60) DEF Atomic!Agreement
<1>4. vault \in Nat
  BY <1>1, <1>3, SMTT(60)
<1>5. balance \in [Accounts -> Nat]
  <2>1. Opening \subseteq Nat
    BY PayoutAssumption, Zenon
  <2> QED BY <1>1, <2>1, Zenon
<1>6. before.vault = vault /\ before.balance = balance
  BY <1>1, Zenon
<1>7. PayoutTypeOK
  BY <1>1, <1>2, <1>4, <1>5, <1>6, ZenonT(60) DEF PayoutTypeOK, Legs
<1>8. /\ ProtocolPaid = 0 /\ ManagerPaid = 0 /\ ReferralPaid \in [Owners -> Nat]
      /\ \A o \in Owners : ReferralPaid[o] = 0
  <2>1. ProtocolPaid = 0 /\ ManagerPaid = 0
    BY <1>1, Zenon DEF ProtocolPaid, ManagerPaid
  <2>2. \A o \in Owners : o \in listed \/ ReferralShare(o) = 0
    BY <1>1, <1>2, SharesNat, Zenon
  <2>3. \A o \in Owners : ReferralPaid[o] = 0
    BY <2>2, Zenon DEF ReferralPaid
  <2> QED BY <1>7, <2>1, <2>3, PaidTypes, Zenon
<1>9. Sum(ReferralPaid, Owners) = 0
  BY <1>8, SumZero, Zenon
<1>10. \A o \in Owners : Gained(o) = 0
  <2> SUFFICES ASSUME NEW o \in Owners PROVE Gained(o) = 0
    OBVIOUS
  <2> DEFINE z == [t \in Accounts |-> IF OwnerOf[t] = o THEN balance[t] - balance[t] ELSE 0]
  <2>1. z \in [Accounts -> Nat] /\ \A t \in Accounts : z[t] = 0
    BY <1>5, SMTT(60)
  <2>2. Sum(z, Accounts) = 0
    BY <2>1, SumZero, Zenon
  <2> QED BY <1>6, <2>2, Zenon DEF Gained
<1>11. \A o \in Owners : Part(o, agreed.protocolTo, 0) = 0 /\ Part(o, agreed.managerTo, 0) = 0
  BY Zenon DEF Part
<1>12. 0 = 0 + 0 + 0 /\ vault = vault - 0 /\ 0 \in Nat
  BY <1>4, SMTT(60)
<1>13. \A t \in Accounts : balance[t] >= balance[t]
  BY <1>5, SMTT(60)
<1>14. \A o \in Owners : Gained(o) = Part(o, agreed.protocolTo, ProtocolPaid)
                           + Part(o, agreed.managerTo, ManagerPaid) + ReferralPaid[o]
  BY <1>8, <1>10, <1>11, <1>12, ZenonT(60)
<1>15. LegsInv
  BY <1>1, <1>5, <1>6, <1>8, <1>9, <1>12, <1>13, <1>14, ZenonT(60) DEF LegsInv
<1> QED
  BY <1>7, <1>15, Zenon DEF PayoutInv

\* Every leg keeps the invariant, and so does a failure, which rolls all of them back.
LEMMA PayoutStepInv == PayoutInv /\ [PayoutNext]_payoutVars => PayoutInv'
<1> SUFFICES ASSUME PayoutInv, [PayoutNext]_payoutVars PROVE PayoutInv'
  OBVIOUS
<1>0. PayoutTypeOK /\ (leg \in Legs => LegsInv)
  BY Zenon DEF PayoutInv
<1>1. PayoutTypeOK'
  <2>1. UNCHANGED <<agreed, tokens, before>>
    BY Zenon DEF PayoutNext, PayProtocol, PayManager, PayReferral, ReferralsDone, PayNet, Fail,
       PayLeg, payoutVars
  <2>2. leg' \in Legs \cup {"committed", "aborted"}
    BY <1>0, Zenon DEF PayoutNext, PayProtocol, PayManager, PayReferral, ReferralsDone, PayNet,
       Fail, payoutVars, PayoutTypeOK, Legs
  <2> QED BY <1>0, <2>1, <2>2, Zenon DEF PayoutTypeOK
<1>2. CASE PayProtocol
  BY <1>0, <1>1, <1>2, ProtocolLegKeeps, ZenonT(60) DEF PayoutInv, PayProtocol, Legs
<1>3. CASE PayManager
  BY <1>0, <1>1, <1>3, ManagerLegKeeps, ZenonT(60) DEF PayoutInv, PayManager, Legs
<1>4. ASSUME NEW q \in Owners, PayReferral(q) PROVE PayoutInv'
  BY <1>0, <1>1, <1>4, ReferralLegKeeps, Zenon DEF PayoutInv, PayReferral, Legs
<1>5. CASE ReferralsDone
  BY <1>0, <1>1, <1>5, ReferralsDoneKeeps, ZenonT(60) DEF PayoutInv, ReferralsDone, Legs
<1>6. CASE PayNet \/ Fail
  <2>1. leg' \notin Legs
    BY <1>6, Zenon DEF PayNet, Fail, Legs
  <2> QED BY <1>1, <2>1, Zenon DEF PayoutInv
<1>7. CASE UNCHANGED payoutVars
  BY <1>0, <1>1, <1>7, ZenonT(60) DEF PayoutInv, LegsInv, ProtocolPaid, ManagerPaid, ReferralPaid,
     ProtocolShare, ManagerShare, ReferralShare, Gained, payoutVars
<1> QED
  BY <1>2, <1>3, <1>4, <1>5, <1>6, <1>7, ZenonT(60) DEF PayoutNext

\* The invariant is inductive for any accounts, owners, fees and amounts.
THEOREM PayoutInvariant == PayoutSpec => []PayoutInv
BY PayoutInitInv, PayoutStepInv, PTL DEF PayoutSpec
-----------------------------------------------------------------------------
(* The legs implement the atomic payment.                                  *)

\* The specification of the whole computes totals and shares as the legs do.
LEMMA SameTotal ==
  ASSUME NEW f, NEW S
  PROVE  Atomic!Sum(f, S) = Sum(f, S)
BY Zenon DEF Atomic!Sum, Atomic!Units, Atomic!Cardinality, Sum, Units, Cardinality

\* The transfers and the atomic payout agree on what each owner is due.
LEMMA SameDue ==
  ASSUME NEW o, NEW s
  PROVE  Atomic!Due(o, s) = Due(o, s)
<1>1. \A a, f : Atomic!PreciseMulFloor(a, f) = PreciseMulFloor(a, f)
  BY Zenon DEF Atomic!PreciseMulFloor, PreciseMulFloor
<1>2. Atomic!ReferralShares(s) = ReferralShares(s)
  BY <1>1, Zenon DEF Atomic!ReferralShares, ReferralShares
<1>3. Atomic!NetProceeds(s) = NetProceeds(s)
  BY <1>1, <1>2, SameTotal, Zenon DEF Atomic!NetProceeds, NetProceeds
<1> QED
  BY <1>1, <1>3, Zenon DEF Atomic!Due, Due

\* When the last leg begins, what is left of the release is what the agreement
\* leaves for the recipient, and everybody else has been paid.
LEMMA LastLeg ==
  ASSUME PayoutTypeOK, LegsInv, leg = "net"
  PROVE  /\ agreed.release - totalFees = NetProceeds(agreed)
         /\ \A o \in Owners : Due(o, agreed)
              = Gained(o) + Part(o, agreed.recipient, NetProceeds(agreed))
<1> DEFINE P == ProtocolShare
           M == ManagerShare
           R == Sum(ReferralPaid, Owners)
           a == agreed.release
<1>1. ProtocolPaid = P /\ ManagerPaid = M
  BY Zenon DEF ProtocolPaid, ManagerPaid
<1>2. a \in Nat /\ agreed.referral \in [Owners -> Nat]
  BY SMTT(60) DEF PayoutTypeOK, Atomic!Agreement
<1>3. DOMAIN agreed.referral = Owners
  BY <1>2, Zenon
<1>4. ReferralPaid = ReferralShares(agreed)
  <2>1. listed = {}
    BY Zenon DEF LegsInv
  <2>2. ReferralPaid = [o \in Owners |-> ReferralShare(o)]
    BY <2>1, Zenon DEF ReferralPaid
  <2> QED BY <1>3, <2>2, Zenon DEF ReferralShares, ReferralShare
<1>5. NetProceeds(agreed) = a - P - M - R
  BY <1>3, <1>4, Zenon DEF NetProceeds, ProtocolShare, ManagerShare
<1>6. totalFees = P + M + R
  BY <1>1, Zenon DEF LegsInv
<1>7. P \in Nat /\ M \in Nat /\ R \in Nat /\ ReferralPaid \in [Owners -> Nat]
  BY PaidTypes, SharesNat, Zenon DEF PayoutTypeOK
<1>8. \A o \in Owners : Gained(o) = Part(o, agreed.protocolTo, P) + Part(o, agreed.managerTo, M)
                                      + ReferralPaid[o]
  BY <1>1, Zenon DEF LegsInv
<1>9. \A o \in Owners : Due(o, agreed) = Part(o, agreed.protocolTo, P)
         + Part(o, agreed.managerTo, M) + ReferralPaid[o]
         + Part(o, agreed.recipient, NetProceeds(agreed))
  <2>1. \A o \in Owners : ReferralPaid[o] = PreciseMulFloor(agreed.release, agreed.referral[o])
    BY <1>3, <1>4, Zenon DEF ReferralShares
  <2> QED BY <2>1, Zenon DEF Due, Part, ProtocolShare, ManagerShare
<1> HIDE DEF P, M, R, a
<1>10. a - totalFees = a - P - M - R
  BY <1>2, <1>6, <1>7, SMTT(60)
<1> QED
  BY <1>5, <1>8, <1>9, <1>10, ZenonT(60) DEF a

\* The last leg commits the whole payment.
LEMMA PayNetCommits ==
  ASSUME PayoutTypeOK, LegsInv, PayNet
  PROVE  Atomic!Commit
<1> DEFINE n == agreed.release - totalFees
           v == before.vault
<1>1. /\ leg = "net" /\ leg' = "committed" /\ n > 0
      /\ vault' = vault - n /\ balance' = [balance EXCEPT ![tokens.recipient] = @ + n]
      /\ UNCHANGED <<agreed, before>>
  BY Zenon DEF PayNet, NetLegPasses, Transferable, Transfer
<1>2. agreed.release \in Nat /\ totalFees \in Nat /\ v \in Nat /\ vault = v - totalFees
  BY SMTT(60) DEF PayoutTypeOK, Atomic!Agreement, LegsInv
<1>3. n \in Nat /\ v - vault' = agreed.release
  <2> DEFINE a == agreed.release
  <2>1. a \in Nat /\ n = a - totalFees
    BY <1>2, Zenon
  <2> HIDE DEF a, n, v
  <2>2. n \in Nat /\ v - vault' = a
    BY <1>1, <1>2, <2>1, SMTT(60)
  <2> QED BY <2>2, Zenon DEF a
<1>4. \A o \in Owners : Gained(o)' = Gained(o) + Part(o, agreed.recipient, n)
  <2> DEFINE z == before.balance
  <2>1. /\ balance \in [Accounts -> Nat] /\ z \in [Accounts -> Nat]
        /\ \A t \in Accounts : balance[t] >= z[t]
        /\ OwnerOf[tokens.recipient] = agreed.recipient /\ tokens.recipient \in Accounts
    BY <1>1, TokenTypes, Zenon DEF LegsInv, PayoutTypeOK
  <2> DEFINE r == tokens.recipient
  <2>2. before' = before /\ r \in Accounts /\ OwnerOf[r] = agreed.recipient
    BY <1>1, <2>1, Zenon
  <2>3. \A o : Gained(o) = GainOver(balance, z, o) /\ Gained(o)' = GainOver(balance', z, o)
    BY <2>2, Zenon DEF Gained, GainOver
  <2>4. balance' = [balance EXCEPT ![r] = @ + n]
    BY <1>1, Zenon
  <2> HIDE DEF z, n, r
  <2>5. \A o : GainOver([balance EXCEPT ![r] = @ + n], z, o)
                = GainOver(balance, z, o) + Part(o, OwnerOf[r], n)
    BY <1>3, <2>1, <2>2, GainStep, ZenonT(60)
  <2> QED BY <2>2, <2>3, <2>4, <2>5, ZenonT(60)
<1>5. \A o \in Owners : Gained(o)' = Atomic!Due(o, agreed)
  <2>1. n = NetProceeds(agreed) /\ \A o \in Owners :
          Due(o, agreed) = Gained(o) + Part(o, agreed.recipient, NetProceeds(agreed))
    BY <1>1, LastLeg, Zenon
  <2> QED BY <1>4, <2>1, SameDue, Zenon
<1>6. Committed' /\ ~Committed /\ leg \in Legs /\ leg' \notin Legs
  BY <1>1, Zenon DEF Committed, Legs
<1>7. (IF Committed' THEN before'.vault - vault' ELSE 0) = agreed.release
  BY <1>1, <1>3, <1>6, Zenon
<1>8. [o \in Owners |-> IF Committed' THEN Gained(o)' ELSE 0]
        = [o \in Owners |-> Atomic!Due(o, agreed)]
  BY <1>5, <1>6, Zenon
<1> QED
  BY <1>1, <1>6, <1>7, <1>8, ZenonT(60) DEF Atomic!Commit

\* Every step of the legs is a commit, an abort, or nothing that can be seen.
LEMMA AtomicStep ==
  ASSUME PayoutInv, [PayoutNext]_payoutVars
  PROVE  [Atomic!Commit \/ Atomic!Abort]_(Atomic!atomicVars)
<1>0. PayoutTypeOK /\ (leg \in Legs => LegsInv)
  BY Zenon DEF PayoutInv
<1>1. CASE PayNet
  BY <1>0, <1>1, PayNetCommits, Zenon DEF PayNet, Legs
<1>2. CASE Fail
  <2>1. leg \in Legs /\ leg' = "aborted" /\ UNCHANGED agreed
    BY <1>2, Zenon DEF Fail, Legs
  <2>2. ~Committed /\ ~Committed' /\ leg' \notin Legs
    BY <2>1, Zenon DEF Committed, Legs
  <2> QED BY <2>1, <2>2, Zenon DEF Atomic!Abort
<1>3. ASSUME leg \in Legs, leg' \in Legs, UNCHANGED agreed
      PROVE  UNCHANGED Atomic!atomicVars
  <2>1. ~Committed /\ ~Committed'
    BY <1>3, Zenon DEF Committed, Legs
  <2> QED BY <1>3, <2>1, Zenon DEF Atomic!atomicVars
<1>4. CASE PayProtocol \/ PayManager \/ ReferralsDone \/ \E q \in Owners : PayReferral(q)
  <2>1. leg \in Legs /\ leg' \in Legs /\ UNCHANGED agreed
    BY <1>4, Zenon DEF PayProtocol, PayManager, ReferralsDone, PayReferral, PayLeg, Legs
  <2> QED BY <1>3, <2>1, Zenon
<1>5. CASE UNCHANGED payoutVars
  BY <1>5, Zenon DEF payoutVars, Atomic!atomicVars, Committed, Gained
<1> QED
  BY <1>1, <1>2, <1>4, <1>5, ZenonT(60) DEF PayoutNext

\* The legs of distribute_funds, over any token accounts and with readings that
\* are stale between them, are one payment: the vault loses exactly the release
\* and every owner gains exactly what it is due, or nothing moves.
THEOREM PayoutImplementsAtomic == PayoutSpec => PayoutIsAtomic
<1>1. PayoutInit => Atomic!AtomicInit
  <2> SUFFICES ASSUME PayoutInit PROVE Atomic!AtomicInit
    OBVIOUS
  <2>1. leg = "protocol" /\ agreed \in Atomic!Agreement
    BY PayoutInitInv, Zenon DEF PayoutInit, PayoutInv, PayoutTypeOK
  <2>2. leg \in Legs /\ ~Committed
    BY <2>1, Zenon DEF Legs, Committed
  <2> QED BY <2>1, <2>2, Zenon DEF Atomic!AtomicInit
<1>2. PayoutInv /\ [PayoutNext]_payoutVars
        => [Atomic!Commit \/ Atomic!Abort]_(Atomic!atomicVars)
  BY AtomicStep, ZenonT(60)
<1> QED
  BY <1>1, <1>2, PayoutInvariant, PTL DEF PayoutSpec, PayoutIsAtomic, Atomic!AtomicSpec
-----------------------------------------------------------------------------
(* PAYMENT VERIFIER.                                                       *)

USE VerifierAssumption, GovernanceAssumption

-----------------------------------------------------------------------------
(* Lists of signatures.                                                    *)

\* What a caller submits is a sequence of existing signatures.
LEMMA SubmissionIsSeq ==
  ASSUME NEW sigs \in Submissions
  PROVE  Len(sigs) \in Nat /\ sigs \in [1..Len(sigs) -> signed]
<1>1. PICK n \in 0..(MaxWitnesses + 1) : sigs \in [1..n -> signed]
  BY Zenon DEF Submissions
<1>2. n \in Nat
  BY <1>1, SMTT(60)
<1>3. sigs \in Seq(signed)
  BY <1>1, <1>2, SeqDef, Zenon
<1> QED
  BY <1>3, LenProperties, Zenon

\* A signature recovers to a witness only over the statement it is made for.
LEMMA RecoveredSigner ==
  ASSUME VerifierTypeOK, NEW s \in signed, NEW a, Recover(s, a) \in witnesses
  PROVE  Recover(s, a) \in Signers(a)
<1>1. s \in Signatures /\ witnesses \subseteq Keys
  BY Zenon DEF VerifierTypeOK
<1>2. s.over = a /\ Recover(s, a) = s.key
  BY <1>1, Zenon DEF Recover
<1>3. s = [key |-> s.key, over |-> a]
  BY <1>1, <1>2, Zenon DEF Signatures
<1> QED
  BY <1>2, <1>3, Zenon DEF Signers

\* The current witnesses that signed are finitely many, and at most all.
LEMMA SignersFinite ==
  ASSUME VerifierTypeOK, NEW a
  PROVE  /\ IsFiniteSet(witnesses) /\ Cardinality(witnesses) \in Nat
         /\ IsFiniteSet(Signers(a)) /\ Cardinality(Signers(a)) \in Nat
         /\ Cardinality(Signers(a)) <= Cardinality(witnesses)
<1>1. witnesses \in SUBSET Keys /\ Signers(a) \in SUBSET witnesses
  BY Zenon DEF VerifierTypeOK, Signers
<1>2. IsFiniteSet(witnesses)
  BY <1>1, FS_Subset, Zenon
<1> QED
  BY <1>1, <1>2, FS_Subset, FS_CardinalityType, ZenonT(60)

\* verify_witness_threshold counts different witnesses: a list that passes
\* proves that at least `required` current witnesses signed the statement.
LEMMA PassingListIsQuorum ==
  ASSUME VerifierTypeOK, NEW a, NEW sigs \in Submissions, VerifyWitnessThreshold(a, sigs)
  PROVE  Cardinality(Signers(a)) >= required
<1> DEFINE N == 1..Len(sigs)
           key(n) == Recover(sigs[n], a)
           f == [n \in N |-> key(n)]
<1>1. Len(sigs) \in Nat /\ sigs \in [N -> signed]
  BY SubmissionIsSeq, Zenon
<1>2. \A n \in N : key(n) \in witnesses /\ \A m \in 1..(n - 1) : key(n) # key(m)
  BY Zenon DEF VerifyWitnessThreshold
<1>3. \A n \in N : key(n) \in Signers(a)
  BY <1>1, <1>2, RecoveredSigner, ZenonT(60)
<1>4. \A m, n \in N : m < n => key(m) # key(n)
  <2> SUFFICES ASSUME NEW m \in N, NEW n \in N, m < n PROVE key(m) # key(n)
    BY Zenon
  <2>1. m \in 1..(n - 1)
    BY <1>1, SMTT(60)
  <2> QED BY <1>2, <2>1, Zenon
<1>5. \A m, n \in N : m = n \/ m < n \/ n < m
  BY <1>1, SMTT(60)
<1>6. \A m, n \in N : f[m] = f[n] => m = n
  BY <1>4, <1>5, Zenon
<1>7. f \in [N -> Signers(a)] /\ DOMAIN f = N
  BY <1>3, Zenon
<1> HIDE DEF f, key
<1>8. f \in Injection(N, Signers(a))
  BY <1>6, <1>7, Zenon DEF Injection, IsInjective
<1>9. Cardinality(N) <= Cardinality(Signers(a))
  BY <1>8, SignersFinite, FS_Injection, Zenon
<1>10. Cardinality(N) = Len(sigs)
  BY <1>1, FS_Interval, SMTT(60)
<1>11. Len(sigs) >= required /\ required \in Nat /\ Cardinality(Signers(a)) \in Nat
  BY SignersFinite, Zenon DEF VerifyWitnessThreshold, VerifierTypeOK
<1> QED
  BY <1>1, <1>9, <1>10, <1>11, SMTT(60)

\* Conversely, the signatures of enough current witnesses can be put in a list
\* that passes.
LEMMA QuorumHasPassingList ==
  ASSUME VerifierTypeOK, ThresholdReachable, NEW a, Cardinality(Signers(a)) >= required
  PROVE  \E sigs \in Submissions : VerifyWitnessThreshold(a, sigs)
<1> DEFINE c == Cardinality(Signers(a))
<1>1. /\ c \in Nat /\ IsFiniteSet(Signers(a)) /\ c <= Cardinality(witnesses)
      /\ Cardinality(witnesses) \in Nat
  BY SignersFinite, Zenon
<1>2. Bijection(1..c, Signers(a)) # {}
  BY <1>1, FS_CardinalityType, Zenon DEF ExistsBijection
<1>3. PICK f \in Bijection(1..c, Signers(a)) : TRUE
  BY <1>2, Zenon
<1>4. f \in [1..c -> Signers(a)] /\ \A m, n \in 1..c : f[m] = f[n] => m = n
  <2>1. f \in [1..c -> Signers(a)] /\ DOMAIN f = 1..c
    BY <1>3, Zenon DEF Bijection, Injection
  <2> QED BY <1>3, <2>1, Zenon DEF Bijection, Injection, IsInjective
<1> DEFINE sigs == [n \in 1..c |-> [key |-> f[n], over |-> a]]
<1>5. sigs \in [1..c -> signed]
  BY <1>4, Zenon DEF Signers
<1>6. sigs \in Submissions /\ sigs \in Seq(signed)
  <2>1. c \in 0..(MaxWitnesses + 1)
    BY <1>1, SMTT(60) DEF ThresholdReachable
  <2> HIDE DEF sigs, c
  <2>2. sigs \in Submissions
    BY <1>5, <2>1, Zenon DEF Submissions
  <2>3. sigs \in Seq(signed)
    BY <1>1, <1>5, SeqDef, ZenonT(60)
  <2> QED BY <2>2, <2>3, Zenon
<1>7. Len(sigs) = c
  <2> HIDE DEF sigs
  <2>1. DOMAIN sigs = 1..c /\ DOMAIN sigs = 1..Len(sigs) /\ Len(sigs) \in Nat
    BY <1>5, <1>6, LenProperties, ZenonT(60)
  <2> QED BY <1>1, <2>1, SMTT(60)
<1>8. \A n \in 1..c : Recover(sigs[n], a) = f[n]
  BY <1>1, SMTT(60) DEF Recover
<1>9. \A n \in 1..c : \A m \in 1..(n - 1) : m \in 1..c /\ m # n
  BY <1>1, SMTT(60)
<1>10. \A n \in 1..c : Recover(sigs[n], a) \in witnesses \ {Recover(sigs[m], a) : m \in 1..(n - 1)}
  <2>1. \A n \in 1..c : f[n] \in witnesses
    BY <1>4, Zenon DEF Signers
  <2> HIDE DEF sigs
  <2>2. \A n \in 1..c : \A m \in 1..(n - 1) : Recover(sigs[m], a) # f[n]
    BY <1>4, <1>8, <1>9, Zenon
  <2> QED BY <1>8, <2>1, <2>2, ZenonT(60)
<1> HIDE DEF sigs
<1> QED
  BY <1>1, <1>6, <1>7, <1>10, Zenon DEF VerifyWitnessThreshold
-----------------------------------------------------------------------------
(* The registry and the records.                                           *)

\* The authority and a standing candidate stay two different keys.
LEMMA AuthorityStep ==
  ASSUME AuthorityTypeOK, AuthorityNext
  PROVE  AuthorityTypeOK'
<1>1. ASSUME NEW g \in Governors, NEW candidate \in Governors \cup {NoGovernor},
             ProposeProtocolAuthority(g, candidate)
      PROVE  AuthorityTypeOK'
  BY <1>1, Zenon DEF ProposeProtocolAuthority, AuthorityTypeOK
<1>2. ASSUME NEW g \in Governors, AcceptProtocolAuthority(g) PROVE AuthorityTypeOK'
  BY <1>2, Zenon DEF AcceptProtocolAuthority, AuthorityTypeOK
<1> QED
  BY <1>1, <1>2, Zenon DEF AuthorityNext

\* Adding and removing one witness.
LEMMA WitnessCount ==
  ASSUME VerifierTypeOK, NEW k \in Keys
  PROVE  /\ Cardinality(witnesses) \in Nat
         /\ k \notin witnesses => Cardinality(witnesses \cup {k}) = Cardinality(witnesses) + 1
         /\ k \in witnesses => Cardinality(witnesses \ {k}) = Cardinality(witnesses) - 1
<1>1. IsFiniteSet(witnesses) /\ Cardinality(witnesses) \in Nat
  BY SignersFinite, Zenon
<1> QED
  BY <1>1, FS_AddElement, FS_RemoveElement, Zenon

\* The three fields of VerifierConfig.
RegistryTypeOK == witnesses \subseteq Keys /\ required \in Nat /\ enabled \subseteq Methods

\* Every registry handler keeps the threshold reachable.
LEMMA RegistryStep ==
  ASSUME VerifierTypeOK, ThresholdReachable, RegistryNext
  PROVE  RegistryTypeOK' /\ ThresholdReachable'
<1>0. RegistryTypeOK
  BY Zenon DEF VerifierTypeOK, RegistryTypeOK
<1>1. ASSUME NEW g, NEW m \in Methods, NEW enable \in BOOLEAN, SetVerifierPaymentMethod(g, m, enable)
      PROVE  RegistryTypeOK' /\ ThresholdReachable'
  <2>1. enabled' \subseteq Methods /\ witnesses' = witnesses /\ required' = required
    BY <1>0, <1>1, Zenon DEF SetVerifierPaymentMethod, RegistryTypeOK
  <2> QED BY <1>0, <2>1, Zenon DEF RegistryTypeOK, ThresholdReachable
<1>2. ASSUME NEW g, NEW k \in Keys, AddWitness(g, k) PROVE RegistryTypeOK' /\ ThresholdReachable'
  <2>1. /\ witnesses' = witnesses \cup {k} /\ required' = required /\ enabled' = enabled
        /\ k \notin witnesses /\ Cardinality(witnesses) < MaxWitnesses
    BY <1>2, Zenon DEF AddWitness
  <2>2. RegistryTypeOK'
    BY <1>0, <2>1, Zenon DEF RegistryTypeOK
  <2>3. Cardinality(witnesses') = Cardinality(witnesses) + 1 /\ Cardinality(witnesses) \in Nat
    BY <2>1, WitnessCount, Zenon
  <2>4. ThresholdReachable'
    BY <2>1, <2>3, SMTT(60) DEF ThresholdReachable
  <2> QED BY <2>2, <2>4, Zenon
<1>3. ASSUME NEW g, NEW k \in Keys, RemoveWitness(g, k) PROVE RegistryTypeOK' /\ ThresholdReachable'
  <2>1. /\ witnesses' = witnesses \ {k} /\ required' = required /\ enabled' = enabled
        /\ k \in witnesses /\ Cardinality(witnesses) - 1 >= required
    BY <1>3, Zenon DEF RemoveWitness
  <2>2. RegistryTypeOK'
    BY <1>0, <2>1, Zenon DEF RegistryTypeOK
  <2>3. Cardinality(witnesses') = Cardinality(witnesses) - 1 /\ Cardinality(witnesses) \in Nat
    BY <2>1, WitnessCount, Zenon
  <2>4. ThresholdReachable'
    BY <2>1, <2>3, SMTT(60) DEF ThresholdReachable
  <2> QED BY <2>2, <2>4, Zenon
<1>4. ASSUME NEW g, NEW n \in 0..MaxWitnesses, SetRequiredSignatures(g, n)
      PROVE  RegistryTypeOK' /\ ThresholdReachable'
  <2>1. /\ witnesses' = witnesses /\ required' = n /\ enabled' = enabled
        /\ n > 0 /\ n <= Cardinality(witnesses)
    BY <1>4, Zenon DEF SetRequiredSignatures
  <2>2. n \in Nat /\ Cardinality(witnesses) \in Nat
    BY SignersFinite, SMTT(60)
  <2>3. RegistryTypeOK'
    BY <1>0, <2>1, <2>2, ZenonT(60) DEF RegistryTypeOK
  <2>4. ThresholdReachable'
    BY <2>1, <2>2, SMTT(60) DEF ThresholdReachable
  <2> QED BY <2>3, <2>4, Zenon
<1> QED
  BY <1>1, <1>2, <1>3, <1>4, ZenonT(60) DEF RegistryNext

\* What is recorded about signatures, intents, payments and disputes.
RecordsTypeOK ==
  /\ signed \subseteq Signatures
  /\ intents \in [IntentIds -> Snapshots \cup {NoIntent}]
  /\ nextIntent \in 0..MaxIntents
  /\ settledBy \in [IntentIds -> PaymentNullifiers \cup {NoPayment}]
  /\ paymentFor \in [PaymentNullifiers -> IntentIds \cup {NoIntent}]
  /\ disputeFor \in [DisputeNullifiers -> IntentIds \cup {NoIntent}]

\* The fields that a statement is submitted for.
LEMMA StatementFields ==
  ASSUME NEW a \in Statements
  PROVE  /\ Nullifier(a.method, a.payment) \in PaymentNullifiers
         /\ a.kind = "dispute" => Nullifier(a.method, a.dispute) \in DisputeNullifiers
<1>1. a \in PaymentAttestation \/ a \in DisputeAttestation
  BY Zenon
<1>2. a.method \in Methods /\ a.payment \in PaymentIds
  BY <1>1, Zenon DEF PaymentAttestation, DisputeAttestation
<1>3. a \in PaymentAttestation => a.kind = "payment"
  BY Zenon DEF PaymentAttestation
<1>4. a.kind = "dispute" => a.dispute \in DisputeIds
  BY <1>1, <1>3, Zenon DEF DisputeAttestation
<1> QED
  BY <1>2, <1>4, Zenon DEF Nullifier, PaymentNullifiers, DisputeNullifiers

\* The counter never reaches an identifier that was used.
LEMMA SignalStep ==
  ASSUME RecordsTypeOK, SettledIsClosed, NEW snapshot \in Snapshots, SignalIntent(snapshot)
  PROVE  RecordsTypeOK' /\ SettledIsClosed'
<1>1. /\ nextIntent \in IntentIds /\ nextIntent' \in 0..MaxIntents
      /\ nextIntent \in Nat /\ nextIntent' = nextIntent + 1
      /\ \A j \in IntentIds : j >= nextIntent' => j >= nextIntent /\ j # nextIntent
  BY SMT DEF SignalIntent, RecordsTypeOK, IntentIds
<1>2. /\ intents' = [intents EXCEPT ![nextIntent] = snapshot]
      /\ UNCHANGED <<signed, settledBy, paymentFor, disputeFor>>
  BY Zenon DEF SignalIntent
<1>3. intents' \in [IntentIds -> Snapshots \cup {NoIntent}]
  BY <1>1, <1>2, Zenon DEF RecordsTypeOK
<1>4. \A j \in IntentIds \ {nextIntent} : intents'[j] = intents[j]
  BY <1>2, Zenon DEF RecordsTypeOK
<1>5. settledBy[nextIntent] = NoPayment
  <2>1. nextIntent >= nextIntent
    BY <1>1, SMTT(60)
  <2> QED BY <1>1, <2>1, Zenon DEF SettledIsClosed
<1>6. RecordsTypeOK'
  BY <1>1, <1>2, <1>3, Zenon DEF RecordsTypeOK
<1>7. SettledIsClosed'
  BY <1>1, <1>2, <1>4, <1>5, ZenonT(60) DEF SettledIsClosed
<1> QED
  BY <1>6, <1>7, ZenonT(60)

\* A settlement closes the intent and writes both bindings.
LEMMA FulfillStep ==
  ASSUME RecordsTypeOK, SettledIsClosed, NEW i \in IntentIds, NEW a \in Statements, NEW sigs,
         FulfillIntent(i, a, sigs)
  PROVE  RecordsTypeOK' /\ SettledIsClosed'
<1> DEFINE n == Nullifier(a.method, a.payment)
<1>0. n \in PaymentNullifiers
  BY StatementFields, Zenon
<1>1. /\ intents[i] # NoIntent /\ paymentFor[n] = NoIntent /\ settledBy[i] = NoPayment
      /\ intents' = [intents EXCEPT ![i] = NoIntent]
      /\ settledBy' = [settledBy EXCEPT ![i] = n]
      /\ paymentFor' = [paymentFor EXCEPT ![n] = i]
      /\ UNCHANGED <<signed, nextIntent, disputeFor>>
  BY Zenon DEF FulfillIntent, Fulfillable
<1> HIDE DEF n
<1>2. RecordsTypeOK'
  <2>1. /\ intents' \in [IntentIds -> Snapshots \cup {NoIntent}]
        /\ settledBy' \in [IntentIds -> PaymentNullifiers \cup {NoPayment}]
        /\ paymentFor' \in [PaymentNullifiers -> IntentIds \cup {NoIntent}]
    BY <1>0, <1>1, Zenon DEF RecordsTypeOK
  <2> QED BY <1>1, <2>1, Zenon DEF RecordsTypeOK
<1>3. /\ intents'[i] = NoIntent /\ settledBy'[i] = n /\ paymentFor'[n] = i
      /\ \A j \in IntentIds \ {i} : intents'[j] = intents[j] /\ settledBy'[j] = settledBy[j]
      /\ \A p \in PaymentNullifiers \ {n} : paymentFor'[p] = paymentFor[p]
  BY <1>0, <1>1, Zenon DEF RecordsTypeOK
<1>4. ~(i >= nextIntent)
  BY <1>1, Zenon DEF SettledIsClosed
<1>5. \A j \in IntentIds \ {i} : settledBy[j] # NoPayment =>
        /\ settledBy[j] \in PaymentNullifiers \ {n}
        /\ paymentFor'[settledBy[j]] = j
  <2> SUFFICES ASSUME NEW j \in IntentIds \ {i}, settledBy[j] # NoPayment
               PROVE  /\ settledBy[j] \in PaymentNullifiers \ {n}
                      /\ paymentFor'[settledBy[j]] = j
    BY Zenon
  <2>1. settledBy[j] \in PaymentNullifiers
    BY Zenon DEF RecordsTypeOK
  <2>2. paymentFor[settledBy[j]] = j
    BY Zenon DEF SettledIsClosed
  <2>3. settledBy[j] # n
    BY <1>1, <2>2, Zenon
  <2> QED BY <1>3, <2>1, <2>2, <2>3, ZenonT(60)
<1>6. \A j \in IntentIds : settledBy'[j] # NoPayment =>
        intents'[j] = NoIntent /\ paymentFor'[settledBy'[j]] = j
  BY <1>3, <1>5, Zenon DEF SettledIsClosed
<1>7. \A j \in IntentIds : j >= nextIntent' => intents'[j] = NoIntent /\ settledBy'[j] = NoPayment
  BY <1>1, <1>3, <1>4, ZenonT(60) DEF SettledIsClosed
<1> QED
  BY <1>2, <1>6, <1>7, ZenonT(60) DEF SettledIsClosed

\* Every other step on the records.
LEMMA EvidenceStep ==
  ASSUME RecordsTypeOK, SettledIsClosed, EvidenceNext
  PROVE  RecordsTypeOK' /\ SettledIsClosed'
<1>1. ASSUME NEW k \in Keys, NEW a \in Statements, Sign(k, a)
      PROVE  RecordsTypeOK' /\ SettledIsClosed'
  <2>1. signed' \subseteq Signatures
    <3>1. [key |-> k, over |-> a] \in Signatures
      BY Zenon DEF Signatures
    <3> QED BY <1>1, <3>1, Zenon DEF Sign, RecordsTypeOK
  <2>2. UNCHANGED recordVars
    BY <1>1, Zenon DEF Sign
  <2> QED BY <2>1, <2>2, ZenonT(60) DEF RecordsTypeOK, SettledIsClosed, recordVars
<1>2. ASSUME NEW i \in IntentIds, CloseIntent(i) PROVE RecordsTypeOK' /\ SettledIsClosed'
  <2>1. /\ intents' = [intents EXCEPT ![i] = NoIntent]
        /\ UNCHANGED <<signed, nextIntent, settledBy, paymentFor, disputeFor>>
    BY <1>2, Zenon DEF CloseIntent
  <2>2. /\ intents' \in [IntentIds -> Snapshots \cup {NoIntent}]
        /\ \A j \in IntentIds : intents'[j] \in {intents[j], NoIntent}
    BY <2>1, Zenon DEF RecordsTypeOK
  <2> QED BY <2>1, <2>2, Zenon DEF RecordsTypeOK, SettledIsClosed
<1>3. ASSUME NEW i \in IntentIds, NEW a \in Statements, NEW sigs, SubmitDispute(i, a, sigs)
      PROVE  RecordsTypeOK' /\ SettledIsClosed'
  <2> DEFINE n == Nullifier(a.method, a.dispute)
  <2>1. n \in DisputeNullifiers
    BY <1>3, StatementFields, Zenon DEF SubmitDispute
  <2>2. /\ disputeFor' = [disputeFor EXCEPT ![n] = i]
        /\ UNCHANGED <<signed, intents, nextIntent, settledBy, paymentFor>>
    BY <1>3, Zenon DEF SubmitDispute
  <2> HIDE DEF n
  <2>3. disputeFor' \in [DisputeNullifiers -> IntentIds \cup {NoIntent}]
    BY <2>1, <2>2, Zenon DEF RecordsTypeOK
  <2> QED BY <2>2, <2>3, Zenon DEF RecordsTypeOK, SettledIsClosed
<1> QED
  BY <1>1, <1>2, <1>3, SignalStep, FulfillStep, ZenonT(60) DEF EvidenceNext
-----------------------------------------------------------------------------
(* The invariant, and what it is for.                                      *)

\* The verifier's type invariant, in the parts the proofs use.
LEMMA VerifierTypeParts ==
  VerifierTypeOK <=> AuthorityTypeOK /\ RegistryTypeOK /\ RecordsTypeOK
BY Zenon DEF VerifierTypeOK, RegistryTypeOK, RecordsTypeOK

\* The inductive invariant holds in the initial states.
LEMMA VerifierInitInv == VerifierInit => VerifierInv
<1> SUFFICES ASSUME VerifierInit PROVE VerifierInv
  BY Zenon
<1>1. AuthorityTypeOK
  BY Zenon DEF VerifierInit, AuthorityInit, AuthorityTypeOK
<1>2. /\ witnesses \in SUBSET Keys /\ enabled = {} /\ required \in 1..Cardinality(witnesses)
      /\ Cardinality(witnesses) <= MaxWitnesses
  BY Zenon DEF VerifierInit
<1>3. Cardinality(witnesses) \in Nat
  BY <1>2, FS_Subset, FS_CardinalityType, ZenonT(60)
<1>4. required \in Nat
  BY <1>2, <1>3, SMTT(60)
<1>5. RegistryTypeOK
  BY <1>2, <1>4, Zenon DEF RegistryTypeOK
<1>6. nextIntent \in 0..MaxIntents
  BY SMT DEF VerifierInit
<1>7. RecordsTypeOK
  BY <1>6, Zenon DEF VerifierInit, RecordsTypeOK
<1>8. SettledIsClosed
  BY Zenon DEF VerifierInit, SettledIsClosed
<1> QED
  BY <1>1, <1>2, <1>5, <1>7, <1>8, VerifierTypeParts, ZenonT(60) DEF VerifierInv, ThresholdReachable

\* Every step keeps the inductive invariant.
LEMMA VerifierNextInv == VerifierInv /\ [VerifierNext]_verifierVars => VerifierInv'
<1> SUFFICES ASSUME VerifierInv, [VerifierNext]_verifierVars PROVE VerifierInv'
  BY Zenon
<1>0. /\ VerifierTypeOK /\ ThresholdReachable /\ SettledIsClosed
      /\ AuthorityTypeOK /\ RegistryTypeOK /\ RecordsTypeOK
  BY VerifierTypeParts, Zenon DEF VerifierInv
<1> SUFFICES /\ AuthorityTypeOK' /\ RegistryTypeOK' /\ RecordsTypeOK'
             /\ ThresholdReachable' /\ SettledIsClosed'
  BY Zenon DEF VerifierInv, VerifierTypeOK, RegistryTypeOK, RecordsTypeOK
<1>1. UNCHANGED authorityVars => AuthorityTypeOK'
  BY <1>0, Zenon DEF authorityVars, AuthorityTypeOK
<1>2. UNCHANGED registryVars => RegistryTypeOK' /\ ThresholdReachable'
  BY <1>0, Zenon DEF registryVars, RegistryTypeOK, ThresholdReachable
<1>3. UNCHANGED <<signed, recordVars>> => RecordsTypeOK' /\ SettledIsClosed'
  <2>1. UNCHANGED <<signed, recordVars>> => RecordsTypeOK'
    BY <1>0, Zenon DEF recordVars, RecordsTypeOK
  <2>2. UNCHANGED <<signed, recordVars>> => SettledIsClosed'
    BY <1>0, Zenon DEF recordVars, SettledIsClosed
  <2> QED BY <2>1, <2>2, Zenon
<1>4. CASE AuthorityNext /\ UNCHANGED <<registryVars, signed, recordVars>>
  BY <1>0, <1>2, <1>3, <1>4, AuthorityStep, ZenonT(60)
<1>5. CASE RegistryNext
  <2>1. UNCHANGED authorityVars /\ UNCHANGED <<signed, recordVars>>
    BY <1>5, Zenon DEF RegistryNext
  <2> QED BY <1>0, <1>1, <1>3, <1>5, <2>1, RegistryStep, ZenonT(60)
<1>6. CASE EvidenceNext
  <2>1. UNCHANGED authorityVars /\ UNCHANGED registryVars
    BY <1>6, Zenon DEF EvidenceNext, Sign, SignalIntent, CloseIntent, FulfillIntent, SubmitDispute
  <2> QED BY <1>0, <1>1, <1>2, <1>6, <2>1, EvidenceStep, ZenonT(60)
<1>7. CASE UNCHANGED verifierVars
  BY <1>1, <1>2, <1>3, <1>7, ZenonT(60) DEF verifierVars
<1> QED
  BY <1>4, <1>5, <1>6, <1>7, ZenonT(60) DEF VerifierNext

\* Registry and records of the verifier stay well formed, the threshold stays
\* reachable and settled intents stay closed.
THEOREM VerifierInvariant == VerifierSpec => []VerifierInv
BY VerifierInitInv, VerifierNextInv, PTL DEF VerifierSpec

\* Governance can neither raise the threshold above the number of witnesses nor
\* remove witnesses below it (handle_remove_witness,
\* handle_set_required_signatures).
THEOREM VerifierThreshold == VerifierSpec => []ThresholdReachable
<1>1. VerifierInv => ThresholdReachable
  BY Zenon DEF VerifierInv
<1> QED
  BY <1>1, VerifierInvariant, PTL

\* A quorum of the current witnesses is enough to settle a live intent, however
\* the registry has changed since they signed.
THEOREM VerifierSettles == VerifierSpec => []QuorumSettles
<1>1. ASSUME VerifierInv PROVE QuorumSettles
  <2> SUFFICES ASSUME NEW i \in IntentIds, NEW a \in Statements, a.kind = "payment",
                      intents[i] # NoIntent, a.intent = i, a.method \in enabled,
                      a.snapshot = intents[i], a.method = a.snapshot.method,
                      paymentFor[Nullifier(a.method, a.payment)] = NoIntent,
                      Cardinality(Signers(a)) >= required
               PROVE  \E sigs \in Submissions : Fulfillable(i, a, sigs)
    BY Zenon DEF QuorumSettles
  <2>1. PICK sigs \in Submissions : VerifyWitnessThreshold(a, sigs)
    BY <1>1, QuorumHasPassingList, Zenon DEF VerifierInv
  <2>2. settledBy[i] = NoPayment
    BY <1>1, Zenon DEF VerifierInv, SettledIsClosed
  <2>3. Fulfillable(i, a, sigs)
    BY <2>1, <2>2, ZenonT(60) DEF Fulfillable, VerifyPaymentAttestation
  <2> QED BY <2>3, Zenon
<1> QED
  BY <1>1, VerifierInvariant, PTL
-----------------------------------------------------------------------------
(* What evidence a step rests on.                                          *)

\* The statement behind a payment binding, and behind a dispute record.
PaymentEvidence(n, a) ==
  /\ a.kind = "payment"
  /\ n = Nullifier(a.method, a.payment)
  /\ paymentFor'[n] = a.intent
  /\ a.snapshot = intents[a.intent]
  /\ a.method \in enabled
  /\ Cardinality(Signers(a)) >= required
ReversalEvidence(n, a) ==
  /\ a.kind = "dispute"
  /\ n = Nullifier(a.method, a.dispute)
  /\ settledBy[a.intent] = Nullifier(a.method, a.payment)
  /\ Cardinality(Signers(a)) >= required

\* What EvidenceHasCurrentQuorum says of one step.
QuorumStep ==
  /\ \A n \in PaymentNullifiers : paymentFor'[n] # paymentFor[n] =>
       \E a \in Statements : PaymentEvidence(n, a)
  /\ \A n \in DisputeNullifiers : disputeFor'[n] # disputeFor[n] =>
       \E a \in Statements : ReversalEvidence(n, a)

\* A step that records a payment or a dispute has a quorum of current witnesses.
LEMMA QuorumOfStep ==
  ASSUME VerifierInv, [VerifierNext]_verifierVars
  PROVE  QuorumStep
<1>0. VerifierTypeOK /\ RecordsTypeOK
  BY VerifierTypeParts, Zenon DEF VerifierInv
<1>1. ASSUME UNCHANGED <<paymentFor, disputeFor>> PROVE QuorumStep
  BY <1>1, Zenon DEF QuorumStep
<1>2. ASSUME NEW i \in IntentIds, NEW a \in Statements, NEW sigs \in Submissions,
             FulfillIntent(i, a, sigs)
      PROVE  QuorumStep
  <2> DEFINE p == Nullifier(a.method, a.payment)
  <2>1. /\ a.kind = "payment" /\ a.intent = i /\ a.method \in enabled /\ a.snapshot = intents[i]
        /\ VerifyWitnessThreshold(a, sigs)
        /\ paymentFor' = [paymentFor EXCEPT ![p] = i] /\ disputeFor' = disputeFor
    BY <1>2, Zenon DEF FulfillIntent, Fulfillable, VerifyPaymentAttestation
  <2>2. p \in PaymentNullifiers /\ Cardinality(Signers(a)) >= required
    BY <1>0, <2>1, StatementFields, PassingListIsQuorum, ZenonT(60)
  <2>3. paymentFor'[p] = i /\ \A n \in PaymentNullifiers \ {p} : paymentFor'[n] = paymentFor[n]
    BY <1>0, <2>1, <2>2, ZenonT(60) DEF RecordsTypeOK
  <2>4. PaymentEvidence(p, a)
    BY <2>1, <2>2, <2>3, ZenonT(60) DEF PaymentEvidence
  <2> HIDE DEF p
  <2> QED BY <2>1, <2>3, <2>4, ZenonT(60) DEF QuorumStep
<1>3. ASSUME NEW i \in IntentIds, NEW a \in Statements, NEW sigs \in Submissions,
             SubmitDispute(i, a, sigs)
      PROVE  QuorumStep
  <2> DEFINE e == Nullifier(a.method, a.dispute)
  <2>1. /\ a.kind = "dispute" /\ a.intent = i /\ settledBy[i] = Nullifier(a.method, a.payment)
        /\ VerifyWitnessThreshold(a, sigs)
        /\ disputeFor' = [disputeFor EXCEPT ![e] = i] /\ paymentFor' = paymentFor
    BY <1>3, Zenon DEF SubmitDispute
  <2>2. e \in DisputeNullifiers /\ Cardinality(Signers(a)) >= required
    BY <1>0, <2>1, StatementFields, PassingListIsQuorum, ZenonT(60)
  <2>3. \A n \in DisputeNullifiers \ {e} : disputeFor'[n] = disputeFor[n]
    BY <1>0, <2>1, <2>2, ZenonT(60) DEF RecordsTypeOK
  <2>4. ReversalEvidence(e, a)
    BY <2>1, <2>2, Zenon DEF ReversalEvidence
  <2> HIDE DEF e
  <2> QED BY <2>1, <2>3, <2>4, ZenonT(60) DEF QuorumStep
<1>4. ASSUME RegistryNext \/ (AuthorityNext /\ UNCHANGED <<registryVars, signed, recordVars>>)
               \/ UNCHANGED verifierVars
      PROVE  UNCHANGED <<paymentFor, disputeFor>>
  BY <1>4, Zenon DEF RegistryNext, verifierVars, recordVars
<1>5. ASSUME NEW k, NEW a, Sign(k, a) PROVE UNCHANGED <<paymentFor, disputeFor>>
  BY <1>5, Zenon DEF Sign, recordVars
<1>6. ASSUME NEW snapshot, SignalIntent(snapshot) PROVE UNCHANGED <<paymentFor, disputeFor>>
  BY <1>6, Zenon DEF SignalIntent
<1>7. ASSUME NEW i, CloseIntent(i) PROVE UNCHANGED <<paymentFor, disputeFor>>
  BY <1>7, Zenon DEF CloseIntent
<1> QED
  BY <1>1, <1>2, <1>3, <1>4, <1>5, <1>6, <1>7, ZenonT(60) DEF VerifierNext, EvidenceNext

\* Only a quorum of the witnesses of that moment binds a payment or records a
\* dispute, on a statement about exactly that intent (verify_witness_threshold).
THEOREM VerifierQuorum == VerifierSpec => EvidenceHasCurrentQuorum
<1>1. VerifierInv /\ [VerifierNext]_verifierVars => [QuorumStep]_verifierVars
  BY QuorumOfStep, Zenon
<1>2. EvidenceHasCurrentQuorum <=> [][QuorumStep]_verifierVars
  BY PTL DEF EvidenceHasCurrentQuorum, QuorumStep, PaymentEvidence, ReversalEvidence
<1> QED
  BY <1>1, <1>2, VerifierInvariant, PTL DEF VerifierSpec
=============================================================================
