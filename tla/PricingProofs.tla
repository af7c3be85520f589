--------------------------- MODULE PricingProofs ----------------------------
(***************************************************************************)
(* Fees can never block a settlement, for any amounts, fees, managers and  *)
(* referral lists: the caps on the three kinds of fee leave something of   *)
(* every release, a manager that charges has a recipient, and the share of *)
(* the release that reaches the recipient has a floor fixed at the signal. *)
(* Pricing leaves the escrow an escrow.                                    *)
(***************************************************************************)
EXTENDS Pricing, EscrowProofs

USE PricingAssumption, FeeAssumption, EscrowAssumption, ChainAssumption
-----------------------------------------------------------------------------
(* Arithmetic of fees.                                                     *)

\* A rounded-down fee is at most the exact one.
LEMMA FeeFloor ==
  ASSUME NEW a \in Nat, NEW rate \in Nat
  PROVE  /\ PreciseMulFloor(a, rate) \in Nat
         /\ Unit * PreciseMulFloor(a, rate) <= a * rate
<1> DEFINE n == a * rate
<1>1. n \in Nat
  OBVIOUS
<1> HIDE DEF n
<1>2. n \div Unit \in Nat /\ Unit * (n \div Unit) <= n
  BY <1>1, SMTT(60)
<1> QED
  BY <1>2, Zenon DEF PreciseMulFloor, n

\* Multiplication by a natural number keeps the order.
LEMMA Scale == ASSUME NEW a \in Nat, NEW b \in Nat, NEW c \in Nat, b <= c PROVE a * b <= a * c
OBVIOUS

\* Multiplication by a positive number keeps the strict order.
LEMMA StrictScale ==
  ASSUME NEW a \in Nat \ {0}, NEW b \in Nat, NEW c \in Nat, b < c
  PROVE  a * b < a * c
OBVIOUS

\* A positive factor cancels from a strict inequality.
LEMMA Cancelled ==
  ASSUME NEW a \in Nat, NEW b \in Nat, NEW c \in Nat \ {0}, c * a < c * b
  PROVE  a < b
<1>1. ASSUME b <= a PROVE c * b <= c * a
  BY <1>1, Scale, Zenon
<1> QED
  BY <1>1, SMTT(60)

\* The shares of a referral list, together, are at most the exact share of its
\* total fee.
LEMMA ReferralBound ==
  ASSUME NEW s, s.release \in Nat, s.referral \in [Users -> Nat]
  PROVE  /\ Sum(ReferralShares(s), Users) \in Nat
         /\ Sum(s.referral, Users) \in Nat
         /\ Unit * Sum(ReferralShares(s), Users) <= s.release * Sum(s.referral, Users)
<1> DEFINE f == ReferralShares(s)
           g == s.referral
           a == s.release
<1>1. DOMAIN g = Users
  BY Zenon
<1>2. f = [r \in Users |-> PreciseMulFloor(a, g[r])]
  BY <1>1, Zenon DEF ReferralShares
<1>3. \A r \in Users : PreciseMulFloor(a, g[r]) \in Nat /\ Unit * PreciseMulFloor(a, g[r]) <= a * g[r]
  BY FeeFloor, Zenon
<1>4. f \in [Users -> Nat] /\ \A r \in Users : Unit * f[r] <= a * g[r]
  BY <1>2, <1>3, SMTT(60)
<1> HIDE DEF f, g, a
<1>5. g \in [Users -> Nat] /\ a \in Nat /\ Unit \in Nat /\ IsFiniteSet(Users)
  BY Zenon DEF g, a
<1>6. Unit * Sum(f, Users) <= a * Sum(g, Users) /\ Sum(f, Users) \in Nat /\ Sum(g, Users) \in Nat
  BY <1>4, <1>5, SumScaled, SumType, Zenon
<1> QED
  BY <1>6, Zenon DEF f, g, a

\* What a settlement within the caps leaves for the recipient: at least what
\* the fees, unrounded, leave, and always something.
LEMMA NetBound ==
  ASSUME NEW s, s.release \in Nat \ {0}, s.referral \in [Users -> Nat],
         s.protocolFee \in Nat, s.protocolFee <= MaxFee,
         s.managerFee \in Nat, s.managerFee <= MaxFee,
         Sum(s.referral, Users) <= MaxReferralFee
  PROVE  /\ NetProceeds(s) \in Nat \ {0}
         /\ Unit * NetProceeds(s) >=
              s.release * (Unit - s.protocolFee - s.managerFee - Sum(s.referral, Users))
<1> DEFINE a == s.release
           p == PreciseMulFloor(a, s.protocolFee)
           m == PreciseMulFloor(a, s.managerFee)
           r == Sum(ReferralShares(s), Users)
           P == s.protocolFee
           M == s.managerFee
           R == Sum(s.referral, Users)
<1>1. /\ a \in Nat \ {0} /\ P \in Nat /\ M \in Nat /\ R \in Nat
      /\ P <= MaxFee /\ M <= MaxFee /\ R <= MaxReferralFee
      /\ p \in Nat /\ m \in Nat /\ r \in Nat
      /\ Unit * p <= a * P /\ Unit * m <= a * M /\ Unit * r <= a * R
  BY FeeFloor, ReferralBound, Zenon
<1>2. NetProceeds(s) = a - p - m - r
  <2>1. DOMAIN s.referral = Users
    BY Zenon
  <2> QED BY <2>1, Zenon DEF NetProceeds
<1> HIDE DEF a, p, m, r, P, M, R
<1>3. Unit * (p + m + r) <= a * (P + M + R)
  <2>1. Unit * (p + m + r) = Unit * p + Unit * m + Unit * r
    BY <1>1, SMTT(60)
  <2>2. a * (P + M + R) = a * P + a * M + a * R
    BY <1>1, SMTT(60)
  <2>3. Unit * p \in Nat /\ Unit * m \in Nat /\ Unit * r \in Nat
        /\ a * P \in Nat /\ a * M \in Nat /\ a * R \in Nat
    BY <1>1, SMTT(60)
  <2> QED BY <1>1, <2>1, <2>2, <2>3, SMTT(60)
<1>4. P + M + R < Unit /\ P + M + R \in Nat /\ p + m + r \in Nat
  BY <1>1, SMTT(60)
<1>5. a * (P + M + R) < a * Unit
  BY <1>1, <1>4, StrictScale, Zenon
<1>6. Unit * (p + m + r) < Unit * a
  <2>1. a * Unit = Unit * a /\ Unit * a \in Nat /\ Unit * (p + m + r) \in Nat
        /\ a * (P + M + R) \in Nat
    BY <1>1, <1>4, SMTT(60)
  <2> QED BY <1>3, <1>5, <2>1, SMTT(60)
<1>7. p + m + r < a
  BY <1>1, <1>4, <1>6, Cancelled, Zenon
<1>8. Unit * (a - p - m - r) >= a * (Unit - P - M - R)
  <2>1. Unit * (a - p - m - r) = Unit * a - Unit * (p + m + r)
    BY <1>1, SMTT(60)
  <2>2. a * (Unit - P - M - R) = Unit * a - a * (P + M + R)
    BY <1>1, SMTT(60)
  <2>3. Unit * a \in Int /\ Unit * (p + m + r) \in Int /\ a * (P + M + R) \in Int
    BY <1>1, SMTT(60)
  <2> QED BY <1>3, <2>1, <2>2, <2>3, SMTT(60)
<1>9. a - p - m - r \in Nat \ {0}
  BY <1>1, <1>7, SMTT(60)
<1> QED
  BY <1>2, <1>8, <1>9, Zenon DEF a, P, M, R
-----------------------------------------------------------------------------
(* Pricing implements the escrow.                                          *)

\* A step of the priced escrow is a step of the escrow or leaves it alone.
LEMMA PricedEscrowStep ==
  ASSUME [PricingNext]_pricedVars
  PROVE  [EscrowNext]_<<now, escrowVars>>
<1>1. CASE UnpricedNext
  BY <1>1, Zenon DEF UnpricedNext, EscrowNext, IntentNext, GovernanceNext
<1>2. CASE PricedMakerNext
  BY <1>2, Zenon DEF PricedMakerNext, EscrowNext
<1>3. CASE MarketNext
  BY <1>3, Zenon DEF MarketNext, UpdateOracleQuote, ConfigureCurrency, SetDepositRateManager
<1>4. CASE ManagerNext
  BY <1>4, ZenonT(60) DEF ManagerNext, CreateRateManager, SetRateManagerConfig, SetManagerFee,
     SetManagerMinLiquidity, SetManagerRate
<1>5. CASE PricedIntentNext
  <2>1. ASSUME NEW t \in Users, NEW d \in DepositIds, NEW m \in Methods, NEW a \in Amounts,
               NEW cover \in BOOLEAN, NEW c \in Currencies, NEW rate \in Rates,
               NEW recipient \in Users, NEW referral \in Referrals,
               Signal(t, d, m, a, cover, c, rate, recipient, referral)
        PROVE  IntentNext
    <3>1. SignalIntent(t, d, m, a, cover)
      BY <2>1, Zenon DEF Signal
    <3> QED BY <3>1, SMTT(60) DEF IntentNext
  <2>2. ASSUME NEW i \in IntentIds,
               \/ \E u \in Users : Cancel(u, i) \/ Release(u, i)
               \/ Prune(i)
               \/ \E p \in Payments, attested \in Amounts : Fulfill(i, p, attested)
        PROVE  IntentNext
    BY <2>2, Zenon DEF Cancel, Release, Prune, Fulfill, IntentNext
  <2>3. IntentNext
    BY <1>5, <2>1, <2>2, SMTT(60) DEF PricedIntentNext
  <2> QED BY <2>3, Zenon DEF EscrowNext
<1>6. CASE UNCHANGED pricedVars
  BY <1>6, Zenon DEF pricedVars
<1>7. CASE FeesNext
  BY <1>7, Zenon DEF FeesNext, ConfigureFees, EscrowNext, GovernanceNext
<1> QED
  BY <1>1, <1>2, <1>3, <1>4, <1>5, <1>6, <1>7, Zenon DEF PricingNext

\* Prices and fees leave the escrow as it is: everything proved of Escrow holds
\* with them.
THEOREM PricingImplementsEscrow == PricingSpec => EscrowSpec
<1>1. PricingInit => EscrowInit
  BY Zenon DEF PricingInit
<1>2. [PricingNext]_pricedVars => [EscrowNext]_<<now, escrowVars>>
  BY PricedEscrowStep, Zenon
<1> QED
  BY <1>1, <1>2, PTL DEF PricingSpec, EscrowSpec

\* Every step but those of the intents leaves them, their terms and the payments
\* alone.
LEMMA OutsideIntents ==
  ASSUME [PricingNext]_pricedVars, ~PricedIntentNext
  PROVE  UNCHANGED <<intents, terms, paid>>
<1>1. UnpricedNext => UNCHANGED <<intents, terms, paid>>
  BY Zenon DEF UnpricedNext, EscrowTick, ExtendIntentExpiry, ConfigureEscrow, escrowVars,
     intentVars, pricingVars
<1>2. PricedMakerNext => UNCHANGED <<intents, terms, paid>>
  BY IntentsUntouched, Zenon DEF PricedMakerNext, intentVars
<1>3. MarketNext => UNCHANGED <<intents, terms, paid>>
  BY Zenon DEF MarketNext, UpdateOracleQuote, ConfigureCurrency, SetDepositRateManager,
     escrowVars, intentVars
<1>4. FeesNext => UNCHANGED <<intents, terms, paid>>
  BY Zenon DEF FeesNext, ConfigureFees, ConfigureOrchestrator, intentVars
<1>5. ManagerNext => UNCHANGED <<intents, terms, paid>>
  BY ZenonT(60) DEF ManagerNext, CreateRateManager, SetRateManagerConfig, SetManagerFee,
     SetManagerMinLiquidity, SetManagerRate, escrowVars, intentVars
<1>6. UNCHANGED pricedVars => UNCHANGED <<intents, terms, paid>>
  BY Zenon DEF pricedVars, pricingVars, escrowVars, intentVars
<1> QED
  BY <1>1, <1>2, <1>3, <1>4, <1>5, <1>6, ZenonT(60) DEF PricingNext
-----------------------------------------------------------------------------
(* Managers and terms stay within the caps.                                *)

\* A manager that changes keeps its bounds; the others are as they were.
LEMMA ManagerChanged ==
  ASSUME MarketInv, NEW k \in ManagerIds, NEW s \in RateManager,
         s.fee <= s.maxFee, s.maxFee <= MaxFee, s.fee > 0 => s.recipient # NoOne,
         managers' = [managers EXCEPT ![k] = s], nextManager' \in 0..MaxManagers,
         UNCHANGED <<delegated, protocol>>
  PROVE  MarketInv'
<1>1. /\ managers' \in [ManagerIds -> RateManager \cup {NoManager}]
      /\ managers'[k] = s /\ s # NoManager
      /\ \A j \in ManagerIds \ {k} : managers'[j] = managers[j]
  BY Zenon DEF MarketInv
<1>2. \A j \in ManagerIds : SoundManager(j)'
  BY <1>1, Zenon DEF MarketInv, SoundManager
<1>3. \A d \in DepositIds : delegated'[d] # NoManager => managers'[delegated'[d]] # NoManager
  BY <1>1, ZenonT(60) DEF MarketInv
<1> QED
  BY <1>1, <1>2, <1>3, Zenon DEF MarketInv

\* Every step keeps rate managers, delegations and protocol fees sound.
LEMMA MarketStep ==
  ASSUME MarketInv, [PricingNext]_pricedVars
  PROVE  MarketInv'
<1>0. /\ managers \in [ManagerIds -> RateManager \cup {NoManager}] /\ nextManager \in 0..MaxManagers
      /\ \A k \in ManagerIds : SoundManager(k)
  BY Zenon DEF MarketInv
<1>1. ASSUME UNCHANGED <<managers, nextManager, delegated, protocol>> PROVE MarketInv'
  BY <1>1, Zenon DEF MarketInv, SoundManager
<1>2. CASE UnpricedNext \/ PricedMakerNext \/ UNCHANGED pricedVars
  <2>1. UNCHANGED <<managers, nextManager, delegated, protocol>>
    BY <1>2, Zenon DEF UnpricedNext, PricedMakerNext, pricedVars, pricingVars, marketVars
  <2> QED BY <1>1, <2>1, Zenon
<1>3. CASE PricedIntentNext
  <2>1. ASSUME NEW t, NEW d, NEW m, NEW a, NEW cover, NEW c, NEW rate, NEW recipient, NEW referral,
               Signal(t, d, m, a, cover, c, rate, recipient, referral)
        PROVE  UNCHANGED marketVars
    BY <2>1, Zenon DEF Signal
  <2>2. ASSUME NEW u, NEW i, NEW p, NEW attested,
               Cancel(u, i) \/ Release(u, i) \/ Prune(i) \/ Fulfill(i, p, attested)
        PROVE  UNCHANGED marketVars
    BY <2>2, Zenon DEF Cancel, Release, Prune, Fulfill, DropTerms, DistributeFunds
  <2>3. UNCHANGED marketVars
    BY <1>3, <2>1, <2>2, Zenon DEF PricedIntentNext
  <2> QED BY <1>1, <2>3, Zenon DEF marketVars
<1>4. CASE MarketNext
  <2>1. ASSUME NEW u, NEW d \in DepositIds, NEW k \in ManagerIds \cup {NoManager},
               SetDepositRateManager(u, d, k)
        PROVE  MarketInv'
    <3>1. /\ UNCHANGED <<managers, nextManager, protocol>>
          /\ delegated' = [delegated EXCEPT ![d] = k] /\ (k # NoManager => managers[k] # NoManager)
      BY <2>1, Zenon DEF SetDepositRateManager
    <3> QED BY <3>1, Zenon DEF MarketInv, SoundManager
  <2>2. ASSUME NEW u, NEW d, NEW m, NEW c, NEW s, NEW f, NEW rate, NEW valid,
               UpdateOracleQuote(f, rate, valid) \/ ConfigureCurrency(u, d, m, c, s)
        PROVE  MarketInv'
    <3>1. UNCHANGED <<managers, nextManager, delegated, protocol>>
      BY <2>2, Zenon DEF UpdateOracleQuote, ConfigureCurrency
    <3> QED BY <1>1, <3>1, Zenon
  <2> QED BY <1>4, <2>1, <2>2, Zenon DEF MarketNext
<1>5. CASE ManagerNext
  <2>1. ASSUME NEW s \in ManagerSettings, CreateRateManager(s) PROVE MarketInv'
    <3>0. nextManager < MaxManagers /\ nextManager' = nextManager + 1
      BY <2>1, Zenon DEF CreateRateManager
    <3>1. nextManager \in ManagerIds /\ nextManager' \in 0..MaxManagers
      BY <1>0, <3>0, SMTT(60) DEF ManagerIds
    <3>2. /\ s \in RateManager /\ s.fee <= s.maxFee /\ s.maxFee <= MaxFee
          /\ (s.fee > 0 => s.recipient # NoOne)
          /\ managers' = [managers EXCEPT ![nextManager] = s] /\ UNCHANGED <<delegated, protocol>>
      BY <2>1, Zenon DEF CreateRateManager
    <3> QED BY <3>1, <3>2, ManagerChanged, Zenon
  <2>2. ASSUME NEW k \in ManagerIds, NEW u, Manages(u, k)
        PROVE  /\ managers[k] \in RateManager /\ managers[k].fee <= managers[k].maxFee
               /\ managers[k].maxFee <= MaxFee
               /\ managers[k].fee > 0 => managers[k].recipient # NoOne
    BY <1>0, <2>2, Zenon DEF Manages, SoundManager
  <2>3. ASSUME NEW u, NEW k \in ManagerIds, NEW v \in Users, NEW recipient \in Users \cup {NoOne},
               SetRateManagerConfig(u, k, v, recipient)
        PROVE  MarketInv'
    <3> DEFINE s == [managers[k] EXCEPT !.manager = v, !.recipient = recipient]
    <3>1. Manages(u, k) /\ (managers[k].fee > 0 => recipient # NoOne)
          /\ managers' = [managers EXCEPT ![k] = s] /\ UNCHANGED <<nextManager, delegated, protocol>>
      BY <2>3, Zenon DEF SetRateManagerConfig
    <3>2. s \in RateManager /\ s.fee = managers[k].fee /\ s.maxFee = managers[k].maxFee
          /\ s.recipient = recipient
      BY <2>2, <3>1, Zenon DEF RateManager
    <3> HIDE DEF s
    <3> QED BY <1>0, <2>2, <3>1, <3>2, ManagerChanged, Zenon
  <2>4. ASSUME NEW u, NEW k \in ManagerIds, NEW fee \in Fees, SetManagerFee(u, k, fee)
        PROVE  MarketInv'
    <3> DEFINE s == [managers[k] EXCEPT !.fee = fee]
    <3>1. Manages(u, k) /\ fee <= managers[k].maxFee
          /\ (fee > 0 => managers[k].recipient # NoOne)
          /\ managers' = [managers EXCEPT ![k] = s] /\ UNCHANGED <<nextManager, delegated, protocol>>
      BY <2>4, Zenon DEF SetManagerFee
    <3>2. s \in RateManager /\ s.fee = fee /\ s.maxFee = managers[k].maxFee
          /\ s.recipient = managers[k].recipient
      BY <2>2, <3>1, Zenon DEF RateManager
    <3> HIDE DEF s
    <3> QED BY <1>0, <2>2, <3>1, <3>2, ManagerChanged, Zenon
  <2>5. ASSUME NEW u, NEW k \in ManagerIds, NEW min \in Amounts, SetManagerMinLiquidity(u, k, min)
        PROVE  MarketInv'
    <3> DEFINE s == [managers[k] EXCEPT !.min = min]
    <3>1. Manages(u, k)
          /\ managers' = [managers EXCEPT ![k] = s] /\ UNCHANGED <<nextManager, delegated, protocol>>
      BY <2>5, Zenon DEF SetManagerMinLiquidity
    <3>2. s \in RateManager /\ s.fee = managers[k].fee /\ s.maxFee = managers[k].maxFee
          /\ s.recipient = managers[k].recipient
      BY <2>2, <3>1, Zenon DEF RateManager
    <3> HIDE DEF s
    <3> QED BY <1>0, <2>2, <3>1, <3>2, ManagerChanged, Zenon
  <2>6. ASSUME NEW u, NEW k, NEW m, NEW c, NEW rate, SetManagerRate(u, k, m, c, rate)
        PROVE  MarketInv'
    BY <1>1, <2>6, Zenon DEF SetManagerRate
  <2> QED BY <1>5, <2>1, <2>3, <2>4, <2>5, <2>6, Zenon DEF ManagerNext
<1>6. CASE FeesNext
  <2>1. PICK c \in OrchestratorSettings, fee \in Fees, recipient \in Users :
          ConfigureFees(c, fee, recipient)
    BY <1>6, Zenon DEF FeesNext
  <2>2. /\ protocol' \in [fee : 0..MaxFee, recipient : Users]
        /\ UNCHANGED <<managers, nextManager, delegated>>
    BY <2>1, SMTT(60) DEF ConfigureFees
  <2> QED BY <2>2, Zenon DEF MarketInv, SoundManager
<1> QED
  BY <1>2, <1>3, <1>4, <1>5, <1>6, Zenon DEF PricingNext

\* Every step keeps the terms that a live intent took when it was signalled.
LEMMA TermsStep ==
  ASSUME EscrowInv, MarketInv, TermsInv, [PricingNext]_pricedVars
  PROVE  TermsInv'
<1>0. /\ LifecycleInv /\ terms \in [IntentIds -> IntentTerms \cup {NoTerms}]
      /\ intents \in [IntentIds -> Intent \cup {NoIntent}]
      /\ now \in Nat
  BY SMTT(60) DEF EscrowInv, AccountsInv, LifecycleInv, IntentsTypeOK, TermsInv
<1>1. ASSUME UNCHANGED <<intents, terms>> PROVE TermsInv'
  BY <1>1, Zenon DEF TermsInv, SoundTerms, Active
<1>2. CASE ~PricedIntentNext
  <2>1. UNCHANGED <<intents, terms>>
    BY <1>2, OutsideIntents, Zenon
  <2> QED BY <1>1, <2>1, Zenon
<1>3. ASSUME NEW t \in Users, NEW d \in DepositIds, NEW m \in Methods, NEW a \in Amounts,
             NEW cover \in BOOLEAN, NEW c \in Currencies, NEW rate \in Rates,
             NEW recipient \in Users, NEW referral \in Referrals,
             Signal(t, d, m, a, cover, c, rate, recipient, referral)
      PROVE  TermsInv'
  <2> DEFINE k == delegated[d]
             manager == IF k = NoManager THEN NoOne ELSE managers[k].recipient
             fee == IF k = NoManager THEN 0 ELSE managers[k].fee
             x == [currency |-> c, rate |-> rate, recipient |-> recipient, manager |-> manager,
                   managerFee |-> fee, referral |-> referral, protocolFee |-> protocol.fee]
             new == [owner |-> t, deposit |-> d, method |-> m, amount |-> a, timestamp |-> now]
  <2>1. SignalIntent(t, d, m, a, cover) /\ ValidReferralFees(referral)
        /\ terms' = [terms EXCEPT ![nextIntent] = x]
    BY <1>3, Zenon DEF Signal
  <2>2. PICK n \in IntentIds : n = nextIntent
    BY <1>0, <2>1, SignalledFresh, Zenon
  <2>3. intents' = [intents EXCEPT ![n] = new] /\ terms' = [terms EXCEPT ![n] = x]
    BY <2>1, <2>2, Zenon DEF SignalIntent
  <2>4. /\ manager \in Users \cup {NoOne} /\ fee \in Nat /\ fee <= MaxFee
        /\ fee > 0 => manager # NoOne
    BY SMTT(60) DEF MarketInv, SoundManager, RateManager
  <2>5. referral \in [Users -> Nat] /\ Sum(referral, Users) <= MaxReferralFee
    BY <2>1, Zenon DEF ValidReferralFees
  <2>6. protocol.fee \in Nat
    BY SMTT(60) DEF MarketInv
  <2>7. new \in Intent /\ new # NoIntent
    BY <1>0, SMTT(60) DEF Intent
  <2> HIDE DEF manager, fee, new
  <2>8. /\ x \in IntentTerms /\ x.managerFee = fee /\ x.manager = manager
        /\ x.referral = referral
    BY <2>4, <2>5, <2>6, Zenon DEF IntentTerms
  <2> HIDE DEF x
  <2>9. /\ terms'[n] = x /\ intents'[n] = new /\ x # NoTerms
        /\ terms' \in [IntentIds -> IntentTerms \cup {NoTerms}]
        /\ \A j \in IntentIds \ {n} : terms'[j] = terms[j] /\ intents'[j] = intents[j]
    BY <1>0, <2>3, <2>8, Zenon
  <2> QED
    BY <2>4, <2>5, <2>7, <2>8, <2>9, Zenon DEF TermsInv, SoundTerms, Active
<1>4. ASSUME NEW i \in IntentIds, CloseIntent(i), terms' = [terms EXCEPT ![i] = NoTerms]
      PROVE  TermsInv'
  <2>1. /\ terms'[i] = NoTerms /\ intents'[i] = NoIntent
        /\ terms' \in [IntentIds -> IntentTerms \cup {NoTerms}]
        /\ \A j \in IntentIds \ {i} : terms'[j] = terms[j] /\ intents'[j] = intents[j]
    BY <1>0, <1>4, Zenon DEF CloseIntent
  <2> QED BY <2>1, Zenon DEF TermsInv, SoundTerms, Active
<1>5. CASE PricedIntentNext
  <2>1. ASSUME NEW i \in IntentIds, NEW u, NEW p, NEW attested,
               Cancel(u, i) \/ Release(u, i) \/ Prune(i) \/ Fulfill(i, p, attested)
        PROVE  TermsInv'
    <3>1. CloseIntent(i) /\ terms' = [terms EXCEPT ![i] = NoTerms]
      BY <2>1, Zenon DEF Cancel, Release, Prune, Fulfill, DropTerms, DistributeFunds,
         CancelIntent, PruneExpiredIntent, ManualRelease, FulfillIntent
    <3> QED BY <1>4, <3>1, Zenon
  <2> QED BY <1>3, <1>5, <2>1, SMTT(60) DEF PricedIntentNext
<1> QED
  BY <1>2, <1>5, Zenon
-----------------------------------------------------------------------------
(* Payouts.                                                                *)

\* The settlement of any part of a live intent, field by field.
LEMMA SettlementSound ==
  ASSUME MarketInv, TermsInv, NEW i \in IntentIds, Active(i), NEW a \in Nat \ {0}, NEW s,
         s = Settlement(i, a)
  PROVE  /\ s.release = a /\ s.referral \in [Users -> Nat]
         /\ s.protocolFee = protocol.fee /\ s.managerFee = terms[i].managerFee
         /\ s.referral = terms[i].referral /\ s.managerTo = terms[i].manager
         /\ s.protocolFee \in Nat /\ s.protocolFee <= MaxFee
         /\ s.managerFee \in Nat /\ s.managerFee <= MaxFee
         /\ Sum(s.referral, Users) <= MaxReferralFee
         /\ s.recipient = terms[i].recipient /\ s.recipient \in Users
<1>1. SoundTerms(i) /\ protocol \in [fee : 0..MaxFee, recipient : Users]
  BY Zenon DEF TermsInv, MarketInv
<1>2. /\ terms[i].managerFee \in Nat /\ terms[i].referral \in [Users -> Nat]
      /\ terms[i].recipient \in Users
  BY <1>1, Zenon DEF SoundTerms, IntentTerms
<1>3. protocol.fee \in Nat /\ protocol.fee <= MaxFee
  BY <1>1, SMTT(60)
<1>4. /\ s.release = a /\ s.protocolFee = protocol.fee /\ s.managerFee = terms[i].managerFee
      /\ s.referral = terms[i].referral /\ s.managerTo = terms[i].manager
      /\ s.recipient = terms[i].recipient
  BY Zenon DEF Settlement
<1> QED
  BY <1>1, <1>2, <1>3, <1>4, Zenon DEF SoundTerms

\* Nobody is due a negative amount, and the recipient is due the net proceeds.
LEMMA DueBound ==
  ASSUME NEW s, s.release \in Nat \ {0}, s.referral \in [Users -> Nat],
         s.protocolFee \in Nat, s.protocolFee <= MaxFee,
         s.managerFee \in Nat, s.managerFee <= MaxFee,
         Sum(s.referral, Users) <= MaxReferralFee, NEW o \in Users
  PROVE  Due(o, s) \in Nat /\ (o = s.recipient => Due(o, s) >= NetProceeds(s))
<1> DEFINE p == PreciseMulFloor(s.release, s.protocolFee)
           m == PreciseMulFloor(s.release, s.managerFee)
           r == PreciseMulFloor(s.release, s.referral[o])
           n == NetProceeds(s)
<1>1. p \in Nat /\ m \in Nat /\ r \in Nat /\ n \in Nat
  BY FeeFloor, NetBound, Zenon
<1>2. Due(o, s) = (IF o = s.protocolTo THEN p ELSE 0) + (IF o = s.managerTo THEN m ELSE 0)
                    + r + (IF o = s.recipient THEN n ELSE 0)
  BY Zenon DEF Due
<1> HIDE DEF p, m, r, n
<1>3. Due(o, s) \in Nat /\ (o = s.recipient => Due(o, s) >= n)
  BY <1>1, <1>2, SMTT(60)
<1> QED
  BY <1>3, Zenon DEF n

\* A settlement distributes what it takes from the deposit, which is something.
LEMMA SettlingStep ==
  ASSUME EscrowInv, NEW i \in IntentIds,
         \/ \E u \in Users : Release(u, i)
         \/ \E q \in Payments, attested \in Amounts : Fulfill(i, q, attested)
  PROVE  /\ Active(i)
         /\ \E a \in Nat \ {0} :
              /\ DistributeFunds(i, a)
              /\ intents[i].deposit \in DepositIds
              /\ depositVault[intents[i].deposit] - depositVault'[intents[i].deposit] = a
<1>0. LedgerInv /\ LifecycleInv /\ Active(i)
  BY Zenon DEF EscrowInv, Release, Fulfill, ManualRelease, FulfillIntent
<1> DEFINE d == intents[i].deposit
<1>1. intents[i].amount \in Nat /\ d \in DepositIds
  BY <1>0, LiveLockFacts, Zenon DEF Intent
<1>2. depositVault \in [DepositIds -> Nat]
  BY <1>0, Zenon DEF LedgerInv, BooksTypeOK
<1>3. \E a \in Nat : DistributeFunds(i, a) /\ DepositSettle(d, intentLocks[i].amount, a)
  <2>1. ASSUME NEW u \in Users, Release(u, i)
        PROVE  DistributeFunds(i, intents[i].amount)
               /\ DepositSettle(d, intentLocks[i].amount, intents[i].amount)
    BY <2>1, Zenon DEF Release, ManualRelease
  <2>2. ASSUME NEW q \in Payments, NEW attested \in Amounts, Fulfill(i, q, attested)
        PROVE  /\ DistributeFunds(i, Released(i, attested))
               /\ DepositSettle(d, intentLocks[i].amount, Released(i, attested))
    BY <2>2, Zenon DEF Fulfill, FulfillIntent
  <2>3. \A attested \in Amounts : Released(i, attested) \in Nat
    BY <1>1, Zenon DEF Released
  <2> QED BY <1>1, <2>1, <2>2, <2>3, Zenon
<1>4. PICK a \in Nat : DistributeFunds(i, a) /\ DepositSettle(d, intentLocks[i].amount, a)
  BY <1>3, Zenon
<1>5. a > 0 /\ depositVault' = [depositVault EXCEPT ![d] = @ - a]
  BY <1>4, Zenon DEF DepositSettle
<1>6. depositVault[d] - depositVault'[d] = a
  BY <1>1, <1>2, <1>5, SMTT(60)
<1> QED
  BY <1>0, <1>1, <1>4, <1>5, <1>6, SMTT(60)

\* What settlements have paid stays a number per owner.
LEMMA PaidStep ==
  ASSUME EscrowInv, MarketInv, TermsInv, paid \in [Users -> Nat], [PricingNext]_pricedVars
  PROVE  paid' \in [Users -> Nat]
<1>1. ASSUME NEW i \in IntentIds,
             \/ \E u \in Users : Release(u, i)
             \/ \E q \in Payments, attested \in Amounts : Fulfill(i, q, attested)
      PROVE  paid' \in [Users -> Nat]
  <2>1. Active(i)
    BY <1>1, SettlingStep, Zenon
  <2>2. PICK a \in Nat \ {0} : DistributeFunds(i, a)
    BY <1>1, SettlingStep, Zenon
  <2> DEFINE s == Settlement(i, a)
  <2>3. /\ s.release = a /\ s.referral \in [Users -> Nat]
        /\ s.protocolFee \in Nat /\ s.protocolFee <= MaxFee
        /\ s.managerFee \in Nat /\ s.managerFee <= MaxFee
        /\ Sum(s.referral, Users) <= MaxReferralFee
    BY <2>1, SettlementSound, SMTT(60)
  <2>4. paid' = [u \in Users |-> paid[u] + Due(u, s)]
    BY <2>2, Zenon DEF DistributeFunds
  <2> HIDE DEF s
  <2>5. \A u \in Users : Due(u, s) \in Nat
    BY <2>3, DueBound, Zenon
  <2> QED BY <2>4, <2>5, SMTT(60)
<1>2. CASE ~PricedIntentNext
  BY <1>2, OutsideIntents, Zenon
<1>3. CASE PricedIntentNext
  <2>1. ASSUME NEW t, NEW d, NEW m, NEW a, NEW cover, NEW c, NEW rate, NEW recipient, NEW referral,
               Signal(t, d, m, a, cover, c, rate, recipient, referral)
        PROVE  UNCHANGED paid
    BY <2>1, Zenon DEF Signal
  <2>2. ASSUME NEW i, NEW u, Cancel(u, i) \/ Prune(i) PROVE UNCHANGED paid
    BY <2>2, Zenon DEF Cancel, Prune, DropTerms
  <2> QED BY <1>1, <1>3, <2>1, <2>2, ZenonT(60) DEF PricedIntentNext
<1> QED
  BY <1>2, <1>3, Zenon
\* Quotes, currencies, manager rates and payments keep their types.
LEMMA RatesStep ==
  ASSUME EscrowInv, RatesTypeOK, MarketInv, TermsInv, [PricingNext]_pricedVars
  PROVE  RatesTypeOK'
<1>0. /\ quotes \in [Feeds -> OracleQuote]
      /\ currencies \in [DepositIds \X Methods \X Currencies -> DepositCurrency]
      /\ entries \in [ManagerIds \X Methods \X Currencies -> Nat]
      /\ paid' \in [Users -> Nat] /\ now \in Nat
  <2>1. now \in Nat
    BY SMTT(60) DEF EscrowInv, AccountsInv
  <2> QED BY <2>1, PaidStep, Zenon DEF RatesTypeOK
<1>1. ASSUME UNCHANGED <<quotes, currencies, entries>> PROVE RatesTypeOK'
  BY <1>0, <1>1, Zenon DEF RatesTypeOK
<1>2. CASE UnpricedNext \/ UNCHANGED pricedVars
  <2>1. UNCHANGED <<quotes, currencies, entries>>
    BY <1>2, Zenon DEF UnpricedNext, pricedVars, pricingVars, marketVars
  <2> QED BY <1>1, <2>1, Zenon
<1>3. CASE PricedMakerNext
  <2>1. UNCHANGED <<quotes, entries>>
    BY <1>3, Zenon DEF PricedMakerNext
  <2>2. CASE UNCHANGED currencies
    BY <1>1, <2>1, <2>2, Zenon
  <2>3. ASSUME NEW m, NEW c, NEW s \in CurrencySettings,
               currencies' = [currencies EXCEPT ![<<nextDeposit, m, c>>] = s]
        PROVE  RatesTypeOK'
    <3>1. s \in DepositCurrency
      BY Zenon
    <3>2. currencies' \in [DepositIds \X Methods \X Currencies -> DepositCurrency]
      BY <1>0, <2>3, <3>1, Zenon
    <3> QED BY <1>0, <2>1, <3>2, Zenon DEF RatesTypeOK
  <2> QED BY <1>3, <2>2, <2>3, Zenon DEF PricedMakerNext
<1>4. CASE MarketNext
  <2>1. ASSUME NEW f \in Feeds, NEW rate \in Rates, NEW valid \in BOOLEAN,
               UpdateOracleQuote(f, rate, valid)
        PROVE  RatesTypeOK'
    <3>1. [rate |-> rate, updatedAt |-> now, valid |-> valid] \in OracleQuote
      BY <1>0, Zenon DEF OracleQuote
    <3>2. quotes' \in [Feeds -> OracleQuote] /\ UNCHANGED <<currencies, entries>>
      BY <1>0, <2>1, <3>1, Zenon DEF UpdateOracleQuote
    <3> QED BY <1>0, <3>2, Zenon DEF RatesTypeOK
  <2>2. ASSUME NEW u, NEW d, NEW m, NEW c, NEW s \in CurrencySettings,
               ConfigureCurrency(u, d, m, c, s)
        PROVE  RatesTypeOK'
    <3>1. s \in DepositCurrency
      BY Zenon
    <3>2. /\ currencies' \in [DepositIds \X Methods \X Currencies -> DepositCurrency]
          /\ UNCHANGED <<quotes, entries>>
      BY <1>0, <2>2, <3>1, Zenon DEF ConfigureCurrency
    <3> QED BY <1>0, <3>2, Zenon DEF RatesTypeOK
  <2>3. ASSUME NEW u, NEW d, NEW k, SetDepositRateManager(u, d, k)
        PROVE  RatesTypeOK'
    BY <1>1, <2>3, Zenon DEF SetDepositRateManager
  <2> QED BY <1>4, <2>1, <2>2, <2>3, Zenon DEF MarketNext
<1>5. CASE FeesNext
  BY <1>1, <1>5, Zenon DEF FeesNext, ConfigureFees
<1>6. CASE ManagerNext
  <2>1. ASSUME NEW u, NEW k, NEW m, NEW c, NEW rate \in Rates, SetManagerRate(u, k, m, c, rate)
        PROVE  RatesTypeOK'
    <3>1. rate \in Nat
      BY Zenon
    <3>2. /\ entries' \in [ManagerIds \X Methods \X Currencies -> Nat]
          /\ UNCHANGED <<quotes, currencies>>
      BY <1>0, <2>1, <3>1, Zenon DEF SetManagerRate
    <3> QED BY <1>0, <3>2, Zenon DEF RatesTypeOK
  <2>2. ASSUME NEW u, NEW k, NEW v, NEW s, NEW x,
               \/ CreateRateManager(s) \/ SetRateManagerConfig(u, k, v, x)
               \/ SetManagerFee(u, k, x) \/ SetManagerMinLiquidity(u, k, x)
        PROVE  RatesTypeOK'
    BY <1>1, <2>2, Zenon DEF CreateRateManager, SetRateManagerConfig, SetManagerFee,
       SetManagerMinLiquidity
  <2> QED BY <1>6, <2>1, <2>2, Zenon DEF ManagerNext
<1>7. CASE PricedIntentNext
  <2>1. ASSUME NEW t, NEW d, NEW m, NEW a, NEW cover, NEW c, NEW rate, NEW recipient, NEW referral,
               Signal(t, d, m, a, cover, c, rate, recipient, referral)
        PROVE  UNCHANGED marketVars
    BY <2>1, Zenon DEF Signal
  <2>2. ASSUME NEW u, NEW i, NEW p, NEW attested,
               Cancel(u, i) \/ Release(u, i) \/ Prune(i) \/ Fulfill(i, p, attested)
        PROVE  UNCHANGED marketVars
    BY <2>2, Zenon DEF Cancel, Release, Prune, Fulfill, DropTerms, DistributeFunds
  <2>3. UNCHANGED marketVars
    BY <1>7, <2>1, <2>2, Zenon DEF PricedIntentNext
  <2> QED BY <1>1, <2>3, Zenon DEF marketVars
<1> QED
  BY <1>2, <1>3, <1>4, <1>5, <1>6, <1>7, Zenon DEF PricingNext
-----------------------------------------------------------------------------
(* The invariant, and what it is for.                                      *)

\* The inductive invariant holds in the initial states.
LEMMA PricingInitInv == PricingInit => PricingInv
<1> SUFFICES ASSUME PricingInit PROVE PricingInv
  BY Zenon
<1>1. EscrowInit
  BY Zenon DEF PricingInit
<1>2. EscrowInv
  BY <1>1, EscrowInitInv, Zenon
<1>3. MarketInv
  BY SMTT(60) DEF PricingInit, MarketInv, SoundManager
<1>4. \A i \in IntentIds : terms[i] = NoTerms /\ ~Active(i)
  BY <1>1, Zenon DEF PricingInit, EscrowInit, Active
<1>5. terms \in [IntentIds -> IntentTerms \cup {NoTerms}]
  BY Zenon DEF PricingInit
<1>6. RatesTypeOK
  <2>1. Unquoted \in OracleQuote /\ Unlisted \in DepositCurrency
    BY SMTT(60) DEF Unquoted, Unlisted, OracleQuote, DepositCurrency
  <2>2. 0 \in Nat
    OBVIOUS
  <2> QED BY <2>1, <2>2, Zenon DEF PricingInit, RatesTypeOK
<1> QED
  BY <1>2, <1>3, <1>4, <1>5, <1>6, ZenonT(60) DEF PricingInv, TermsInv

\* Every step keeps the inductive invariant.
LEMMA PricingNextInv == PricingInv /\ [PricingNext]_pricedVars => PricingInv'
<1> SUFFICES ASSUME PricingInv, [PricingNext]_pricedVars PROVE PricingInv'
  BY Zenon
<1> QED
  BY PricedEscrowStep, EscrowNextInv, MarketStep, TermsStep, RatesStep, Zenon DEF PricingInv

\* In every reachable state the escrow's books stand, rate managers and the protocol fee
\* keep to the caps, and exactly the live intents have the sound terms that
\* signal_intent snapshotted for them.
THEOREM PricingInvariant == PricingSpec => []PricingInv
BY PricingInitInv, PricingNextInv, PTL DEF PricingSpec

\* No fee, current or snapshotted, can block the settlement of a live intent.
THEOREM PricingPayable == PricingSpec => []SettlementPayable
<1>1. ASSUME PricingInv PROVE SettlementPayable
  <2> SUFFICES ASSUME NEW i \in IntentIds, Active(i), NEW a \in 1..intents[i].amount
               PROVE  Payable(Settlement(i, a))
    BY Zenon DEF SettlementPayable
  <2>1. intents[i].amount \in Nat
    BY <1>1, Zenon DEF PricingInv, EscrowInv, LifecycleInv, IntentsTypeOK, Active, Intent
  <2>2. a \in Nat \ {0}
    BY <2>1, SMTT(60)
  <2> DEFINE s == Settlement(i, a)
  <2>3. /\ s.release = a /\ s.referral \in [Users -> Nat]
        /\ s.protocolFee \in Nat /\ s.protocolFee <= MaxFee
        /\ s.managerFee \in Nat /\ s.managerFee <= MaxFee
        /\ Sum(s.referral, Users) <= MaxReferralFee
        /\ s.managerFee = terms[i].managerFee /\ s.managerTo = terms[i].manager
    BY <1>1, <2>2, SettlementSound, SMTT(60) DEF PricingInv
  <2>4. s.managerFee > 0 => s.managerTo # NoOne
    BY <1>1, <2>3, Zenon DEF PricingInv, TermsInv, SoundTerms
  <2> HIDE DEF s
  <2>5. NetProceeds(s) > 0
    BY <2>2, <2>3, NetBound, SMTT(60)
  <2>6. s.managerFee = 0 => PreciseMulFloor(s.release, s.managerFee) = 0
    BY <2>2, <2>3, SMTT(60) DEF PreciseMulFloor
  <2>7. Payable(s)
    BY <2>3, <2>4, <2>5, <2>6, SMTT(60) DEF Payable
  <2> QED BY <2>7, Zenon DEF s
<1> QED
  BY <1>1, PricingInvariant, PTL

\* What ProceedsGuaranteed says of one step.
ProceedsStep ==
  \A i \in IntentIds :
    LET d == intents[i].deposit
        a == depositVault[d] - depositVault'[d]
        t == terms[i]
    IN Active(i) /\ intents'[i] = NoIntent /\ a > 0 =>
         (paid'[t.recipient] - paid[t.recipient]) * Unit
           >= a * (Unit - MaxFee - t.managerFee - Sum(t.referral, Users))

\* An intent that ends in a step is cancelled, pruned or settled by it.
LEMMA EndingStep ==
  ASSUME PricingInv, [PricingNext]_pricedVars, NEW i \in IntentIds, Active(i),
         intents'[i] = NoIntent
  PROVE  \/ UNCHANGED depositVault
         \/ \E u \in Users : Release(u, i)
         \/ \E q \in Payments, attested \in Amounts : Fulfill(i, q, attested)
<1>0. LifecycleInv /\ intents \in [IntentIds -> Intent \cup {NoIntent}] /\ now \in Nat
      /\ intents' # intents
  BY SMTT(60) DEF PricingInv, EscrowInv, AccountsInv, LifecycleInv, IntentsTypeOK, Active
<1>1. PricedIntentNext
  BY <1>0, OutsideIntents, Zenon
<1>2. ASSUME NEW t, NEW d, NEW m, NEW a, NEW cover, NEW c, NEW rate, NEW recipient, NEW referral,
             Signal(t, d, m, a, cover, c, rate, recipient, referral)
      PROVE  UNCHANGED depositVault
  BY <1>2, Zenon DEF Signal, SignalIntent
<1>3. ASSUME NEW j \in IntentIds, CloseIntent(j) PROVE i = j
  BY <1>0, <1>3, Zenon DEF CloseIntent, Active
<1>4. ASSUME NEW j, NEW u, Cancel(u, j) \/ Prune(j) PROVE UNCHANGED depositVault
  BY <1>4, Zenon DEF Cancel, Prune, CancelIntent, PruneExpiredIntent
<1>5. ASSUME NEW j, NEW u, NEW q, NEW attested, Release(u, j) \/ Fulfill(j, q, attested)
      PROVE  CloseIntent(j)
  BY <1>5, Zenon DEF Release, Fulfill, ManualRelease, FulfillIntent
<1> QED
  BY <1>1, <1>2, <1>3, <1>4, <1>5, ZenonT(60) DEF PricedIntentNext

\* The step that settles an intent pays its recipient at least what the fee caps leave.
LEMMA ProceedsOfStep ==
  ASSUME PricingInv, [PricingNext]_pricedVars
  PROVE  ProceedsStep
<1> SUFFICES ASSUME NEW i \in IntentIds, Active(i), intents'[i] = NoIntent,
                    depositVault[intents[i].deposit] - depositVault'[intents[i].deposit] > 0
             PROVE  (paid'[terms[i].recipient] - paid[terms[i].recipient]) * Unit
                      >= (depositVault[intents[i].deposit] - depositVault'[intents[i].deposit])
                           * (Unit - MaxFee - terms[i].managerFee - Sum(terms[i].referral, Users))
  BY Zenon DEF ProceedsStep
<1>0. EscrowInv /\ MarketInv /\ TermsInv /\ paid \in [Users -> Nat]
  BY Zenon DEF PricingInv, RatesTypeOK
<1>1. \/ \E u \in Users : Release(u, i)
      \/ \E q \in Payments, attested \in Amounts : Fulfill(i, q, attested)
  <2>1. depositVault[intents[i].deposit] \in Int
    BY <1>0, LiveLockFacts, SMTT(60) DEF EscrowInv, LedgerInv, BooksTypeOK
  <2> QED BY <2>1, EndingStep, SMTT(60)
<1>2. PICK a \in Nat \ {0} :
        /\ DistributeFunds(i, a)
        /\ depositVault[intents[i].deposit] - depositVault'[intents[i].deposit] = a
  BY <1>0, <1>1, SettlingStep, ZenonT(60)
<1> DEFINE s == Settlement(i, a)
           o == terms[i].recipient
           R == Sum(terms[i].referral, Users)
           f == terms[i].managerFee
<1>3. /\ s.release = a /\ s.referral \in [Users -> Nat]
      /\ s.protocolFee \in Nat /\ s.protocolFee <= MaxFee
      /\ s.managerFee \in Nat /\ s.managerFee <= MaxFee
      /\ Sum(s.referral, Users) <= MaxReferralFee
      /\ s.managerFee = f /\ Sum(s.referral, Users) = R
      /\ s.recipient = o /\ o \in Users
  BY <1>0, SettlementSound, SMTT(60)
<1>4. paid' = [u \in Users |-> paid[u] + Due(u, s)]
  BY <1>2, Zenon DEF DistributeFunds
<1> HIDE DEF s, o, R, f
<1>5. Due(o, s) \in Nat /\ Due(o, s) >= NetProceeds(s)
  BY <1>3, DueBound, Zenon
<1>6. NetProceeds(s) \in Nat /\ Unit * NetProceeds(s) >= a * (Unit - s.protocolFee - f - R)
  BY <1>3, NetBound, Zenon
<1>7. R \in Nat
  BY <1>3, ReferralBound, ZenonT(60)
<1>8. paid'[o] - paid[o] = Due(o, s)
  BY <1>0, <1>3, <1>4, <1>5, SMTT(60)
<1> DEFINE p == s.protocolFee
           due == Due(o, s)
           net == NetProceeds(s)
<1>9. /\ p \in Nat /\ p <= MaxFee /\ f \in Nat /\ due \in Nat /\ net \in Nat /\ due >= net
      /\ Unit * net >= a * (Unit - p - f - R)
  BY <1>3, <1>5, <1>6, Zenon
<1> HIDE DEF p, due, net
<1>10. due * Unit >= a * (Unit - MaxFee - f - R)
  <2>1. Unit * net <= Unit * due
    BY <1>9, Scale, Zenon
  <2>2. a * (MaxFee - p) >= 0
    <3>1. MaxFee - p \in Nat
      BY <1>9, SMTT(60)
    <3> QED BY <3>1, SMTT(60)
  <2>3. a * (Unit - p - f - R) = a * (Unit - MaxFee - f - R) + a * (MaxFee - p)
    BY <1>7, <1>9, SMTT(60)
  <2>4. /\ a * (Unit - p - f - R) \in Int /\ a * (Unit - MaxFee - f - R) \in Int
        /\ a * (MaxFee - p) \in Int /\ Unit * net \in Int /\ Unit * due \in Int
        /\ due * Unit = Unit * due
    BY <1>7, <1>9, SMTT(60)
  <2> DEFINE owed == a * (Unit - p - f - R)
             least == a * (Unit - MaxFee - f - R)
             slack == a * (MaxFee - p)
             netScaled == Unit * net
             dueScaled == Unit * due
  <2>5. /\ netScaled <= dueScaled /\ slack >= 0 /\ owed = least + slack /\ netScaled >= owed
        /\ owed \in Int /\ least \in Int /\ slack \in Int
        /\ netScaled \in Int /\ dueScaled \in Int
    BY <1>9, <2>1, <2>2, <2>3, <2>4, ZenonT(60)
  <2> HIDE DEF owed, least, slack, netScaled, dueScaled
  <2>6. dueScaled >= least
    BY <2>5, SMTT(60)
  <2> QED BY <2>4, <2>6, Zenon DEF dueScaled, least
<1> QED
  BY <1>2, <1>8, <1>10, Zenon DEF o, R, f, due

\* The recipient's share of every released token is guaranteed at the signal.
THEOREM PricingProceeds == PricingSpec => ProceedsGuaranteed
<1>1. PricingInv /\ [PricingNext]_pricedVars => [ProceedsStep]_pricedVars
  BY ProceedsOfStep, Zenon
<1>2. ProceedsGuaranteed <=> [][ProceedsStep]_pricedVars
  BY PTL DEF ProceedsGuaranteed, ProceedsStep
<1> QED
  BY <1>1, <1>2, PricingInvariant, PTL DEF PricingSpec
-----------------------------------------------------------------------------
(* The rate floor.                                                         *)

\* The rounded-up market rate is no lower than the exact one.
LEMMA SpreadCeil ==
  ASSUME NEW rate \in Nat, NEW spread \in Int, SpreadFits(rate, spread)
  PROVE  /\ SpreadRateCeil(rate, spread) \in Nat
         /\ SpreadRateCeil(rate, spread) * Bps >= rate * (Bps + spread)
<1> DEFINE n == rate * (Bps + spread)
           x == n + (Bps - 1)
<1>1. n \in Nat /\ x \in Nat
  <2>1. Bps + spread \in Nat
    BY SMTT(60) DEF SpreadFits
  <2>2. n \in Nat
    BY <2>1, SMTT(60)
  <2> HIDE DEF n
  <2> QED BY <2>2, SMTT(60)
<1>2. SpreadRateCeil(rate, spread) = x \div Bps
  BY Zenon DEF SpreadRateCeil
<1> HIDE DEF n
<1>3. x = n + (Bps - 1)
  BY Zenon
<1> HIDE DEF x
<1>4. x \div Bps \in Nat /\ (x \div Bps) * Bps >= x - (Bps - 1)
  <2>1. x = Bps * (x \div Bps) + (x % Bps) /\ (x % Bps) \in 0..(Bps - 1) /\ x \div Bps \in Nat
    BY <1>1, SMTT(60)
  <2> DEFINE q == x \div Bps
             prod == q * Bps
             r == x % Bps
  <2>2. prod = Bps * q /\ prod \in Nat
    BY <2>1, SMTT(60)
  <2>3. x = prod + r /\ r \in 0..(Bps - 1) /\ prod \in Nat
    BY <2>1, <2>2, Zenon
  <2> HIDE DEF prod, r
  <2>4. prod >= x - (Bps - 1)
    BY <1>1, <2>3, SMTT(60)
  <2> QED BY <2>1, <2>4, Zenon DEF prod
<1>5. (x \div Bps) * Bps >= n
  <2> DEFINE prod == (x \div Bps) * Bps
  <2>1. prod \in Int /\ prod >= x - (Bps - 1)
    BY <1>4, SMTT(60)
  <2> HIDE DEF prod
  <2>2. prod >= n
    BY <1>1, <1>3, <2>1, SMTT(60)
  <2> QED BY <2>2, Zenon DEF prod
<1> QED
  BY <1>2, <1>4, <1>5, Zenon DEF n

\* A positive floor of a currency is at least its fixed floor and, when it
\* follows an oracle, the exact market rate of a fresh and valid quote.
LEMMA FloorAbove ==
  ASSUME NEW s \in DepositCurrency, quotes \in [Feeds -> OracleQuote], now \in Nat,
         EscrowFloor(s) # 0
  PROVE  /\ s.listed /\ EscrowFloor(s) \in Nat /\ EscrowFloor(s) >= s.fixed
         /\ s.oracle # NoFeed =>
              /\ quotes[s.oracle].valid
              /\ quotes[s.oracle].updatedAt \in (now - s.staleness)..now
              /\ EscrowFloor(s) * Bps >= quotes[s.oracle].rate * (Bps + s.spread)
<1>0. s.listed \in BOOLEAN /\ s.fixed \in Nat /\ s.oracle \in Feeds \cup {NoFeed}
      /\ s.spread \in Int /\ s.staleness \in Nat
  BY Zenon DEF DepositCurrency
<1>1. s.listed
  BY <1>0, Zenon DEF EscrowFloor
<1>2. CASE s.oracle = NoFeed
  <2>1. EscrowFloor(s) = s.fixed
    BY <1>1, <1>2, Zenon DEF EscrowFloor
  <2> QED BY <1>0, <1>1, <1>2, <2>1, SMTT(60)
<1>3. CASE s.oracle # NoFeed
  <2> DEFINE q == quotes[s.oracle]
             ceil == SpreadRateCeil(q.rate, s.spread)
             floor == EscrowFloor(s)
             exact == q.rate * (Bps + s.spread)
  <2>1. Usable(q, s) /\ floor = Larger(s.fixed, ceil)
    BY <1>1, <1>3, Zenon DEF EscrowFloor
  <2>2. q.rate \in Nat /\ q.updatedAt \in Nat /\ q.valid
    BY <1>0, <1>3, <2>1, Zenon DEF OracleQuote, Usable
  <2>3. SpreadFits(q.rate, s.spread)
    BY <2>1, Zenon DEF Usable
  <2>4. ceil \in Nat /\ ceil * Bps >= exact
    BY <1>0, <2>2, <2>3, SpreadCeil, ZenonT(60)
  <2>5. exact \in Int
    BY <1>0, <2>2, SMTT(60)
  <2>6. q.updatedAt <= now /\ now - q.updatedAt <= s.staleness
    BY <2>1, Zenon DEF Usable
  <2>7. q.updatedAt \in (now - s.staleness)..now
    BY <1>0, <2>2, <2>6, SMTT(60)
  <2> HIDE DEF q, ceil, floor, exact
  <2>8. floor \in Nat /\ floor >= s.fixed /\ floor >= ceil
    BY <1>0, <2>1, <2>4, SMTT(60) DEF Larger
  <2>9. floor * Bps >= exact
    <3>1. Bps * ceil <= Bps * floor
      BY <2>4, <2>8, Scale, SMTT(60)
    <3>2. Bps * ceil = ceil * Bps /\ Bps * floor = floor * Bps
          /\ ceil * Bps \in Int /\ floor * Bps \in Int
      BY <2>4, <2>8, SMTT(60)
    <3> DEFINE c == ceil * Bps
               f == floor * Bps
    <3>3. c <= f /\ c \in Int /\ f \in Int /\ c >= exact
      BY <2>4, <3>1, <3>2, Zenon
    <3> HIDE DEF c, f
    <3>4. f >= exact
      BY <2>5, <3>3, SMTT(60)
    <3> QED BY <3>4, Zenon DEF f
  <2> QED BY <1>1, <1>3, <2>2, <2>7, <2>8, <2>9, ZenonT(60) DEF q, floor, exact
<1> QED
  BY <1>2, <1>3, Zenon

\* A positive effective rate is at least the currency's floor and, when the
\* deposit delegates, the manager's own positive rate.
LEMMA EffectiveAbove ==
  ASSUME RatesTypeOK, MarketInv, now \in Nat, NEW d \in DepositIds, NEW m \in Methods,
         NEW c \in Currencies, EffectiveRate(d, m, c) > 0
  PROVE  LET s == currencies[d, m, c]
             k == delegated[d]
         IN /\ EscrowFloor(s) # 0 /\ s \in DepositCurrency /\ EscrowFloor(s) \in Nat
            /\ EffectiveRate(d, m, c) \in Nat /\ EffectiveRate(d, m, c) >= EscrowFloor(s)
            /\ k # NoManager => /\ k \in ManagerIds
                                /\ entries[k, m, c] \in Nat /\ entries[k, m, c] > 0
                                /\ EffectiveRate(d, m, c) >= entries[k, m, c]
<1> DEFINE s == currencies[d, m, c]
           k == delegated[d]
           floor == EscrowFloor(s)
           rate == EffectiveRate(d, m, c)
<1>1. s \in DepositCurrency /\ k \in ManagerIds \cup {NoManager}
      /\ quotes \in [Feeds -> OracleQuote]
  BY Zenon DEF RatesTypeOK, MarketInv
<1>2. ASSUME k # NoManager PROVE k \in ManagerIds /\ entries[k, m, c] \in Nat
  BY <1>1, <1>2, Zenon DEF RatesTypeOK
<1>3. floor # 0
  <2>1. floor = 0 => rate = 0
    BY Zenon DEF EffectiveRate
  <2>2. rate # 0
    BY SMTT(60)
  <2> QED BY <2>1, <2>2, Zenon
<1>4. floor \in Nat
  BY <1>1, <1>3, FloorAbove, Zenon
<1>5. CASE k = NoManager
  <2>1. rate = floor
    BY <1>3, <1>5, Zenon DEF EffectiveRate
  <2> HIDE DEF rate, floor
  <2>2. rate \in Nat /\ rate >= floor
    BY <1>4, <2>1, SMTT(60)
  <2> QED BY <1>1, <1>3, <1>4, <1>5, <2>2, Zenon DEF rate, floor
<1>6. CASE k # NoManager
  <2> DEFINE e == entries[k, m, c]
  <2>1. rate = IF e > 0 THEN Larger(e, floor) ELSE 0
    BY <1>3, <1>6, Zenon DEF EffectiveRate
  <2>2. e \in Nat /\ rate > 0
    BY <1>2, <1>6, Zenon
  <2> HIDE DEF rate, floor, e
  <2>3. rate \in Nat /\ rate >= floor /\ e > 0 /\ rate >= e
    BY <1>4, <2>1, <2>2, SMTT(60) DEF Larger
  <2> QED BY <1>1, <1>2, <1>3, <1>4, <1>6, <2>2, <2>3, ZenonT(60) DEF rate, floor, e
<1> QED
  BY <1>5, <1>6, Zenon

\* What SignalledAboveFloors says of one intent in one step.
AboveFloors(i) ==
  LET t == terms'[i]
      d == intents'[i].deposit
      s == currencies[d, intents'[i].method, t.currency]
      k == delegated[d]
  IN /\ s.listed
     /\ t.rate > 0
     /\ t.rate >= s.fixed
     /\ s.oracle # NoFeed =>
          LET q == quotes[s.oracle] IN
          /\ q.valid
          /\ q.updatedAt \in (now - s.staleness)..now
          /\ t.rate * Bps >= q.rate * (Bps + s.spread)
     /\ k # NoManager =>
          /\ entries[k, intents'[i].method, t.currency] \in 1..t.rate
          /\ t.managerFee = managers[k].fee

\* A signal is above every floor.
LEMMA SignalAbove ==
  ASSUME PricingInv, NEW t \in Users, NEW d \in DepositIds, NEW m \in Methods, NEW a \in Amounts,
         NEW cover \in BOOLEAN, NEW c \in Currencies, NEW rate \in Rates,
         NEW recipient \in Users, NEW referral \in Referrals,
         Signal(t, d, m, a, cover, c, rate, recipient, referral),
         NEW i \in IntentIds, ~Active(i), intents'[i] # NoIntent
  PROVE  AboveFloors(i)
<1> DEFINE floor == EffectiveRate(d, m, c)
           s == currencies[d, m, c]
           k == delegated[d]
           fee == IF k = NoManager THEN 0 ELSE managers[k].fee
           x == [currency |-> c, rate |-> rate, recipient |-> recipient,
                 manager |-> IF k = NoManager THEN NoOne ELSE managers[k].recipient,
                 managerFee |-> fee, referral |-> referral, protocolFee |-> protocol.fee]
           new == [owner |-> t, deposit |-> d, method |-> m, amount |-> a, timestamp |-> now]
<1>0. /\ LifecycleInv /\ RatesTypeOK /\ MarketInv /\ rate \in Nat
      /\ terms \in [IntentIds -> IntentTerms \cup {NoTerms}]
      /\ intents \in [IntentIds -> Intent \cup {NoIntent}]
  BY ZenonT(60) DEF PricingInv, EscrowInv, LifecycleInv, IntentsTypeOK, TermsInv
<1>1. now \in Nat
  BY SMTT(60) DEF PricingInv, EscrowInv, AccountsInv
<1>2. SignalIntent(t, d, m, a, cover) /\ terms' = [terms EXCEPT ![nextIntent] = x]
      /\ floor > 0 /\ rate >= floor
  BY Zenon DEF Signal
<1>3. intents' = [intents EXCEPT ![nextIntent] = new]
  BY <1>2, Zenon DEF SignalIntent
<1>4. i = nextIntent
  BY <1>0, <1>3, Zenon DEF Active
<1>5. terms'[i] = x /\ intents'[i] = new
  BY <1>0, <1>2, <1>3, <1>4, Zenon
<1>6. x.currency = c /\ x.rate = rate /\ x.managerFee = fee /\ new.deposit = d /\ new.method = m
  BY Zenon
<1>7. /\ EscrowFloor(s) # 0 /\ s \in DepositCurrency /\ EscrowFloor(s) \in Nat
      /\ floor \in Nat /\ floor >= EscrowFloor(s)
      /\ k # NoManager => /\ entries[k, m, c] \in Nat /\ entries[k, m, c] > 0
                          /\ floor >= entries[k, m, c]
  BY <1>0, <1>1, <1>2, EffectiveAbove, ZenonT(60)
<1>8. quotes \in [Feeds -> OracleQuote]
  BY <1>0, Zenon DEF RatesTypeOK
<1> DEFINE base == EscrowFloor(s)
           q == quotes[s.oracle]
<1>9. /\ s.listed /\ base \in Nat /\ base >= s.fixed /\ base # 0
      /\ s.oracle # NoFeed => /\ q.valid
                              /\ q.updatedAt \in (now - s.staleness)..now
                              /\ base * Bps >= q.rate * (Bps + s.spread)
  BY <1>1, <1>7, <1>8, FloorAbove, Zenon
<1>10. s.fixed \in Nat
  BY <1>7, ZenonT(60) DEF DepositCurrency
<1> HIDE DEF x, new, floor, base, s, k, fee
<1>11. rate >= base /\ rate > 0 /\ rate >= s.fixed
  <2>1. base \in Nat /\ base # 0 /\ floor \in Nat /\ floor >= base /\ base >= s.fixed
    BY <1>7, <1>9, Zenon DEF base
  <2> QED BY <1>0, <1>2, <1>10, <2>1, SMTT(60)
<1>12. ASSUME s.oracle # NoFeed PROVE rate * Bps >= q.rate * (Bps + s.spread)
  <2>1. q.rate \in Nat /\ s.spread \in Int
    BY <1>7, <1>8, <1>12, ZenonT(60) DEF DepositCurrency, OracleQuote
  <2> DEFINE exact == q.rate * (Bps + s.spread)
  <2>2. exact \in Int
    BY <2>1, SMTT(60)
  <2>3. base * Bps >= exact /\ base \in Nat
    BY <1>9, <1>12, ZenonT(60)
  <2> HIDE DEF exact
  <2>4. Bps * base <= Bps * rate
    BY <1>0, <1>11, <2>3, Scale, SMTT(60)
  <2>5. base * Bps = Bps * base /\ rate * Bps = Bps * rate
        /\ Bps * base \in Int /\ Bps * rate \in Int
    BY <1>0, <2>3, SMTT(60)
  <2> DEFINE low == Bps * base
             high == Bps * rate
  <2>6. low <= high /\ low >= exact /\ low \in Int /\ high \in Int
    BY <2>3, <2>4, <2>5, ZenonT(60)
  <2> HIDE DEF low, high
  <2>7. high >= exact
    BY <2>2, <2>6, SMTT(60)
  <2> QED BY <2>5, <2>7, Zenon DEF high, exact
<1>13. ASSUME k # NoManager PROVE entries[k, m, c] \in 1..rate /\ fee = managers[k].fee
  <2> DEFINE e == entries[k, m, c]
  <2>1. e \in Nat /\ e > 0 /\ floor >= e /\ floor \in Nat
    BY <1>7, <1>13, ZenonT(60)
  <2> HIDE DEF e
  <2>2. e \in 1..rate
    BY <1>0, <1>2, <2>1, SMTT(60)
  <2>3. fee = managers[k].fee
    BY <1>13, Zenon DEF fee
  <2> QED BY <2>2, <2>3, Zenon DEF e
<1> QED
  BY <1>5, <1>6, <1>9, <1>11, <1>12, <1>13, ZenonT(60) DEF AboveFloors, s, k

\* Only a signal starts an intent.
LEMMA AboveFloorsStep ==
  ASSUME PricingInv, [PricingNext]_pricedVars
  PROVE  \A i \in IntentIds : ~Active(i) /\ intents'[i] # NoIntent => AboveFloors(i)
<1> SUFFICES ASSUME NEW i \in IntentIds, ~Active(i), intents'[i] # NoIntent
             PROVE  AboveFloors(i)
  BY Zenon
<1>0. intents \in [IntentIds -> Intent \cup {NoIntent}]
  BY Zenon DEF PricingInv, EscrowInv, LifecycleInv, IntentsTypeOK
<1>1. PricedIntentNext
  BY OutsideIntents, Zenon DEF Active
<1>2. ASSUME NEW j, NEW u, NEW q, NEW attested,
             Cancel(u, j) \/ Release(u, j) \/ Prune(j) \/ Fulfill(j, q, attested)
      PROVE  FALSE
  <2>1. CloseIntent(j)
    BY <1>2, Zenon DEF Cancel, Release, Prune, Fulfill, CancelIntent, PruneExpiredIntent,
       ManualRelease, FulfillIntent
  <2> QED BY <1>0, <2>1, Zenon DEF CloseIntent, Active
<1>3. CASE \E t \in Users, d \in DepositIds, m \in Methods, a \in Amounts, cover \in BOOLEAN,
             c \in Currencies, rate \in Rates, recipient \in Users, referral \in Referrals :
            Signal(t, d, m, a, cover, c, rate, recipient, referral)
  <2>1. PICK t \in Users, d \in DepositIds, m \in Methods, a \in Amounts, cover \in BOOLEAN,
             c \in Currencies, rate \in Rates, recipient \in Users, referral \in Referrals :
            Signal(t, d, m, a, cover, c, rate, recipient, referral)
    BY <1>3, Zenon
  <2> HIDE PricingAssumption, FeeAssumption, EscrowAssumption, ChainAssumption
  <2> QED
    BY <2>1, SignalAbove, SMTT(60)
<1>4. CASE \E j \in IntentIds :
             \/ \E u \in Users : Cancel(u, j) \/ Release(u, j)
             \/ Prune(j)
             \/ \E q \in Payments, attested \in Amounts : Fulfill(j, q, attested)
  BY <1>2, <1>4, Zenon
<1> QED
  BY <1>1, <1>3, <1>4, Zenon DEF PricedIntentNext

\* Signals respect the fixed, the market and the manager's floor.
THEOREM PricingFloors == PricingSpec => SignalledAboveFloors
<1> DEFINE Step == \A i \in IntentIds : ~Active(i) /\ intents'[i] # NoIntent => AboveFloors(i)
<1>1. PricingInv /\ [PricingNext]_pricedVars => [Step]_pricedVars
  BY AboveFloorsStep, Zenon
<1>2. SignalledAboveFloors <=> [][Step]_pricedVars
  BY PTL DEF SignalledAboveFloors, AboveFloors
<1> HIDE DEF Step
<1> QED
  BY <1>1, <1>2, PricingInvariant, PTL DEF PricingSpec
-----------------------------------------------------------------------------
(* Conservation.                                                           *)

\* The legs of a payable settlement add up to the release.
LEMMA SettlementTotal ==
  ASSUME NEW s, s.release \in Nat \ {0}, s.referral \in [Users -> Nat],
         s.protocolFee \in Nat, s.protocolFee <= MaxFee,
         s.managerFee \in Nat, s.managerFee <= MaxFee,
         Sum(s.referral, Users) <= MaxReferralFee,
         s.protocolTo \in Users, s.recipient \in Users, s.managerTo \in Users \cup {NoOne},
         Payable(s)
  PROVE  Sum([u \in Users |-> Due(u, s)], Users) = s.release
<1> DEFINE p == PreciseMulFloor(s.release, s.protocolFee)
           m == PreciseMulFloor(s.release, s.managerFee)
           n == NetProceeds(s)
           P == [u \in Users |-> IF u = s.protocolTo THEN p ELSE 0]
           M == [u \in Users |-> IF u = s.managerTo THEN m ELSE 0]
           R == ReferralShares(s)
           N == [u \in Users |-> IF u = s.recipient THEN n ELSE 0]
           r == Sum(R, Users)
<1>1. p \in Nat /\ m \in Nat /\ n \in Nat /\ r \in Nat /\ IsFiniteSet(Users)
  BY FeeFloor, NetBound, ReferralBound, Zenon
<1>2. DOMAIN s.referral = Users
  BY Zenon
<1>3. n = s.release - p - m - r
  BY <1>2, Zenon DEF NetProceeds
<1>4. R \in [Users -> Nat] /\ \A u \in Users : R[u] = PreciseMulFloor(s.release, s.referral[u])
  <2>1. \A u \in Users : PreciseMulFloor(s.release, s.referral[u]) \in Nat
    BY FeeFloor, Zenon
  <2> QED BY <1>2, <2>1, Zenon DEF ReferralShares
<1>5. \A u \in Users : Due(u, s) = (IF u = s.protocolTo THEN p ELSE 0)
                                     + (IF u = s.managerTo THEN m ELSE 0) + R[u]
                                     + (IF u = s.recipient THEN n ELSE 0)
  BY <1>4, Zenon DEF Due
<1>6. ASSUME s.managerTo \notin Users PROVE m = 0
  <2>1. s.managerTo = NoOne
    BY <1>6, Zenon
  <2>2. ~(m > 0)
    BY <2>1, Zenon DEF Payable
  <2> HIDE DEF m
  <2> QED BY <1>1, <2>2, SMTT(60)
<1> HIDE DEF p, m, n, R
<1>7. P \in [Users -> Nat] /\ M \in [Users -> Nat] /\ N \in [Users -> Nat]
  <2>1. 0 \in Nat
    OBVIOUS
  <2>2. \A x, w : x \in Nat => [u \in Users |-> IF u = w THEN x ELSE 0] \in [Users -> Nat]
    BY <2>1, Zenon
  <2> QED
    BY <1>1, <2>2, Zenon
<1>0. \A w \in Users, x \in Nat : Sum([u \in Users |-> IF u = w THEN x ELSE 0], Users) = x
  <2>1. IsFiniteSet(Users)
    BY <1>1, Zenon
  <2> QED BY ONLY <2>1, SumSingle, Zenon
<1>8. Sum(P, Users) = p /\ Sum(N, Users) = n
  <2>1. p \in Nat /\ n \in Nat /\ s.protocolTo \in Users /\ s.recipient \in Users
    BY <1>1, Zenon
  <2> QED BY <1>0, <2>1, Zenon
<1>9. Sum(M, Users) = m
  <2>1. CASE s.managerTo \in Users
    <3>1. m \in Nat
      BY <1>1, Zenon
    <3> QED BY <1>0, <2>1, <3>1, Zenon
  <2>2. CASE s.managerTo \notin Users
    <3>1. \A u \in Users : M[u] = 0
      BY <2>2, Zenon
    <3>2. Sum(M, Users) = 0
      BY <1>7, <3>1, SumZero, Zenon
    <3> QED BY <1>6, <2>2, <3>2, Zenon
  <2> QED BY <2>1, <2>2, Zenon
<1>10. \A u \in Users : Due(u, s) = P[u] + M[u] + R[u] + N[u]
  BY <1>5, Zenon
<1> HIDE DEF P, M, N
<1> DEFINE PM == [u \in Users |-> P[u] + M[u]]
           PMR == [u \in Users |-> PM[u] + R[u]]
           All == [u \in Users |-> PMR[u] + N[u]]
<1>11. PM \in [Users -> Nat] /\ Sum(PM, Users) = p + m
  <2>1. Sum(PM, Users) = Sum(P, Users) + Sum(M, Users)
    BY <1>1, <1>7, SumPlus, ZenonT(60)
  <2>2. PM \in [Users -> Nat]
    BY <1>7, SMTT(60)
  <2> QED BY <1>8, <1>9, <2>1, <2>2, Zenon
<1>12. PMR \in [Users -> Nat] /\ Sum(PMR, Users) = p + m + r
  <2> HIDE DEF PM
  <2>1. Sum(PMR, Users) = Sum(PM, Users) + Sum(R, Users)
    BY <1>1, <1>4, <1>11, SumPlus, ZenonT(60)
  <2>2. PMR \in [Users -> Nat]
    BY <1>4, <1>11, SMTT(60)
  <2> QED BY <1>11, <2>1, <2>2, Zenon
<1>13. Sum(All, Users) = p + m + r + n
  <2> HIDE DEF PMR
  <2>1. Sum(All, Users) = Sum(PMR, Users) + Sum(N, Users)
    BY <1>1, <1>7, <1>12, SumPlus, Zenon
  <2> QED BY <1>8, <1>12, <2>1, Zenon
<1>14. [u \in Users |-> Due(u, s)] = All
  <2>1. \A u \in Users : Due(u, s) = All[u]
    BY <1>10, Zenon
  <2> QED BY <2>1, Zenon
<1> HIDE DEF All, r
<1>15. p + m + r + n = s.release
  <2> DEFINE a == s.release
  <2>1. a \in Nat /\ n = a - p - m - r
    BY <1>3, ZenonT(60)
  <2> HIDE DEF a
  <2>2. p + m + r + n = a
    BY <1>1, <2>1, SMTT(60)
  <2> QED BY <2>2, Zenon DEF a
<1> QED
  BY <1>13, <1>14, <1>15, Zenon

\* The tokens released for an intent that ends in a step, and the tokens an
\* owner gains in it.
ReleasedBy(i) ==
  IF Active(i) /\ intents'[i] = NoIntent
  THEN depositVault[intents[i].deposit] - depositVault'[intents[i].deposit] ELSE 0
GainOf(u) == paid'[u] - paid[u]

\* What SettlementConserves says of one step.
ConservesStep ==
  /\ \A u \in Users : GainOf(u) >= 0
  /\ Sum([u \in Users |-> GainOf(u)], Users) = Sum([i \in IntentIds |-> ReleasedBy(i)], IntentIds)

\* The step of settling intent i.
Settles(i) ==
  \/ \E u \in Users : Release(u, i)
  \/ \E q \in Payments, attested \in Amounts : Fulfill(i, q, attested)

\* A settlement pays out exactly what it releases.
LEMMA SettlesConserves ==
  ASSUME PricingInv, NEW i \in IntentIds, Settles(i)
  PROVE  ConservesStep
<1>0. EscrowInv /\ MarketInv /\ TermsInv /\ paid \in [Users -> Nat]
      /\ intents \in [IntentIds -> Intent \cup {NoIntent}]
  BY Zenon DEF PricingInv, RatesTypeOK, EscrowInv, LifecycleInv, IntentsTypeOK
<1>1. Active(i)
  BY <1>0, SettlingStep, Zenon DEF Settles
<1>2. PICK a \in Nat \ {0} :
        /\ DistributeFunds(i, a)
        /\ depositVault[intents[i].deposit] - depositVault'[intents[i].deposit] = a
  BY <1>0, SettlingStep, Zenon DEF Settles
<1>3. CloseIntent(i)
  BY ZenonT(60) DEF Settles, Release, Fulfill, ManualRelease, FulfillIntent
<1> DEFINE s == Settlement(i, a)
<1>4. /\ s.release = a /\ s.referral \in [Users -> Nat]
      /\ s.protocolFee \in Nat /\ s.protocolFee <= MaxFee
      /\ s.managerFee \in Nat /\ s.managerFee <= MaxFee
      /\ Sum(s.referral, Users) <= MaxReferralFee
      /\ s.managerTo = terms[i].manager /\ s.recipient \in Users
  BY <1>0, <1>1, SettlementSound, SMTT(60)
<1>5. s.protocolTo \in Users /\ s.managerTo \in Users \cup {NoOne}
  <2>1. s.protocolTo = protocol.recipient /\ protocol.recipient \in Users
    BY <1>0, Zenon DEF Settlement, MarketInv
  <2>2. terms[i].manager \in Users \cup {NoOne}
    BY <1>0, <1>1, Zenon DEF TermsInv, SoundTerms, IntentTerms
  <2> QED BY <1>4, <2>1, <2>2, Zenon
<1>6. Payable(s) /\ paid' = [u \in Users |-> paid[u] + Due(u, s)]
  BY <1>2, Zenon DEF DistributeFunds
<1> HIDE DEF s
<1>7. \A u \in Users : Due(u, s) \in Nat
  BY <1>4, DueBound, ZenonT(60)
<1>8. \A u \in Users : GainOf(u) = Due(u, s)
  <2> SUFFICES ASSUME NEW u \in Users PROVE GainOf(u) = Due(u, s)
    OBVIOUS
  <2>1. paid'[u] = paid[u] + Due(u, s) /\ paid[u] \in Nat /\ Due(u, s) \in Nat
    BY <1>0, <1>6, <1>7, Zenon
  <2> QED BY <2>1, SMTT(60) DEF GainOf
<1>9. Sum([u \in Users |-> GainOf(u)], Users) = a
  <2>1. [u \in Users |-> GainOf(u)] = [u \in Users |-> Due(u, s)]
    BY <1>8, Zenon
  <2>2. Sum([u \in Users |-> Due(u, s)], Users) = s.release
    BY <1>4, <1>5, <1>6, SettlementTotal, Zenon
  <2> QED BY <1>4, <2>1, <2>2, Zenon
<1>10. \A j \in IntentIds : ReleasedBy(j) = IF j = i THEN a ELSE 0
  <2>1. intents'[i] = NoIntent /\ \A j \in IntentIds \ {i} : intents'[j] = intents[j]
    BY <1>0, <1>3, Zenon DEF CloseIntent
  <2> QED BY <1>1, <1>2, <2>1, Zenon DEF ReleasedBy, Active
<1>11. Sum([j \in IntentIds |-> ReleasedBy(j)], IntentIds) = a
  <2>1. [j \in IntentIds |-> ReleasedBy(j)] = [j \in IntentIds |-> IF j = i THEN a ELSE 0]
    BY <1>10, Zenon
  <2>2. IsFiniteSet(IntentIds)
    BY FS_Interval, SMTT(60) DEF IntentIds
  <2>3. Sum([j \in IntentIds |-> IF j = i THEN a ELSE 0], IntentIds) = a
    BY <2>2, SumSingle, ZenonT(60)
  <2> QED BY <2>1, <2>3, Zenon
<1>12. \A u \in Users : GainOf(u) >= 0
  BY <1>7, <1>8, SMTT(60)
<1> QED
  BY <1>9, <1>11, <1>12, Zenon DEF ConservesStep

\* A step that settles nothing pays nobody and releases nothing.
LEMMA ConservesOfStep ==
  ASSUME PricingInv, [PricingNext]_pricedVars
  PROVE  ConservesStep
<1>0. EscrowInv /\ paid \in [Users -> Nat] /\ depositVault \in [DepositIds -> Nat]
  BY Zenon DEF PricingInv, RatesTypeOK, EscrowInv, LedgerInv, BooksTypeOK
<1>1. CASE \E i \in IntentIds : Settles(i)
  BY <1>1, SettlesConserves, Zenon
<1>2. CASE ~\E i \in IntentIds : Settles(i)
  <2>1. UNCHANGED paid
    <3>1. ASSUME NEW t, NEW d, NEW m, NEW a, NEW cover, NEW c, NEW rate, NEW recipient,
                 NEW referral, Signal(t, d, m, a, cover, c, rate, recipient, referral)
          PROVE  UNCHANGED paid
      BY <3>1, Zenon DEF Signal
    <3>2. ASSUME NEW i, NEW u, Cancel(u, i) \/ Prune(i) PROVE UNCHANGED paid
      BY <3>2, Zenon DEF Cancel, Prune, DropTerms
    <3>3. PricedIntentNext => UNCHANGED paid
      BY <1>2, <3>1, <3>2, ZenonT(60) DEF PricedIntentNext, Settles
    <3> QED BY <3>3, OutsideIntents, Zenon
  <2>2. \A u \in Users : GainOf(u) = 0
    <3> SUFFICES ASSUME NEW u \in Users PROVE GainOf(u) = 0
      OBVIOUS
    <3>1. paid'[u] = paid[u] /\ paid[u] \in Nat
      BY <1>0, <2>1, ZenonT(60)
    <3> QED BY <3>1, SMTT(60) DEF GainOf
  <2>3. \A i \in IntentIds : ReleasedBy(i) = 0
    <3> SUFFICES ASSUME NEW i \in IntentIds, Active(i), intents'[i] = NoIntent
                 PROVE  depositVault[intents[i].deposit]
                          - depositVault'[intents[i].deposit] = 0
      BY Zenon DEF ReleasedBy
    <3>1. UNCHANGED depositVault
      BY <1>2, EndingStep, Zenon DEF Settles
    <3>2. depositVault[intents[i].deposit] \in Nat
      BY <1>0, LiveLockFacts, ZenonT(60) DEF EscrowInv
    <3> QED BY <3>1, <3>2, SMTT(60)
  <2>4. Sum([u \in Users |-> GainOf(u)], Users) = 0
    <3>1. [u \in Users |-> GainOf(u)] \in [Users -> Nat]
      BY <2>2, SMTT(60)
    <3> QED BY <2>2, <3>1, SumZero, ZenonT(60)
  <2>5. Sum([i \in IntentIds |-> ReleasedBy(i)], IntentIds) = 0
    <3>1. [i \in IntentIds |-> ReleasedBy(i)] \in [IntentIds -> Nat]
      BY <2>3, SMTT(60)
    <3> QED BY <2>3, <3>1, SumZero, ZenonT(60)
  <2>6. \A u \in Users : GainOf(u) >= 0
    BY <2>2, SMTT(60)
  <2> QED BY <2>4, <2>5, <2>6, ZenonT(60) DEF ConservesStep
<1> QED
  BY <1>1, <1>2, Zenon

\* Settlements conserve tokens: what leaves a vault for an intent is what its
\* recipient, its referrers, its manager and the protocol receive.
THEOREM PricingConserves == PricingSpec => SettlementConserves
<1>1. PricingInv /\ [PricingNext]_pricedVars => [ConservesStep]_pricedVars
  BY ConservesOfStep, Zenon
<1>2. SettlementConserves <=> [][ConservesStep]_pricedVars
  BY PTL DEF SettlementConserves, ConservesStep, ReleasedBy, GainOf
<1> QED
  BY <1>1, <1>2, PricingInvariant, PTL DEF PricingSpec
=============================================================================
