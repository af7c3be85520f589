------------------------------ MODULE FeeMath -------------------------------
(***************************************************************************)
(* The fixed-point arithmetic of math.rs and the fee bounds of             *)
(* constants.rs: what a fee or a spread turns an amount or a rate into.    *)
(***************************************************************************)
EXTENDS Integers, Sums

CONSTANTS
  Unit,            \* PRECISE_UNIT, the fixed-point one
  Bps,             \* BPS, the denominator of a spread
  Word,            \* largest u128
  MaxFee,          \* MAX_FEE, of the protocol and of a rate manager
  MaxReferralFee,  \* MAX_REFERRAL_FEE, of all referrals of an intent together
  MaxReferrals     \* entries of a referral list

ASSUME FeeAssumption ==
  /\ Unit \in Nat \ {0}
  /\ Bps \in Nat \ {0}
  /\ Word \in Nat
  /\ MaxFee \in Nat
  /\ MaxReferralFee \in Nat
  /\ MaxReferrals \in Nat
  /\ MaxFee + MaxFee + MaxReferralFee < Unit

\* A fee is at most Unit and an amount is a u64, so the product fits.
PreciseMulFloor(a, rate) == (a * rate) \div Unit

\* The checked arithmetic of spread_rate_ceil succeeds.
SpreadFits(rate, spread) ==
  /\ Bps + spread > 0
  /\ rate * (Bps + spread) + (Bps - 1) <= Word

SpreadRateCeil(rate, spread) == (rate * (Bps + spread) + (Bps - 1)) \div Bps

\* A settlement is a record of the release, the three kinds of fee with their
\* recipients and the recipient of the rest; `referral` gives the fee of every
\* possible recipient, zero for one that is not listed.
ReferralShares(s) ==
  [r \in DOMAIN s.referral |-> PreciseMulFloor(s.release, s.referral[r])]

\* Mutant: the manager's share is not deducted.
NetProceedsBeforeManager(s) ==
  s.release - PreciseMulFloor(s.release, s.protocolFee)
            - Sum(ReferralShares(s), DOMAIN s.referral)

\* What distribute_funds leaves for the recipient.
NetProceeds(s) ==
  s.release - PreciseMulFloor(s.release, s.protocolFee)
            - PreciseMulFloor(s.release, s.managerFee)
            - Sum(ReferralShares(s), DOMAIN s.referral)

\* Everything owner `o` is due, in whichever roles.
Due(o, s) ==
  LET part(owner, share) == IF o = owner THEN share ELSE 0
  IN part(s.protocolTo, PreciseMulFloor(s.release, s.protocolFee))
       + part(s.managerTo, PreciseMulFloor(s.release, s.managerFee))
       + PreciseMulFloor(s.release, s.referral[o])
       + part(s.recipient, NetProceeds(s))

\* validate_referral_fees.  A list with a zero fee or a repeated recipient is
\* refused, so an accepted list is a function.
ValidReferralFees(referral) ==
  /\ Cardinality({r \in DOMAIN referral : referral[r] > 0}) <= MaxReferrals
  /\ Sum(referral, DOMAIN referral) <= MaxReferralFee
=============================================================================
