------------------------------ MODULE MCPayout ------------------------------
(* A small instance of the payout for TLC.                                 *)
EXTENDS Payout, TLC

CONSTANTS fees, taker, t1, t2, t3, t4, t5

\* Two owners; the first has an account for each of its roles.
MCOwnerOf == [t \in Accounts |-> IF t \in {t1, t2, t3} THEN fees ELSE taker]

MCReferrals == {[o \in Owners |-> 0], [o \in Owners |-> 1],
                [o \in Owners |-> IF o = fees THEN MaxReferralFee ELSE 0]}

\* Releases whose shares round to zero and to one, with and without fees, and
\* every choice of accounts.
MCCalls ==
  {<<[release |-> r, protocolFee |-> p, protocolTo |-> fees, managerFee |-> m,
      managerTo |-> fees, referral |-> f, recipient |-> taker],
     [protocol |-> a, manager |-> b, recipient |-> c,
      referral |-> [o \in Owners |-> IF o = fees THEN d ELSE t4]]>> :
     r \in {3, 5}, p \in 0..MaxFee, m \in 0..MaxFee, f \in MCReferrals,
     a \in Accounts, b \in {NoAccount, t1, t2, t4}, c \in Accounts, d \in Accounts}
=============================================================================
