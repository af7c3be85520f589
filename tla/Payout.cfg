SPECIFICATION PayoutSpec
CONSTANTS
  fees = fees
  taker = taker
  t1 = t1
  t2 = t2
  t3 = t3
  t4 = t4
  t5 = t5
  Owners = {fees, taker}
  Accounts = {t1, t2, t3, t4, t5}
  OwnerOf <- MCOwnerOf
  NoAccount = NoAccount
  Opening = {1}
  Calls <- MCCalls
  Unit = 5
  Bps = 2
  Word = 9
  MaxFee = 1
  MaxReferralFee = 2
  MaxReferrals = 2
CHECK_DEADLOCK FALSE
PROPERTIES
  PayoutIsAtomic
  ProperPayoutCommits
