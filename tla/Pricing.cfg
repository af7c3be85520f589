SPECIFICATION PricingSpec
CONSTANTS
  maker = maker
  taker = taker
  Users = {maker, taker}
  NoOne = NoOne
  Amounts = {3, 5}
  Supply = 5
  MaxTime = 3
  MaxDeposits = 1
  MaxIntents = 1
  Methods = {m1}
  Payments = {p1}
  MaxLifetime = 2
  Terms <- MCTerms
  EscrowSettings <- MCEscrowSettings
  OrchestratorSettings <- MCOrchestratorSettings
  NoDeposit = NoDeposit
  NoIntent = NoIntent
  NoPayment = NoPayment
  Unit = 5
  Bps = 2
  Word = 9
  MaxFee = 1
  MaxReferralFee = 2
  MaxReferrals = 2
  Currencies = {c1}
  Feeds = {f1}
  Rates = {0, 1, 2, 3}
  Fees = {0, 1, 2}
  CurrencySettings <- MCCurrencySettings
  ManagerSettings <- MCManagerSettings
  Referrals <- MCReferrals
  MaxManagers = 1
  NoFeed = NoFeed
  NoManager = NoManager
  NoTerms = NoTerms
CONSTRAINT Explored
INVARIANTS
  PricingInv
  SettlementPayable
PROPERTIES
  SignalledAboveFloors
  SettlementConserves
  ProceedsGuaranteed
