SPECIFICATION FairProtocolSpec
CONSTANTS
  maker = maker
  taker = taker
  Users = {maker}
  Signers = {}
  DisputeConfig = dispute_config
  LockIds = {0}
  NoOne = NoOne
  NoLock = NoLock
  Amounts = {1}
  Maturities = {}
  Supply = 1
  Delay = 1
  MaxTime = 4
  MaxDeposits = 1
  MaxIntents = 1
  Methods = {m1}
  Payments = {p1}
  MaxLifetime = 2
  Terms <- MCTerms
  EscrowSettings <- MCPausableSettings
  OrchestratorSettings <- MCSingleSettings
  NoDeposit = NoDeposit
  NoIntent = NoIntent
  NoPayment = NoPayment
  RiskWindows = {0, 1}
  MaxRiskWindow = 1
  Vetted = {}
  DisputeIds = {e1}
  NoWindow = NoWindow
  NoDispute = NoDispute
PROPERTIES
  CollateralComesBack
  
