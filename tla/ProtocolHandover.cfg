SPECIFICATION ProtocolSpec
CONSTANTS
  maker = maker
  taker = taker
  Users = {maker, taker}
  Signers = {c1}
  DisputeConfig = dispute_config
  LockIds = {0}
  NoOne = NoOne
  NoLock = NoLock
  Amounts = {1}
  Maturities = {}
  Supply = 2
  Delay = 1
  MaxTime = 3
  MaxDeposits = 1
  MaxIntents = 1
  Methods = {m1}
  Payments = {p1, p2}
  MaxLifetime = 1
  Terms <- MCTerms
  EscrowSettings <- MCEscrowSettings
  OrchestratorSettings <- MCOrchestratorSettings
  NoDeposit = NoDeposit
  NoIntent = NoIntent
  NoPayment = NoPayment
  RiskWindows = {0, 1}
  MaxRiskWindow = 1
  Vetted = {}
  DisputeIds = {e1, e2}
  NoWindow = NoWindow
  NoDispute = NoDispute
CONSTRAINT Focused
INVARIANTS
  DisputePairing
