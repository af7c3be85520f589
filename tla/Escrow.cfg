SPECIFICATION EscrowSpec
CONSTANTS
  Users = {u1, u2}
  NoOne = NoOne
  Amounts = {0, 1, 2}
  Supply = 2
  MaxTime = 4
  MaxDeposits = 1
  MaxIntents = 2
  Methods = {m1}
  Payments = {p1}
  MaxLifetime = 2
  Terms <- MCTerms
  EscrowSettings <- MCEscrowSettings
  OrchestratorSettings <- MCOrchestratorSettings
  NoDeposit = NoDeposit
  NoIntent = NoIntent
  NoPayment = NoPayment
SYMMETRY Symmetric
INVARIANTS
  EscrowInv
  ExpiryWithinLifetime
  PaymentsBindOnce
  ExitsNeverBlocked
PROPERTIES
  OnlyDustIsSwept
  LiquidityLeavesByRequest
  HistoryIsPermanent
