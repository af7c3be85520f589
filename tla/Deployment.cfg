SPECIFICATION DeploymentSpec
CONSTANTS
  o1 = o1
  o2 = o2
  wallet = wallet
  escrow = escrow
  orchestrator = orchestrator
  old = old
  new = new
  NoWallet = NoWallet
  NoCode = NoCode
  Nothing = Nothing
  ReadOrder <- MCReadOrder
  Operators = {o1, o2}
  Wallet <- Shared
  Codes = {old, new}
  Settings = {s1, s2, unsound}
  Sound = {s1, s2}
  Seeds = {h1, h2}
  MaxChanges = 1
  MaxFaults = 1
  MaxAttempts = 2
CONSTRAINT Focused
SYMMETRY Symmetric
CHECK_DEADLOCK FALSE
INVARIANTS
  ReceiptsAgree
PROPERTIES
  QuietReceiptsTrue
  UpgradesBackedUp
