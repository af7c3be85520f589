SPECIFICATION VerifierSpec
CONSTANTS
  cash = cash
  wire = wire
  agreed = agreed
  altered = altered
  p1 = p1
  e1 = e1
  Governors = {g1, g2}
  NoGovernor = NoGovernor
  Keys = {k1, k2, k3}
  NoKey = NoKey
  MaxWitnesses = 2
  Methods = {cash, wire}
  Terms = {agreed, altered}
  PaymentIds = {p1}
  DisputeIds = {e1}
  NoPayment = NoPayment
  NoIntent = NoIntent
  MaxIntents = 2
  Statements <- MCStatements
  MaxSignatures = 3
SYMMETRY Symmetric
INVARIANTS
  VerifierInv
  ThresholdReachable
  QuorumSettles
PROPERTIES
  EvidenceHasCurrentQuorum
