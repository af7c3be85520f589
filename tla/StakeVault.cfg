SPECIFICATION StakeSpec
CONSTANTS
  Users = {u1, u2}
  Signers = {c1, c2}
  DisputeConfig = dispute_config
  LockIds = {l1, l2}
  NoOne = NoOne
  NoLock = NoLock
  Amounts = {0, 1, 2}
  Maturities = {1, 3}
  Supply = 3
  Delay = 1
  MaxTime = 2
SYMMETRY Symmetric
INVARIANTS
  StakeInv
  LockedIsSumOfLocks
  Redeemable
  SelectionAuthorized
PROPERTIES
  ImplementsCustody
  PrincipalLeavesThroughLocksOnly
  HandoverIsDelayed
