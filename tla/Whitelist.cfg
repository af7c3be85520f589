SPECIFICATION WhitelistSpec
CONSTANTS
  maker = maker
  taker = taker
  Users = {maker, taker}
  NoOne = NoOne
  Deposits = {d1}
  Keepers <- MCKeepers
  MaxGroups = 2
  MaxAllowed = 1
  Resolvers = {r1}
  NoResolver = NoResolver
  NoGroup = NoGroup
  NoWhitelist = NoWhitelist
  NoWindow = NoWindow
CONSTRAINT Focused
INVARIANTS
  WhitelistInv
  SuppliedWhitelistExact
  
