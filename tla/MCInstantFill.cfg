CONSTANTS
  o1 = o1
  o2 = o2
  o3 = o3
  btc = btc
  eth = eth
  sol = sol
  large = large
  small = small
  SCALE_SQRT = 10
  MAX = 2400
  Orders <- MCOrders
  Indexes <- MCIndexes
  IndexOf <- MCIndexOf
  Weights <- MCWeights
  Quotes <- MCQuotes
  Assets <- MCAssets
  Deposits <- MCDeposits
  Books <- MCBooks
SPECIFICATION Spec
INVARIANTS TypeOK NoOverspend SpendsAllButDust StoringIsSafe DemandNetted DeltaBalances
PROPERTIES CollateralConserved DemandFollowsExecution
CHECK_DEADLOCK FALSE
