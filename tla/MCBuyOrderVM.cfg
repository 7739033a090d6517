CONSTANTS
  Daxos = Daxos
  ZeroAddress = ZeroAddress
  MALFORMED = MALFORMED
  SCALE_SQRT = 10
  MAX = 2300
  USIZE = 4096
  GAS_DEPTH = 4
  Addresses <- MCAddresses
  Ids <- MCIds
  Blobs <- MCBlobs
  Programs <- BuyPrograms
  Orders <- MCOrders
  Indexes <- MCIndexes
  IndexOf <- MCIndexOf
  IndexLabels <- MCIndexLabels
  IndexWeights <- MCIndexWeights
  Quotes <- MCQuotes
  MarketLabels <- MCMarketLabels
  MaxOrders = 2
  Deposits <- MCDeposits
  Markets <- MCMarkets
SPECIFICATION FillSpec
INVARIANTS EndsWithEmptyStack NoEmptyOperand
PROPERTIES ImplementsInstantFill RejectsOnlyTheInexecutable NothingToRollBack
CHECK_DEADLOCK FALSE
