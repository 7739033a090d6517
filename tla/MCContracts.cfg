CONSTANTS
  alice = alice
  bob = bob
  vault = vault
  market = market
  devil = devil
  Zero = Zero
  Daxos = Daxos
  Users <- MCUsers
  Vaults <- MCVaults
  Markets <- MCMarkets
  Devils <- MCDevils
  Indexes <- MCIndexes
  Transactions <- MCTransactions
SPECIFICATION Spec
INVARIANTS TypeOK VaultsBelongToDaxos
PROPERTIES ImplementsRegistry BoundOnce OwnedForGood OnlySetupSeparates SubmittedMeansRun
