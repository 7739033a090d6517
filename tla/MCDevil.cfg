CONSTANTS
  alice = alice
  bob = bob
  ZeroAddress = ZeroAddress
  MALFORMED = MALFORMED
  SCALE_SQRT = 1
  MAX = 100
  USIZE = 64
  GAS_DEPTH = 4
  Addresses <- MCAddresses
  Ids <- MCIds
  Blobs <- MCBlobs
  Programs <- MCPrograms
SPECIFICATION Spec
INVARIANT TypeOK
PROPERTIES OnlyTheOwnerActs AllOrNothing SubmittedOnce TransactionsEnd
