CONSTANTS
  User = User
  ZeroAddress = ZeroAddress
  MALFORMED = MALFORMED
  SCALE_SQRT = 2
  MAX = 100
  USIZE = 64
  GAS_DEPTH = 4
  Addresses <- MCAddresses
  Ids = {}
  Blobs = {}
  Programs = {}
  Vectors <- MCVectors
  Size <- MCSize
  NameTags <- MCNameTags
  Labellings <- MCLabellings
  ValueA <- MCValueA
  ValueB <- MCValueB
SPECIFICATION LawsSpec
PROPERTY LabelsMustBeCovered
CHECK_DEADLOCK FALSE
