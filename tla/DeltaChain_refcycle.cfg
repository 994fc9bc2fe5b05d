CONSTANTS
  N = 2
  MaxDepth = 2
  Hash <- MCHash
  Stores <- RefStores
SPECIFICATION FairSpec
PROPERTY Ends
