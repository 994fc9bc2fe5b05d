CONSTANTS
  N = 3
  MaxDepth = 2
  Hash <- MCHash
  Stores <- AllStores
SPECIFICATION FairSpec
INVARIANTS TypeOK HealthyReads NotFoundHonest
PROPERTIES PacksDescend Ends
