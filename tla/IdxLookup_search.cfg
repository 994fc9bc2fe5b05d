CONSTANTS
  Buckets = 2
  Name <- MCName
  FirstByte <- MCFirstByte
  Msb = 4
  NameWords = 1
  MaxNames = 3
  Indexes <- MCIndexes
SPECIFICATION FairSpec
INVARIANTS TypeOK SearchInv LookupExact FoundIsOwn
PROPERTY Ends
