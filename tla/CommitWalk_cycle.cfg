CONSTANTS
  N = 3
  MaxWalk = 3
  Hash <- MCHash
  Time <- MCTime
  Graphs <- Rings
  Ops = {"audit_repo"}
SPECIFICATION FairSpec
PROPERTY WalkBounded
