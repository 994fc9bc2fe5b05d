CONSTANTS
  N = 4
  MaxWalk = 4
  Hash <- MCHash
  Time <- MCTime
  Graphs <- Histories
  Ops = {"audit_repo", "audit_signatures_repo", "attribution_repo"}
SPECIFICATION FairSpec
INVARIANTS TypeOK WholeChain TimelineFaithful MinorityFlagged
PROPERTY Ends
