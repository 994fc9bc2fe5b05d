CONSTANTS
  Hash <- Objects2
  PackId <- MCPackId
  Delta <- Whole2
  Links <- Links2
  Branch = {main, topic}
  MaxCommands = 3
SYMMETRY BranchNames
SPECIFICATION AuditSpec
INVARIANTS AnchoredUnflagged GarbageFlagged
