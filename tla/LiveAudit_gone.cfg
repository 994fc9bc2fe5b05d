CONSTANTS
  Hash <- Objects2
  PackId <- MCPackId
  Delta <- Whole2
  Links <- Links2
  Branch = {main}
  MaxCommands = 1
SPECIFICATION AuditSpec
INVARIANT FlaggedUnreachable
