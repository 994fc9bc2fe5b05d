CONSTANTS
  Hash <- MCHash
  PackId <- MCPackId
  Delta <- MCDelta
  MaxCommands = 2
SPECIFICATION Spec
INVARIANT NeverMisleading
