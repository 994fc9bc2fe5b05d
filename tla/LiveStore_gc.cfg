CONSTANTS
  Hash <- MCHash
  PackId <- MCPackId
  Delta <- MCDelta
  MaxCommands = 2
SPECIFICATION Spec
INVARIANTS NoMisleadingNotFound BaseNotMissed ListComplete
