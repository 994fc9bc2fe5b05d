CONSTANTS
  First = 4
  Group = 4
  Word = 32
  NameBytes = 2
  Radix = 2
  Big = 4
  MaxObject = 2
  HashBytes = 2
  Entries <- MCEntries
  Deltas <- MCDeltas
  MaxLoose = 8
  SizeWord = 27
  ModeWord = 9
  Loose <- MCLoose
  Trees <- MCTrees
  Commits <- MCCommits
  Parents <- MCParents
  Logs <- MCLogs
SPECIFICATION Spec
INVARIANTS TypeOK EntryExact DeltaExact LooseExact TreeExact CommitExact ResidueFlagged
