CONSTANTS
  N = 3
  Hash <- MCHash
  Slots <- MCSlots
  Tips <- MCTips
SPECIFICATION FairSpec
INVARIANTS TypeOK WalkInv DamageContained
PROPERTIES WalkVariant ImplementsContract Terminates
