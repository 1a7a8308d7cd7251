SPECIFICATION FairSpec
CONSTANTS
  Capacity = 4
  Items = {a, b}
  Blank = Blank
INVARIANTS
  SlotOwnership
PROPERTIES
  FifoRefinement
  HeadIsPopped
