SPECIFICATION DictSpec
CONSTANTS
  a = a
  b = b
  Keys <- MCKeys
  Vals <- MCVals
  INLINE_HASHMAP_ARRAY_SIZE = 2
  InitialSize = 1
  MaxOrder = 6
  MaxLoopOrder = 5
SYMMETRY Symmetry
INVARIANTS
  ListedIsFound
  IteratorKeepsItsEntries
  IteratorYieldsHeldPairsBut
PROPERTIES
  Refines
CHECK_DEADLOCK FALSE
