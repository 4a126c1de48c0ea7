CONSTANTS
  Files <- SmallFiles
  MaxFiles = 3
SPECIFICATION Spec
INVARIANTS
  ReadsInOrder
  EndMeansAll
  LocationIsLast
