SPECIFICATION Spec
CONSTANTS
  Words = 5  Params = 0  LoadAddr = 2  ReadSize = 3
  moved = moved  inplace = inplace  overlapping = overlapping  zipped = zipped
  Images <- MCImages  NoImage = NoImage
INVARIANTS TypeOK KernelIntact CleanHandover
PROPERTY NothingDiscarded
