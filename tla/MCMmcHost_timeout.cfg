CONSTANTS
  Budget = 2
  MaxWords = 0
  FifoDepth = 1
SPECIFICATION Spec
INVARIANT SuccessMeansFinished
