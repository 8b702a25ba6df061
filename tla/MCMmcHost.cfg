CONSTANTS
  Budget = 2
  MaxWords = 2
  FifoDepth = 1
SPECIFICATION FairSpec
INVARIANTS
  TypeOK
  ReturnsQuiescent
PROPERTIES
  DeadHostSendsNothing
  ImplementsCommand
