CONSTANT FirstRegisters <- PowerOn
SPECIFICATION FairSpec
INVARIANTS
  TypeOK
  FastOnlyWithPower
  BusClocksInRange
PROPERTIES
  OutputsAreGentle
  SteppingEnds
