SPECIFICATION FairTimerSpec
CONSTANTS
  Modulus = 16
  MinGap <- MCMinGap
  MaxGap = 3
  Counts <- MCCounts
  PerMsec = 5
  MaxMsec = 2
  Kinds = {"timer", "avs"}
INVARIANTS TimerTypeOK NeverShort
PROPERTY DelayEnds
