CONSTANTS
  Budget = 1
  Regs = {r1, r2}
  Values = {v1, v2}
  Ops <- MCOps
  r1 = r1
  r2 = r2
  v1 = v1
  v2 = v2
SPECIFICATION FairSpec
INVARIANTS
  TypeOK
  WiresFollowDriver
PROPERTIES
  ImplementsBus
