SPECIFICATION Spec
CONSTANTS
  k1 = k1  k2 = k2  k3 = k3  v1 = v1  v2 = v2
  Missing = Missing  NoKey = NoKey
  Keys <- MCKeys  Values <- MCValues  Hash <- MCHash  Access <- MCAccess
  Default <- MCDefault  BadValues <- MCBad
  Size = 5  Word = 8  MaxTaken = 3  MaxShort = 1
INVARIANTS TypeOK NoLostEntries
PROPERTIES WriteOnceKept ImplementsMap
