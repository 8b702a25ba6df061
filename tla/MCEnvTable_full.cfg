SPECIFICATION Spec
CONSTANTS
  k1 = k1  k2 = k2  k3 = k3  v1 = v1  v2 = v2
  Missing = Missing  NoKey = NoKey
  Keys <- TwoKeys  Values <- OneValue  Hash <- TwoHash  Access <- TwoAccess
  Default <- TwoDefault  BadValues <- TwoBad
  Size = 5  Word = 8  MaxTaken = 5  MaxShort = 0
PROPERTY EmptyBucket
