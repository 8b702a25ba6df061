SPECIFICATION Spec
CONSTANTS
  MaxWords <- MCMaxWords
  Floating <- MCFloating
  Fills <- MCFills
  StackDepth <- MCStackDepth
  Images <- MCImages
INVARIANTS TypeOK SizeFound RegionsApart
PROPERTY Starts
