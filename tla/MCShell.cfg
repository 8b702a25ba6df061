SPECIFICATION Spec
CONSTANTS
  CommandTable <- MCCommandTable
  Spell <- MCSpell
  Env <- MCEnv
  Keys <- MCKeys
  MaxArgs = 3
  PollsPerSecond = 2
  MaxCalls = 8
  Scripts <- MCScripts
  Lines <- MCLines
  Delays <- MCDelays
INVARIANTS ShellTypeOK RunsAsWritten OpenIsKnown 
PROPERTY ShellReturns
