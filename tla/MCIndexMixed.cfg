\* A query that names no intent: its packet, over the same call graphs.
SPECIFICATION Spec
CONSTANTS
  a = a
  b = b
  util = util
  f = f
  g = g
  Files = {f, g}
  Contents = {a, b}
  Missing = Missing
  Names = {util}
  Defines <- MCDefines
  Calls <- MCCalls
  Nothing = Nothing
  IgnoreTracked = TRUE
  MaxEdits = 2
  MaxFailures = 1
  Lead = 1
  Plain = {2, 3, 4}
  TestSymbols = {5, 6}
  PossibleCalls <- MCPossibleCalls
  Ambiguous <- MCAmbiguous
  Form <- MCForm
  Matching <- MCMatching
  Modes <- MCModes
  MaxEdgesPerLead = 3
  MaxHops = 3
  MaxNodes = 5
  MaxTestCallers = 1
  MaxPlainCallers = 2
  MaxMoves = 1
INVARIANT CompleteMeansAll
CHECK_DEADLOCK FALSE
