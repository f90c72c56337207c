SPECIFICATION Spec
CONSTANTS
  Minute = 2
  DefaultRange = 10
  MaxRange = 20
  MaxLimit = 3
  MaxOffset = 2
  MaxDuration = 9
  MaxServices = 2
  MaxKeys = 1
  Alphabet <- Names
  Within <- Contained
  Number <- Numbers
  TraceOf <- Traces
  Parsed <- Json
  Rows <- Collected
  Questions <- Asked
  Scope = "ours"
  Places <- BothWays
  Generated <- InOrderOfRows
CHECK_DEADLOCK FALSE
INVARIANTS MockAgreesWithDatabase AnswersStayInScope CountsComplete PagesMissNothing
