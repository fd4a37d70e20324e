\* Small texts and streams; a transcript of nine messages.
CONSTANTS
  x = x
  y = y
  Text <- MCText
  MaxCells = 12
  Context = 1
  MaxLines = 4
  MaxWords = 3
  MaxStream = 4
  MaxCalls = 2
  MaxRound = 2
  MaxAttempts = 3
  MaxLog = 9
SPECIFICATION ViewsSpec
INVARIANT
  RequestSurvives
CHECK_DEADLOCK FALSE
