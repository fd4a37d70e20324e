\* Up to ten lines on both sides together, six words, a stream of eight marks,
\* four calls in rounds of at most three, a transcript of nine messages.
CONSTANTS
  x = x
  y = y
  Text <- MCText
  MaxCells = 12
  Context = 1
  MaxLines = 10
  MaxWords = 6
  MaxStream = 8
  MaxCalls = 4
  MaxRound = 3
  MaxAttempts = 3
  MaxLog = 9
SPECIFICATION ViewsSpec
INVARIANTS
  DiffExact
  ReadsWhole
  CardsAgree
  WindowLegal
PROPERTY SegmentsGrow
CHECK_DEADLOCK FALSE
