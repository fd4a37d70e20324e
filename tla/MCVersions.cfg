\* Two turns that write two files together, two rollbacks, one version kept of
\* a kind.  The users may leave the project alone at any time.
CONSTANTS
  Keep = 1
  MaxWrites = 2
  MaxTurns = 2
  MaxRollbacks = 2
  MaxReads = 2
  MaxLate = 1
SPECIFICATION Spec
INVARIANTS
  TypeOK
  FilesMatchMessages
  UndoHoldsReplaced
  ShowsStore
CONSTRAINT Followed
CHECK_DEADLOCK FALSE
