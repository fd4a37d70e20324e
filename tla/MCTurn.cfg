SPECIFICATION Spec
CONSTANTS
  MaxSteps = 3
  MaxContextRetries = 1
  Histories <- MCHistories
  CallSlots <- MCThreeSlots
  MaxCalls = 2
  MaxText = 1
  MaxCancels = 1
  MaxLost = 1
CONSTRAINT ReadsFirst
INVARIANTS
  TypeOK
  StoredReplayable
  SavedBeforeAsking
  FinalSaveComplete
  ShownIsRecorded
  SnapshotBeforeWrite
  RequestsBounded
  ForcedOnlyWhenStalled
PROPERTIES
  SavesOnlyAdd
  EventsInOrder
  TurnEnds
