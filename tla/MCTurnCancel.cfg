SPECIFICATION Spec
CONSTANTS
  MaxSteps = 2
  MaxContextRetries = 1
  Histories <- MCHistories
  CallSlots <- MCCallSlots
  MaxCalls = 1
  MaxText = 1
  MaxCancels = 1
  MaxLost = 1
PROPERTY CancellationPropagates
