SPECIFICATION Spec
CONSTANTS
  MaxSteps = 1
  MaxContextRetries = 1
  Histories <- MCHistories
  CallSlots <- MCCallSlots
  MaxCalls = 1
  MaxText = 2
  MaxCancels = 0
  MaxLost = 0
INVARIANT LosesOneTokenAtMost
