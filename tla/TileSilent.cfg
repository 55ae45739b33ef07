CONSTANTS
  Layer = {l1, l2}
  MaxSpoilt = 0
SPECIFICATION LoadSpec
INVARIANT FailedIsNotSilence
CHECK_DEADLOCK FALSE
