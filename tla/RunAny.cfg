CONSTANTS
  MaxRuns = 3
  MaxPulses = 3
SPECIFICATION FairSpec
INVARIANTS
  PulseHasItsRoom
  ManifestTellsTheRun
  StreamEndsWithRun
PROPERTIES
  NoPulseAfterAbort
  RunsEnd
  RunsKeepContract
CHECK_DEADLOCK FALSE
