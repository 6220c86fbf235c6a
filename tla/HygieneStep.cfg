\* Five resamples, a poll every second one.
SPECIFICATION FairSpec
CONSTANTS
  Resamples = 5
  Cadence = 2
INVARIANTS
  WholeSample
  Replayable
  PromptCancel
PROPERTIES
  Terminates
