SPECIFICATION Spec
CONSTANTS
  Releases <- ScheduledReleases
  OriginalVersion = 1
  WindowSize = 2
  Versions = {1, 2, 3}
  MaxHeight = 5
  SplitHeights = {1, 2, 3, 4}
INVARIANTS WindowIsLastVotes RestartAgrees OnSchedule NoRollbackPanic
