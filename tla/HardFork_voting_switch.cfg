SPECIFICATION Spec
CONSTANTS
  Releases <- VotingReleases
  OriginalVersion = 1
  WindowSize = 2
  Versions = {1, 2, 3}
  MaxHeight = 4
  SplitHeights = {1, 2, 3}
INVARIANTS CountsMatchWindow RecordedVersions
