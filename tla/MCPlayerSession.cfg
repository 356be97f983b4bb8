\* Two videos, one with a token, three loads, one event under way.
CONSTANTS
  None = None
  Videos = {a, b}
  Tracked = {a}
  LockAfter = 1
  HeartbeatEvery = 1
  Length = 1
  MaxLoads = 3
  MaxEvents = 1
SPECIFICATION FairSpec
INVARIANTS SubtitlesMatch
PROPERTIES UniqueViewsRespectLock NeverOlderSubtitles LoadingEnds
CHECK_DEADLOCK FALSE
