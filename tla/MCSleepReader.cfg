\* Sleep after three reads, for three seconds; one reset; six seconds awake.
SPECIFICATION FairSpec
CONSTANTS
  MAX_READ_COUNT = 2
  TIMER_WAKE_UP_SLEEP_MODE = 3
  PM_ENABLE = TRUE
  MaxSince = 6
  MaxReads = 4
  MaxResets = 1
INVARIANT TypeOK
INVARIANT SleepIsReported
PROPERTY SleepsAgainAndAgain
