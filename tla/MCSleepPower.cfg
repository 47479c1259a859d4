\* The limits of the code and the sdkconfig of the repository.
SPECIFICATION FairSpec
CONSTANTS
  MAX_READ_COUNT = 5
  TIMER_WAKE_UP_SLEEP_MODE = 10
  PM_ENABLE = FALSE
  MaxSince = 12
  MaxReads = 7
  MaxResets = 0
PROPERTY SensorIsRead
