\* A queue of three, readings on both sides of the threshold, counts up to 3.
SPECIFICATION FairSpec
CONSTANTS
  QUEUE_LENGTH = 3
  SENSOR_HALL_THRESHOLD = 0
  Readings = {0, 1}
  MaxCount = 3
INVARIANT TypeOK
INVARIANT ActiveIsArmed
PROPERTY ImplementsStopwatch
PROPERTY ActiveKeepsCounting
PROPERTY ReleasedPadIsQuiet
