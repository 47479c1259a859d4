\* A queue of two, which two sources can fill.
SPECIFICATION FairSpec
CONSTANTS
  QUEUE_LENGTH = 2
  SENSOR_HALL_THRESHOLD = 0
  Readings = {0, 1}
  MaxCount = 1
PROPERTY PrintsEverySecond
