\* Two samples to a reading, a queue of one, two runs.
SPECIFICATION FairSpec
CONSTANTS
  QUEUE_LENGTH = 1
  NUM_LOGS_READ = 2
  SENSORS_PER_READ = 2
  MaxSamples = 4
  MaxLines = 4
  MaxRuns = 2
INVARIANT TypeOK
INVARIANT LogIsOrdered
INVARIANT LogIsOfThisRun
PROPERTY LinesLagByBacklog
PROPERTY ReadingIsWhole
PROPERTY ReadingEnds
\* The program comes to rest after a reading.
CHECK_DEADLOCK FALSE
