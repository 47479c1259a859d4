\* Two chains, a heap that may fail, and queues of one and two places.
SPECIFICATION Spec
CONSTANTS
  NUMBER_SENSORS = 2
  NUM_ELEM_SENSOR_QUEUE = 1
  NUM_ELEM_FILTER_QUEUE = 2
  NUM_WEIGHTING_COEFFICIENTS = 2
  weightingCoefficients <- MCCoefficients
  HeapMayFail = TRUE
  MaxSamples = 6
  NULL = NULL
INVARIANT TypeOK
INVARIANT QueueSetAgrees
INVARIANT SetHasRoom
INVARIANT TasksHaveQueues
INVARIANT NullIsNoQueue
INVARIANT SampleOrder
INVARIANT WholeWindow
PROPERTY ImplementsFeed
