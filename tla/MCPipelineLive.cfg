\* One place in every queue, no heap failure: the smallest pipeline in which a
\* chain can be blocked by the controller and by the other chain.
SPECIFICATION EndlessSpec
CONSTANTS
  NUMBER_SENSORS = 2
  NUM_ELEM_SENSOR_QUEUE = 1
  NUM_ELEM_FILTER_QUEUE = 1
  NUM_WEIGHTING_COEFFICIENTS = 1
  weightingCoefficients <- MCCoefficients
  HeapMayFail = FALSE
  MaxSamples = 3
  NULL = NULL
PROPERTY PublishedIsShown
PROPERTY QueuedIsFiltered
