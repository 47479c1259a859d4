\* An object at 5 cm: the sensor gives some 2.3 V of 3.3 V, a raw value of 2850.
SPECIFICATION InfraredSpec
CONSTANTS
  QUEUE_LENGTH = 2
  SENSOR_HALL_THRESHOLD = 0
  Readings = {0, 1}
  MaxCount = 1
  RawReadings = {2850}
PROPERTY NearObjectResets
