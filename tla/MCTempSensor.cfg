\* Settings on both sides of the second that is taken off, and that of sdkconfig.
SPECIFICATION FairSpec
CONSTANTS
  Codes = {0, 26111, 26112, 65535}
  Garbage = {0, 7, 255}
  Settings = {999, 1000, 5000}
  Durations = {0, 100}
  WordSize = 1073741824
INVARIANT TypeOK
PROPERTY PrintsNearMeasured
PROPERTY LatenessIsBounded
PROPERTY ReportsGoOn
