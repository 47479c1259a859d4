\* Half a second, which the menu accepts: it sets no range.
SPECIFICATION Spec
CONSTANTS
  Codes = {26112}
  Garbage = {0}
  Settings = {500}
  Durations = {0, 100}
  WordSize = 1073741824
PROPERTY PrintsEachPeriod
