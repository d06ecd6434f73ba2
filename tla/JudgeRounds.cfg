SPECIFICATION RoundsSpec
CONSTANTS
  Rows = 4
  Batch = 2
  Day = 2
PROPERTIES
  BacklogDrains
  OnceADay
