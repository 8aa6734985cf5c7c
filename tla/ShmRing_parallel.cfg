CONSTANTS
  Slots = 2
  Laps = 2
  Writers = {p, q}
  Readers = {c}
  Sizes = {1}
  MaxPayloads = 2
SPECIFICATION Spec
CHECK_DEADLOCK FALSE
PROPERTY RefusesOnlyWhenFull
