CONSTANTS
  Slots = 2
  Laps = 2
  Producer = p
  Consumer = c
  Writers = {p}
  Readers = {c}
  Sizes = {1, 2}
  MaxPayloads = 7
SPECIFICATION FairSpec
CHECK_DEADLOCK FALSE
INVARIANTS
  TypeOK
  NoTornRead
  BytesBalance
PROPERTIES
  RefusesOnlyWhenFull
  ImplementsFifo
  Delivered
