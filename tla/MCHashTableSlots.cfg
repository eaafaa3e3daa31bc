SPECIFICATION Spec
CONSTANTS
  k1 = k1
  k2 = k2
  k3 = k3
  Keys <- MCKeys
  Vals = {v1, v2}
  Hash <- MCHash
  Geometry <- MCGeometry
  NewCaps <- MCNewCaps
  NULL = NULL
  JUNK = JUNK
  RESERVED = RESERVED
INVARIANT
  SlotsAsDocumented
CHECK_DEADLOCK FALSE
