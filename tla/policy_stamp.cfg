SPECIFICATION Spec
CONSTANTS
  i1 = i1
  i2 = i2
  r1 = r1
  r2 = r2
  v1 = v1
  v2 = v2
  NoInstance = NoInstance
  Instances = {i1, i2}
  Values = {v1, v2}
  Fallback = v1
  Requests = {r1, r2}
  TTL = 2
  Latency = 1
  MaxVersion = 3
  MaxRaces = 2
  MaxTime = 4
SYMMETRY Symmetric
CHECK_DEADLOCK FALSE
INVARIANT StampIsForValue
