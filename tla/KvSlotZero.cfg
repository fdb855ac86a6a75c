CONSTANTS
  Key = {k1, k2, k3}
  Val = {v1, v2}
  Missing = Missing
  TABLE_MAX = 2
  Bufs = {b1, b2, b3}
  NULL = NULL
SPECIFICATION Spec
PROPERTY RefinesMap
