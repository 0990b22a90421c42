SPECIFICATION Spec
CONSTANTS
  MaxEntries = 3
  Keys = {k1, k2, k3, k4}
  Values = {v1, v2}
INVARIANTS TypeOK IndexMatchesList HoldsMostRecent
PROPERTY ImplementsLru
