CONSTANTS
  Keys = {k1, k2, k3}
  TableSize = 4
SPECIFICATION DictSpec
PROPERTY KeysChangePanics
CHECK_DEADLOCK FALSE
