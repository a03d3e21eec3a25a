SPECIFICATION Spec
CONSTANTS
  MaxId = 15
  MaxBands = 4
  MaxDPs = 2
  MaxLevel = 3
  MaxPrio = 2
  MTU = 2
  PathBits = 3
  Configs <- MCConfigs
INVARIANT Accepted
INVARIANT Complete
INVARIANT Inherited
INVARIANT PathsSelect
CHECK_DEADLOCK FALSE
