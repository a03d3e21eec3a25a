\* An inner prio with "bands" is what a prio without looks at last.
SPECIFICATION Spec
CONSTANTS
  MaxId = 15
  MaxBands = 4
  MaxDPs = 2
  MaxLevel = 3
  MaxPrio = 2
  MTU = 2
  PathBits = 3
  Configs <- BandedLast
INVARIANT BandsRaised
CHECK_DEADLOCK FALSE
