\* Two hosts and three devices; settings in front of the data and behind two data values; commands shared by
\* variables, "every" commands and running struct every objects.
CONSTANTS
  NumBits = 2
  Bits <- MCBits
  Masks <- MCMasks
  NoRoute = NoRoute
  None = None
  Hosts = {h1, h2}
  Names = {n1, n2, n3}
  MaxItems = 6
  Attrs = {nfmark, priority}
  Values = {0, 1}
  Zero = 0
  MaxSettings = 4
  MaxValues = 2
  Cmds = {c1, c2, c3, c4}
  Dscs = {d1, d2}
  Vars = {v1, v2}
  NULL = NULL
  MaxLost = 1
SPECIFICATION ItemsSpec
SYMMETRY Symmetry
INVARIANT PeerSymmetric
INVARIANT NoDeadRoute
INVARIANT MostSpecific
INVARIANT AsDocumented
INVARIANT RefsExact
INVARIANT NoDangling
INVARIANT EndFrees
CHECK_DEADLOCK FALSE
