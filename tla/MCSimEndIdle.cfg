\* END after a poll has put a packet on an idle device.
CONSTANTS
  s = s  r1 = r1  r2 = r2  x = x
  A = A  R = R  B = B
  far = far  lost = lost  tiny = tiny
  None = None
  NoRoute = NoRoute
  BusyHack = BusyHack
  UJ = 2
  TxOf = 1
  MaxJiffies = 1
  Slack = 5
  Hostless = {}
  MaxAdds = 40
  Addrs <- MCAddrs
  MaxItems = 4
  Limit = 2
  Stopped = {s}
  Polled = {s}
  Sent <- FarSent
  Intervals <- NoTimes
  Untils <- SoonOrNever
  DevBase <- MCDevBase
  Rated <- MCRated
  Peer <- MCPeer
  HostOf <- MCHostOf
  Routes <- MCRoutes
  HasIngress = {}
  Packets <- MCPackets
  Short = {tiny}
  Bits <- MCBits
  Dst <- MCDst
  TxTime <- MCTxTime
  Script <- MCScript
  ScriptTimes <- MCScriptTimes
  EndTime <- MCEndTime
  Timers <- SimTimers
  Times <- MCTimes
  InLen = 1
  OutMax = 1
  Capacity = 1
  Failing = {}
SPECIFICATION TcsimSpec
PROPERTY EndDrains
CHECK_DEADLOCK FALSE
