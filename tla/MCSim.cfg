\* Two rated devices along a route, a stopped device, "poll" of it and of a rated one, a
\* device without host, "every" inside "every", an ingress qdisc, short packets, and "send"
\* without a device.
CONSTANTS
  s = s  r1 = r1  r2 = r2  x = x
  A = A  R = R  B = B
  far = far  lost = lost  tiny = tiny
  None = None
  NoRoute = NoRoute
  BusyHack = BusyHack
  UJ = 2
  TxOf = 1
  MaxJiffies = 1
  Slack = 5
  Hostless = {s}
  MaxAdds = 36
  Addrs <- MCAddrs
  MaxItems = 3
  Limit = 2
  Stopped = {x}
  Polled = {x, s}
  Sent <- AllSent
  Intervals <- HalfJiffy
  Untils <- SoonOrNever
  DevBase <- MCDevBase
  Rated <- MCRated
  Peer <- MCPeer
  HostOf <- MCHostOf
  Routes <- MCRoutes
  HasIngress = {r1}
  Packets <- MCPackets
  Short = {tiny}
  Bits <- MCBits
  Dst <- MCDst
  TxTime <- MCTxTime
  Script <- MCScript
  ScriptTimes <- MCScriptTimes
  EndTime <- MCEndTime
  Timers <- SimTimers
  Times <- MCTimes
  InLen = 9
  OutMax = 7
  Capacity = 4
  Failing = {"tcsim", "writer", "tcc"}
SPECIFICATION TcsimSpec
INVARIANT CompleteOutput
INVARIANT NoOrphans
PROPERTY EndsUnlessCut
INVARIANT SkbsAccounted
INVARIANT OneCompletion
INVARIANT NoCrash
INVARIANT WorkConserving
PROPERTY PolledEndDrains
PROPERTY EndReturns
PROPERTY UsesTimerQueue
CHECK_DEADLOCK FALSE
