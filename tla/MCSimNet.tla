------------------------------ MODULE MCSimNet -----------------------------
(***************************************************************************)
(* A small network for SimNet: host A sends on device s to the router R,   *)
(* which forwards what it has a route for from r1 to r2, and host B behind *)
(* r2 keeps what it gets (it has no route).                                *)
(*                                                                         *)
(*    A  s ------ r1  R  r2 ------ x  B                                    *)
(*                                                                         *)
(* Before tcsim gets to its commands, it runs tcc for a device.            *)
(***************************************************************************)
EXTENDS SimNet, TccPipe

CONSTANTS
  s, r1, r2, x,       \* devices
  A, R, B,            \* hosts
  far, lost, tiny,    \* packets: routed to B, without a route, short
  Stopped,            \* the devices without a rate
  Sent,               \* what the script sends, where
  Polled,             \* the arguments of "poll"
  Intervals,          \* of "every" commands
  Untils,             \* their end times
  MaxJiffies,         \* bound: "time" goes up to here
  Slack,              \* bound: jiffies that "time +" and transmissions add to it
  Hostless,           \* the devices that no host section contains
  TxOf                \* micro-jiffies for one packet

MCDevBase == <<s, r1, r2, x>>
MCRated == Devs \ Stopped
MCPeer == s :> r1 @@ r1 :> s @@ r2 :> x @@ x :> r2
MCHostOf ==
  [d \in Devs |-> IF d \in Hostless THEN None
                  ELSE IF d = s THEN A ELSE IF d = x THEN B ELSE R]

MCBits == {1}
MCRoutes ==
  A :> <<[addr |-> {}, mask |-> {}, dev |-> s]>> @@
  R :> <<[addr |-> {1}, mask |-> {1}, dev |-> r2]>> @@
  B :> << >>
MCPackets == {far, lost, tiny}
MCDst == far :> {1} @@ lost :> {} @@ tiny :> {}

(* r2 is the slower link.                                                  *)
MCTxTime == [dp \in Devs \X Packets |-> IF dp[1] = r2 THEN TxOf + 1 ELSE TxOf]

MCEndTime == JV(99, 99)
MCScriptTimes == [jiffies : 0..MaxJiffies, ujiffies : 0..(UJ - 1)] \ {JV(0, 0)}

Send(sp) == [type |-> "send", dev |-> sp[1], pkt |-> sp[2]]
Poll(d) == [type |-> "poll", dev |-> d]
Every(i, u, c) == [type |-> "every", interval |-> i, until |-> u, cmd |-> c]

FarSent == {<<s, far>>}
AllSent == {<<s, far>>, <<s, tiny>>, <<x, far>>, <<r1, far>>, <<None, far>>}

Sends == {Send(sp) : sp \in Sent}
Polls == {Poll(d) : d \in Polled}

(* A packet, a poll, or another "every" each time.                         *)
EveryOf(cmds) == {Every(i, u, c) : i \in Intervals, u \in Untils, c \in cmds}
Everys == EveryOf({Send(<<s, far>>), Send(<<x, far>>)} \cup Polls)
Nested == EveryOf(EveryOf({Send(<<s, far>>)}))

MCScript == Sends \cup Polls \cup Everys \cup Nested

MCAddrs == 1..12

HalfJiffy == {JV(0, 1)}
SoonOrNever == {JV(1, 1), MCEndTime}
NoTimes == {}

(* The times that can occur: TimerQueue quantifies over them.              *)
MCTimes == [jiffies : 0..(MaxJiffies + Slack), ujiffies : 0..UJ] \cup {EndTime}

-----------------------------------------------------------------------------

(* The commands of a script do not depend on how much tcc has written, so  *)
(* they are run for one length of its output only.                         *)
Configured == ppc = "return" /\ out = OutMax

TcsimInit == PipeInit /\ SimInit

TcsimNext ==
  \/ PipeNext /\ UNCHANGED simVars
  \/ Configured /\ SimNext /\ UNCHANGED tccVars

TcsimSpec ==
  /\ TcsimInit /\ [][TcsimNext]_<<tccVars, simVars>>
  /\ Scheduled /\ WF_simVars(Internal)

=============================================================================
