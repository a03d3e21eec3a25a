------------------------------- MODULE SimNet ------------------------------
(***************************************************************************)
(* The simulator of tcsim: the devices and the packets on them             *)
(* (tcsim/klink.c), the commands of a script (tcsim/command.c), and the    *)
(* items of the script that run them (tcsim/cfg.y), composed with the      *)
(* timer list (TimerQueue) and the routes (Routing).                       *)
(*                                                                         *)
(* tcsim has one thread, and its functions call each other: a timer sends  *)
(* a packet, which enters the next host, and an "every" command runs       *)
(* another command.  The calls that are still to be made are kept on the   *)
(* stack work, so every step below is one function of the program and the  *)
(* properties hold between the functions as well.                          *)
(*                                                                         *)
(* The queuing discipline of a device is external (kernel code): a FIFO    *)
(* of Limit packets, what a device has until "tc" changes it.              *)
(***************************************************************************)
EXTENDS TimerQueue, Routing

CONSTANTS
  DevBase,      \* the devices in the order of the list dev_base
  Rated,        \* the devices with kbps > 0; the others are stopped
  Peer,         \* dev->peer or None
  HostOf,       \* dev->host or None
  Routes,       \* host->routes
  HasIngress,   \* the devices with an ingress qdisc
  Packets,      \* the byte sequences that are sent
  Short,        \* those shorter than an IPv4 header
  Dst,          \* the destination address in the others
  TxTime,       \* [device, packet] -> transmission time in micro-jiffies
  Limit,        \* queue limit
  Script,       \* the commands that the script may run
  ScriptTimes,  \* the arguments of "time" and "time +"
  EndTime,      \* the time that END advances to: all bits set
  Addrs,        \* addresses for struct every, enough for those in use at a time
  MaxItems,     \* bound: items in a script
  None,         \* NULL
  BusyHack      \* &busy_hack

Devs == {DevBase[i] : i \in 1..Len(DevBase)}

(* struct sk_buff *)
Skb == [gen : Nat, pkt : Packets]

ASSUME DevBaseAssumption == DevBase \in Seq(Devs)
ASSUME RatedAssumption == Rated \subseteq Devs
ASSUME PeerAssumption ==
  /\ Peer \in [Devs -> Devs \cup {None}]
  /\ \A a, b \in Devs : Peer[a] = b => Peer[b] = a
ASSUME RoutesAssumption ==
  \A d \in Devs : HostOf[d] # None =>
    \A i \in 1..Len(Routes[HostOf[d]]) : Routes[HostOf[d]][i].dev \in Devs
ASSUME NoneAssumption ==
  /\ None \notin Devs /\ None \notin Skb
  /\ BusyHack # None /\ BusyHack \notin Skb
  /\ \A f \in {"none", "drop", "crash"} : f \notin Devs
ASSUME LimitAssumption == Limit \in Nat
ASSUME TxTimeAssumption == TxTime \in [Devs \X Packets -> Nat]
ASSUME ScriptAssumption ==
  \A c \in Script :
    \/ c.type = "send" /\ c.dev \in Devs \cup {None} /\ c.pkt \in Packets
    \/ c.type = "poll" /\ c.dev \in Devs \cup {None}
    \/ c.type = "every" /\ c.interval \in Jiffval /\ c.until \in Jiffval /\ c.cmd \in Script
ASSUME ScriptTimesAssumption ==
  /\ ScriptTimes \subseteq Jiffval
  /\ EndTime \in Jiffval
  /\ \A t \in ScriptTimes : timer_lt(t, EndTime)

VARIABLES
  queue,        \* dev->qdisc
  txing,        \* dev->txing
  scheduled,    \* the devices with dev->scheduled set
  skbs,         \* struct sk_buff objects that are allocated
  generation,   \* of alloc_skb
  work,         \* calls to be made, innermost first
  terminating,  \* END was seen
  items,        \* script items so far
  crashed,      \* a NULL pointer was used
  polled,       \* history: "poll" was run, and advance_time has not polled since
  stolen        \* history: "poll" took a packet off the wire of a rated device

netVars == <<queue, txing, scheduled, skbs>>
simVars == <<vars, netVars, generation, work, terminating, items, crashed, polled, stolen>>

(* The calls.                                                              *)
CmdRun(c)        == [fn |-> "cmd_run", cmd |-> c]
DoEvery(e)       == [fn |-> "do_every", every |-> e]
Rearm(e)         == [fn |-> "rearm", every |-> e]
PollDevice(d, u) == [fn |-> "kernel_poll_device", dev |-> d, unbusy |-> u]
DevDoPoll(d)     == [fn |-> "dev_do_poll", dev |-> d]

(* kernel_poll: one device, or all of them in the order of dev_base.       *)
KernelPoll(d, unbusy) ==
  IF d = None THEN [i \in 1..Len(DevBase) |-> PollDevice(DevBase[i], unbusy)]
              ELSE <<PollDevice(d, unbusy)>>

(* The timers: struct dev_poll, told apart by the number of timers added   *)
(* before them, and struct every, by their addresses.                      *)
DevPollTimer(d, n) == [fn |-> "dev_do_poll", dev |-> d, n |-> n]

(* Slip: one timer for all struct every objects of a command.              *)
SlipEveryTimer(e) == [fn |-> "do_every", every |-> [e EXCEPT !.addr = CHOOSE a \in Addrs : TRUE]]

EveryTimer(e) == [fn |-> "do_every", every |-> e]

EveryStructs == [cmd : {c \in Script : c.type = "every"}, addr : Addrs]

SimTimers ==
  {DevPollTimer(d, n) : d \in Rated, n \in 0..(MaxAdds - 1)} \cup
  {EveryTimer(e) : e \in EveryStructs}

ASSUME TimersAssumption == Timers = SimTimers

(* create_net_device: a stopped device is marked busy until it is polled.  *)
SimInit ==
  /\ Init
  /\ queue = [d \in Devs |-> << >>]
  /\ txing = [d \in Devs |-> IF d \in Rated THEN None ELSE BusyHack]
  /\ scheduled = {}
  /\ skbs = {}
  /\ generation = 0
  /\ work = << >>
  /\ terminating = FALSE
  /\ items = 0
  /\ crashed = FALSE
  /\ polled = FALSE
  /\ stolen = FALSE

-----------------------------------------------------------------------------
(* Devices and packets *)

(* alloc_skb *)
AllocSkb(p) == [gen |-> generation, pkt |-> p]

(* Slip: a packet that the full queue rejects is not freed.                *)
SlipKernelEnqueue(d, skb) ==
  /\ scheduled' = scheduled \cup {d}
  /\ skbs' = skbs \cup {skb}
  /\ queue' = IF Len(queue[d]) < Limit
                THEN [queue EXCEPT ![d] = Append(@, skb)] ELSE queue

(* __kernel_enqueue: netif_schedule, then the enqueue function of the      *)
(* qdisc, which frees a packet that it does not take.                      *)
KernelEnqueue(d, skb) ==
  /\ scheduled' = scheduled \cup {d}
  /\ IF Len(queue[d]) < Limit
       THEN /\ queue' = [queue EXCEPT ![d] = Append(@, skb)]
            /\ skbs' = skbs \cup {skb}
       ELSE /\ skbs' = skbs \ {skb}
            /\ UNCHANGED queue

(* Where a packet may go that comes in on device d: an ingress qdisc may   *)
(* drop it; a short one is dropped; otherwise the route of the host        *)
(* decides, and there is no check that the device has a host.              *)
Incoming(d, skb) ==
  (IF d \in HasIngress THEN {"drop"} ELSE {}) \cup
  {IF skb.pkt \in Short THEN "drop"
   ELSE IF HostOf[d] = None THEN "crash"
   ELSE LET rt == Lookup(Routes[HostOf[d]], Dst[skb.pkt])
        IN  IF rt = NoRoute THEN "drop" ELSE rt}

(* Where deliver takes the packet in transmission on d.                    *)
Fates(d) ==
  CASE txing[d] = BusyHack -> {"none"}
    [] txing[d] = None     -> {"crash"}
    [] OTHER -> IF Peer[d] = None THEN {"drop"} ELSE Incoming(Peer[d], txing[d])

Deliver(d) ==
  \E f \in Fates(d) :
    \/ /\ f = "crash"
       /\ CallerExits
       /\ crashed' = TRUE
       /\ UNCHANGED netVars
    \/ /\ f # "crash"
       /\ txing' = [txing EXCEPT ![d] = None]
       /\ UNCHANGED <<vars, crashed>>
       /\ \/ f = "none" /\ UNCHANGED <<queue, scheduled, skbs>>
          \/ f = "drop" /\ skbs' = skbs \ {txing[d]} /\ UNCHANGED <<queue, scheduled>>
          \/ f \in Devs /\ KernelEnqueue(f, txing[d])

(* When a transmission that starts now ends.  After END the clock is at    *)
(* the largest value there is, and converting its successor to an integer  *)
(* is undefined: the conversion wraps to zero or saturates.                *)
TxEnd(d, skb) ==
  IF now = EndTime THEN {JV(0, 0), EndTime}
                   ELSE {dtojiffval(jiffvaltod(now) + TxTime[<<d, skb.pkt>>])}

-----------------------------------------------------------------------------
(* Calls *)

Call(fn) == Callable /\ work # << >> /\ Head(work).fn = fn

(* kernel_enqueue and kernel_poll for "send".                              *)
RunSend ==
  /\ Call("cmd_run")
  /\ Head(work).cmd.type = "send"
  /\ LET c == Head(work).cmd
         d == IF c.dev = None THEN DevBase[1] ELSE c.dev
     IN  IF c.dev = None /\ Len(DevBase) # 1
           THEN CallerExits /\ UNCHANGED <<netVars, generation, work>>
           ELSE /\ KernelEnqueue(d, AllocSkb(c.pkt))
                /\ generation' = generation + 1
                /\ work' = KernelPoll(c.dev, FALSE) \o Tail(work)
                /\ UNCHANGED <<vars, txing>>
  /\ UNCHANGED <<terminating, items, crashed, polled, stolen>>

RunPoll ==
  /\ Call("cmd_run")
  /\ Head(work).cmd.type = "poll"
  /\ work' = KernelPoll(Head(work).cmd.dev, TRUE) \o Tail(work)
  /\ polled' = TRUE
  /\ UNCHANGED <<vars, netVars, generation, terminating, items, crashed, stolen>>

IsEvery(call) == call.fn \in {"do_every", "rearm"}

(* The struct every objects there are: on the stack or with their timers   *)
(* pending.                                                                *)
InUse(a) ==
  \/ \E i \in 1..Len(work) : IsEvery(work[i]) /\ work[i].every.addr = a
  \/ \E id \in Pending : id.fn = "do_every" /\ id.every.addr = a

Unused == {a \in Addrs : ~InUse(a)}

(* add_every: a new struct every, run at once.                             *)
RunEvery ==
  /\ Call("cmd_run")
  /\ Head(work).cmd.type = "every"
  /\ Unused # {}
  /\ LET e == [cmd |-> Head(work).cmd, addr |-> CHOOSE a \in Unused : TRUE]
     IN  work' = <<DoEvery(e)>> \o Tail(work)
  /\ UNCHANGED <<vars, netVars, generation, terminating, items, crashed, polled, stolen>>

(* do_every up to cmd_run; past its end the struct is freed.               *)
StepDoEvery ==
  /\ Call("do_every")
  /\ LET e == Head(work).every
     IN  work' = IF jiffval_cmp(now, e.cmd.until) > 0
                   THEN Tail(work)
                   ELSE <<CmdRun(e.cmd.cmd), Rearm(e)>> \o Tail(work)
  /\ UNCHANGED <<vars, netVars, generation, terminating, items, crashed, polled, stolen>>

(* The next time of an "every": at most one carry.                         *)
EveryNext(interval) ==
  LET u == now.ujiffies + interval.ujiffies
      j == now.jiffies + interval.jiffies
  IN  IF u > UJ - 1 THEN JV(j + 1, u - UJ) ELSE JV(j, u)

(* Slip: "every" goes on after END.                                        *)
SlipStepRearm ==
  /\ Call("rearm")
  /\ LET e == Head(work).every IN AddHiresTimer(EveryTimer(e), EveryNext(e.cmd.interval))
  /\ work' = Tail(work)
  /\ UNCHANGED <<netVars, generation, terminating, items, crashed, polled, stolen>>

(* do_every after cmd_run: freed when terminating, else added again.       *)
StepRearm ==
  /\ Call("rearm")
  /\ LET e == Head(work).every
     IN  IF terminating
           THEN UNCHANGED vars
           ELSE AddHiresTimer(EveryTimer(e), EveryNext(e.cmd.interval))
  /\ work' = Tail(work)
  /\ UNCHANGED <<netVars, generation, terminating, items, crashed, polled, stolen>>

OnWire(d) == txing[d] \notin {None, BusyHack}

(* Slip: an idle device is delivered from as well.                         *)
SlipPollDeliver ==
  /\ Call("kernel_poll_device")
  /\ Head(work).unbusy
  /\ Deliver(Head(work).dev)
  /\ stolen' = (stolen \/ (Head(work).dev \in Rated /\ OnWire(Head(work).dev)))
  /\ work' = <<PollDevice(Head(work).dev, FALSE)>> \o Tail(work)
  /\ UNCHANGED <<generation, terminating, items, polled>>

(* kernel_poll_device: "if (unbusy && dev->txing) deliver(dev)".  The      *)
(* timer of a rated device that transmits is left pending.                 *)
PollDeliver ==
  /\ Call("kernel_poll_device")
  /\ LET d == Head(work).dev
     IN  /\ Head(work).unbusy
         /\ txing[d] # None
         /\ Deliver(d)
         /\ stolen' = (stolen \/ (d \in Rated /\ OnWire(d)))
         /\ work' = <<PollDevice(d, FALSE)>> \o Tail(work)
  /\ UNCHANGED <<generation, terminating, items, polled>>

CanSend(d) == txing[d] = None /\ d \in scheduled /\ queue[d] # << >>

(* Its early returns: busy, nothing scheduled, nothing dequeued.           *)
PollSkip ==
  /\ Call("kernel_poll_device")
  /\ LET d == Head(work).dev
     IN  /\ ~(Head(work).unbusy /\ txing[d] # None)
         /\ ~CanSend(d)
  /\ work' = Tail(work)
  /\ UNCHANGED <<vars, netVars, generation, terminating, items, crashed, polled, stolen>>

(* Slip: no timer for the end of the transmission.                         *)
SlipPollDequeue ==
  /\ Call("kernel_poll_device")
  /\ LET d   == Head(work).dev
         skb == Head(queue[d])
     IN  /\ CanSend(d)
         /\ txing' = [txing EXCEPT ![d] = skb]
         /\ queue' = [queue EXCEPT ![d] = Tail(@)]
         /\ UNCHANGED vars
  /\ work' = Tail(work)
  /\ UNCHANGED <<scheduled, skbs, generation, terminating, items, crashed, polled, stolen>>

(* Its main path: dequeue, and for a rated device the timer that ends the  *)
(* transmission.                                                           *)
PollDequeue ==
  /\ Call("kernel_poll_device")
  /\ LET d   == Head(work).dev
         skb == Head(queue[d])
     IN  /\ CanSend(d)
         /\ txing' = [txing EXCEPT ![d] = skb]
         /\ queue' = [queue EXCEPT ![d] = Tail(@)]
         /\ IF d \in Rated
              THEN \E t \in TxEnd(d, skb) : AddHiresTimer(DevPollTimer(d, adds), t)
              ELSE UNCHANGED vars
  /\ work' = Tail(work)
  /\ UNCHANGED <<scheduled, skbs, generation, terminating, items, crashed, polled, stolen>>

(* Slip: no device is polled after the delivery.                           *)
SlipStepDevDoPoll ==
  /\ Call("dev_do_poll")
  /\ Deliver(Head(work).dev)
  /\ work' = << >>
  /\ UNCHANGED <<generation, terminating, items, polled, stolen>>

(* dev_do_poll: the transmission is over.                                  *)
StepDevDoPoll ==
  /\ Call("dev_do_poll")
  /\ Deliver(Head(work).dev)
  /\ work' = <<PollDevice(Head(work).dev, FALSE)>> \o Tail(work)
  /\ UNCHANGED <<generation, terminating, items, polled, stolen>>

-----------------------------------------------------------------------------
(* advance_time: the body of its loop calls the timer function and polls   *)
(* all devices.                                                            *)

TimerCall(id) ==
  IF id.fn = "do_every" THEN DoEvery(id.every) ELSE DevDoPoll(id.dev)

LoopFire ==
  /\ Fire
  /\ work' = <<TimerCall(Head(timers).id)>> \o KernelPoll(None, FALSE)
  /\ UNCHANGED <<netVars, generation, terminating, items, crashed, polled, stolen>>

LoopReturn ==
  /\ work = << >>
  /\ Return
  /\ polled' = FALSE
  /\ UNCHANGED <<netVars, generation, work, terminating, items, crashed, stolen>>

LoopFinish ==
  /\ Finish
  /\ UNCHANGED <<netVars, generation, work, terminating, items, crashed, polled, stolen>>

-----------------------------------------------------------------------------
(* The script *)

Item ==
  /\ pc = "script"
  /\ work = << >>
  /\ items < MaxItems
  /\ items' = items + 1

(* A command; "every" is refused after END.                                *)
ItemCommand(c) ==
  /\ Item
  /\ IF c.type = "every" /\ terminating
       THEN CallerExits /\ UNCHANGED work
       ELSE UNCHANGED vars /\ work' = <<CmdRun(c)>>
  /\ UNCHANGED <<netVars, generation, terminating, crashed, polled, stolen>>

(* "time t" and "time +t".                                                 *)
ItemTime(t) ==
  /\ Item
  /\ IF terminating THEN CallerExits
                    ELSE AdvanceTime(t) \/ AdvanceTime(jv_add(now, t))
  /\ UNCHANGED <<netVars, generation, work, terminating, crashed, polled, stolen>>

(* find_stalled_devices *)
Stalled == \E d \in Devs \ Rated : queue[d] # << >>

(* "end": stalled devices are an error.                                     *)
ItemEnd ==
  /\ Item
  /\ IF Stalled THEN CallerExits /\ UNCHANGED terminating
                ELSE terminating' = TRUE /\ AdvanceTime(EndTime)
  /\ UNCHANGED <<netVars, generation, work, crashed, polled, stolen>>

(* What goes on by itself between two items of the script.                 *)
Internal ==
  \/ RunSend \/ RunPoll \/ RunEvery
  \/ StepDoEvery \/ StepRearm
  \/ PollDeliver \/ PollSkip \/ PollDequeue \/ StepDevDoPoll
  \/ LoopFire \/ LoopReturn \/ LoopFinish

SimNext ==
  \/ Internal
  \/ \E c \in Script : ItemCommand(c)
  \/ \E t \in ScriptTimes : ItemTime(t)
  \/ ItemEnd

(* The program does not stop in the middle of a function.                  *)
SimSpec == SimInit /\ [][SimNext]_simVars /\ WF_simVars(Internal)

-----------------------------------------------------------------------------
(* Properties *)

(* A packet is at position i of the queue of d, or (0) on its wire.        *)
Holds(d, i, skb) ==
  IF i = 0 THEN txing[d] = skb
           ELSE i <= Len(queue[d]) /\ queue[d][i] = skb

(* Packet conservation: every allocated packet is in exactly one queue or  *)
(* on exactly one wire, and nothing in a queue or on a wire has been       *)
(* freed.  No leak, no duplicate, no use after free, on any path through   *)
(* deliver, incoming and the queues.                                       *)
SkbsAccounted ==
  /\ \A skb \in skbs : \E d \in Devs, i \in 0..Limit :
       /\ Holds(d, i, skb)
       /\ \A f \in Devs, j \in 0..Limit : Holds(f, j, skb) => f = d /\ j = i
  /\ \A d \in Devs :
       /\ OnWire(d) => txing[d] \in skbs
       /\ \A i \in 1..Len(queue[d]) : queue[d][i] \in skbs

(* The timers and calls that will end a transmission on device d.          *)
Completions(d) ==
  {i \in 1..Len(timers) : timers[i].id.fn = "dev_do_poll" /\ timers[i].id.dev = d}
  \cup {-i : i \in {k \in 1..Len(work) : work[k] = DevDoPoll(d)}}

(* A rated device that transmits has exactly one timer to end the          *)
(* transmission, and an idle one has none.  With none the packet never     *)
(* arrives; with two the next packet is cut short, and the second timer    *)
(* delivers a packet that is not there.  The one thing that can break this *)
(* is a "poll" of a rated device that is transmitting.                     *)
OneCompletion ==
  pc # "exit" /\ ~stolen => \A d \in Devs :
    IF d \in Rated /\ OnWire(d)
      THEN \E c \in Completions(d) : Completions(d) = {c}
      ELSE Completions(d) = {}

(* A NULL pointer is only used in two cases: for the host of a device      *)
(* without host section, when a packet arrives there, and by the deliver   *)
(* of a timer whose packet a "poll" has delivered before.                  *)
NoCrash ==
  crashed => \/ stolen
             \/ \E d \in Devs :
                  /\ HostOf[d] = None /\ Peer[d] # None
                  /\ OnWire(Peer[d]) /\ txing[Peer[d]].pkt \notin Short

(* Between script items a rated device is never idle with packets queued,  *)
(* unless a "poll" has just brought them.                                  *)
WorkConserving ==
  pc = "script" /\ work = << >> /\ ~polled =>
    \A d \in Rated : txing[d] = None => queue[d] = << >>

Drained == timers = << >> /\ \A d \in Rated : queue[d] = << >> /\ txing[d] = None

(* doc/tcsim.inc: END "waits for all timers to complete and all queues to  *)
(* empty".  At the moment END is done, nothing is left: no timer, and no   *)
(* packet on or before a rated device.                                     *)
EndDrains ==
  [][pc = "loop" /\ pc' = "script" /\ target = EndTime => Drained']_simVars

(* END keeps that promise whenever advance_time has polled all devices     *)
(* after the last "poll" of the script.                                    *)
PolledEndDrains ==
  [][pc = "loop" /\ pc' = "script" /\ target = EndTime /\ ~polled => Drained']_simVars

(* END comes to an end: the timers of "every" stop and each packet runs    *)
(* out of hops.                                                            *)
EndReturns == terminating ~> (pc \in {"script", "exit"} /\ work = << >>) \/ pc = "exit"

(* The devices and the commands keep the one obligation that TimerQueue    *)
(* has for its callers: a timer is not added while it is pending, although *)
(* add_hires_timer does not check.  What is proved of TimerQueue rests on  *)
(* it.                                                                     *)
UsesTimerQueue ==
  [][adds' > adds =>
       \A i \in 1..Len(timers') :
         timers'[i].added = adds => timers'[i].id \notin Pending]_simVars

-----------------------------------------------------------------------------
(* The inductive invariant, in parts *)

WorkCalls ==
  [fn : {"cmd_run"}, cmd : Script] \cup
  [fn : {"do_every", "rearm"}, every : EveryStructs] \cup
  [fn : {"kernel_poll_device"}, dev : Devs, unbusy : BOOLEAN] \cup
  [fn : {"dev_do_poll"}, dev : Devs]

(* The devices and the packets.  What SkbsAccounted rests on: a packet has *)
(* a number that no later one gets, and a queue does not grow beyond its   *)
(* limit.                                                                  *)
NetOK ==
  /\ queue \in [Devs -> Seq(Skb)]
  /\ txing \in [Devs -> Skb \cup {None, BusyHack}]
  /\ scheduled \subseteq Devs
  /\ skbs \subseteq Skb
  /\ generation \in Nat
  /\ \A skb \in skbs : skb.gen < generation
  /\ \A d \in Devs : Len(queue[d]) <= Limit
  /\ \A d \in Devs : queue[d] # << >> => d \in scheduled
  /\ SkbsAccounted

StackOK ==
  /\ work \in Seq(WorkCalls)
  /\ pc = "loop" => work = << >>
  /\ pc = "script" => \A i \in 1..Len(work) : work[i].fn # "dev_do_poll"

(* A struct every is on the stack, once, or has its timer pending; a new   *)
(* struct dev_poll differs from all that are pending.                      *)
EverysHeld ==
  /\ \A i \in 1..Len(work) : IsEvery(work[i]) =>
       \A id \in Pending : id.fn = "do_every" => id.every.addr # work[i].every.addr
  /\ \A i, j \in 1..Len(work) :
       IsEvery(work[i]) /\ IsEvery(work[j]) /\ work[i].every.addr = work[j].every.addr => i = j
  /\ \A y, z \in Pending :
       y.fn = "do_every" /\ z.fn = "do_every" /\ y.every.addr = z.every.addr => y = z
  /\ \A id \in Pending : id.fn = "dev_do_poll" => id.n < adds

(* kernel_poll_device without "unbusy".                                    *)
IsPlainPoll(call) == call.fn = "kernel_poll_device" /\ ~call.unbusy

Waiting(d) == txing[d] = None /\ queue[d] # << >>

WillPoll(d) == \E i \in 1..Len(work) : work[i].fn = "kernel_poll_device" /\ work[i].dev = d

(* A rated device that could send will be polled: by a call on the stack,  *)
(* by advance_time behind the timer function that runs now, or (after a    *)
(* "poll" in the script) not before advance_time runs a timer.             *)
PollsFollow ==
  /\ pc = "callback" => \A i \in 1..Len(work) : ~IsPlainPoll(work[i]) =>
       \A d \in Devs : \E j \in (i + 1)..Len(work) : work[j] = PollDevice(d, FALSE)
  /\ pc = "script" => \A i \in 1..Len(work) :
       work[i].fn = "kernel_poll_device" /\ work[i].unbusy => polled
  /\ pc # "exit" => \A d \in Rated :
       Waiting(d) => WillPoll(d) \/ (pc # "callback" /\ polled)

SimInv == IInv /\ NetOK /\ StackOK /\ EverysHeld /\ PollsFollow

TimerPending(d) == \E id \in Pending : id.fn = "dev_do_poll" /\ id.dev = d

Completing(d) == work # << >> /\ Head(work) = DevDoPoll(d)

(* A transmission of a rated device has its timer pending, or dev_do_poll  *)
(* is about to run for it.  As long as no "poll" has taken a packet off a  *)
(* wire, there is one timer at most, and none without a transmission.  A   *)
(* rated device is not marked busy without a packet.                       *)
TransmissionsEnd ==
  /\ \A i \in 1..Len(work) : work[i].fn = "dev_do_poll" =>
       i = 1 /\ (~stolen => ~TimerPending(work[i].dev))
  /\ ~stolen => \A y, z \in Pending :
       y.fn = "dev_do_poll" /\ z.fn = "dev_do_poll" /\ y.dev = z.dev => y = z
  /\ pc # "exit" => \A d \in Devs :
       /\ d \in Rated /\ OnWire(d) => TimerPending(d) \/ Completing(d)
       /\ ~stolen /\ (TimerPending(d) \/ Completing(d)) => d \in Rated /\ OnWire(d)
  /\ \A d \in Rated : txing[d] # BusyHack
  /\ crashed => pc = "exit"

(* END advances to the largest values of the two fields of struct jiffval, *)
(* and no timer can lie beyond them.                                       *)
TimersInRange == \A i \in 1..Len(timers) : timer_le(timers[i], EndTime)

=============================================================================
