---------------------------- MODULE SimNetProofs ---------------------------
(***************************************************************************)
(* Proofs about SimNet, for any network, script and number of packets:     *)
(* the simulator uses the timer list as TimerQueue demands, so what is     *)
(* proved of the list holds in the simulator; packets are neither lost nor *)
(* duplicated; a transmission has one end; no device is left waiting.      *)
(***************************************************************************)
EXTENDS SimNet, TimerQueueProofs

-----------------------------------------------------------------------------
(* Packets *)

LEMMA QueueFacts ==
  ASSUME NetOK, NEW d \in Devs
  PROVE  /\ queue[d] \in Seq(Skb) /\ Len(queue[d]) \in Nat /\ Len(queue[d]) <= Limit
         /\ \A i \in 1..Len(queue[d]) : queue[d][i] \in skbs /\ i \in 0..Limit /\ i # 0
         /\ txing[d] \in Skb \cup {None, BusyHack}
         /\ OnWire(d) <=> txing[d] \in Skb
         /\ OnWire(d) => txing[d] \in skbs
<1>1. queue[d] \in Seq(Skb) /\ Len(queue[d]) \in Nat /\ Len(queue[d]) <= Limit
  BY LenProperties DEF NetOK
<1>2. \A i \in 1..Len(queue[d]) : queue[d][i] \in skbs /\ i \in 0..Limit /\ i # 0
  BY <1>1, LimitAssumption DEF NetOK, SkbsAccounted
<1>3. txing[d] \in Skb \cup {None, BusyHack} /\ (OnWire(d) => txing[d] \in skbs)
  BY DEF NetOK, SkbsAccounted
<1> QED BY <1>1, <1>2, <1>3, NoneAssumption DEF OnWire

(* A packet is in one place only.                                          *)
LEMMA OnePlace ==
  ASSUME NetOK, NEW skb \in skbs, NEW d \in Devs, NEW f \in Devs,
         NEW i \in 0..Limit, NEW j \in 0..Limit, Holds(d, i, skb), Holds(f, j, skb)
  PROVE  d = f /\ i = j
  BY DEF NetOK, SkbsAccounted

(* The numbers of the packets stay below the generation counter.           *)
LEMMA GenerationGrows ==
  ASSUME NetOK, generation' \in {generation, generation + 1}
  PROVE  generation' \in Nat /\ \A skb \in skbs : skb.gen < generation'
<1>1. generation \in Nat /\ (generation' = generation \/ generation' = generation + 1)
  BY DEF NetOK
<1>2. ASSUME NEW skb \in skbs PROVE skb.gen < generation'
  <2>1. skb.gen \in Nat /\ skb.gen < generation
    BY DEF NetOK, Skb
  <2> QED BY <1>1, <2>1
<1> QED BY <1>1, <1>2

(* Appending to a queue that is not full.                                  *)
LEMMA AppendFacts ==
  ASSUME NetOK, NEW f \in Devs, NEW skb \in Skb, Len(queue[f]) < Limit,
         queue' = [queue EXCEPT ![f] = Append(@, skb)]
  PROVE  /\ queue' \in [Devs -> Seq(Skb)]
         /\ \A d \in Devs : d # f => queue'[d] = queue[d]
         /\ Len(queue'[f]) = Len(queue[f]) + 1 /\ queue'[f] # << >>
         /\ \A i \in 1..Len(queue[f]) : queue'[f][i] = queue[f][i]
         /\ queue'[f][Len(queue[f]) + 1] = skb
         /\ Len(queue[f]) + 1 \in 1..Limit
<1>1. queue \in [Devs -> Seq(Skb)] /\ queue[f] \in Seq(Skb) /\ Len(queue[f]) \in Nat
  BY QueueFacts DEF NetOK
<1>2. queue'[f] = Append(queue[f], skb) /\ \A d \in Devs : d # f => queue'[d] = queue[d]
  BY <1>1
<1>3. /\ Append(queue[f], skb) \in Seq(Skb)
      /\ Len(Append(queue[f], skb)) = Len(queue[f]) + 1
      /\ \A i \in 1..Len(queue[f]) : Append(queue[f], skb)[i] = queue[f][i]
      /\ Append(queue[f], skb)[Len(queue[f]) + 1] = skb
  BY <1>1, AppendProperties
<1>4. Append(queue[f], skb) # << >>
  BY <1>1, <1>3
<1>5. queue' \in [Devs -> Seq(Skb)]
  BY <1>1, <1>3
<1>6. Len(queue[f]) + 1 \in 1..Limit
  BY <1>1, LimitAssumption
<1> QED BY <1>2, <1>3, <1>4, <1>5, <1>6

(* What is left to show when the packets keep their places.                *)
LEMMA SamePlaces ==
  ASSUME NetOK, skbs' \subseteq skbs, generation' \in {generation, generation + 1},
         queue' \in [Devs -> Seq(Skb)], txing' \in [Devs -> Skb \cup {None, BusyHack}],
         scheduled \subseteq scheduled', scheduled' \subseteq Devs,
         \A d \in Devs : Len(queue'[d]) <= Limit,
         \A d \in Devs : queue'[d] # << >> => d \in scheduled',
         \A d \in Devs : OnWire(d)' => txing'[d] \in skbs',
         \A d \in Devs : \A i \in 1..Len(queue'[d]) : queue'[d][i] \in skbs',
         \A skb \in skbs' : \A d \in Devs, i \in 0..Limit : Holds(d, i, skb)' <=> Holds(d, i, skb)
  PROVE  NetOK'
<1>1. SkbsAccounted'
  <2>1. ASSUME NEW skb \in skbs'
        PROVE  \E d \in Devs, i \in 0..Limit :
                 /\ Holds(d, i, skb)'
                 /\ \A f \in Devs, j \in 0..Limit : Holds(f, j, skb)' => f = d /\ j = i
    <3>1. PICK d \in Devs, i \in 0..Limit :
            /\ Holds(d, i, skb)
            /\ \A f \in Devs, j \in 0..Limit : Holds(f, j, skb) => f = d /\ j = i
      BY DEF NetOK, SkbsAccounted
    <3> QED BY <3>1
  <2> QED BY <2>1 DEF SkbsAccounted
<1>2. generation' \in Nat /\ \A skb \in skbs' : skb.gen < generation'
  BY GenerationGrows
<1>3. skbs' \subseteq Skb
  BY DEF NetOK
<1> QED BY <1>1, <1>2, <1>3 DEF NetOK

LEMMA IdleKeepsNet ==
  ASSUME NetOK, UNCHANGED <<netVars, generation>>
  PROVE  NetOK'
  BY DEF NetOK, SkbsAccounted, Holds, OnWire, netVars

(* deliver of a stopped device that was marked busy.                       *)
LEMMA UnbusyKeepsNet ==
  ASSUME NetOK, NEW d \in Devs, txing[d] = BusyHack,
         txing' = [txing EXCEPT ![d] = None],
         UNCHANGED <<queue, scheduled, skbs, generation>>
  PROVE  NetOK'
<1>1. \A f \in Devs : txing'[f] = IF f = d THEN None ELSE txing[f]
  BY DEF NetOK
<1>2. txing' \in [Devs -> Skb \cup {None, BusyHack}]
  BY DEF NetOK
<1>3. \A skb \in skbs : \A f \in Devs, i \in 0..Limit : Holds(f, i, skb)' <=> Holds(f, i, skb)
  BY <1>1, NoneAssumption DEF Holds, NetOK
<1>4. \A f \in Devs : OnWire(f)' => txing'[f] \in skbs'
  BY <1>1 DEF OnWire, NetOK, SkbsAccounted
<1> QED BY <1>2, <1>3, <1>4, SamePlaces DEF NetOK, SkbsAccounted

(* A packet comes off the wire and is freed.                               *)
LEMMA DropKeepsNet ==
  ASSUME NetOK, NEW d \in Devs, OnWire(d),
         txing' = [txing EXCEPT ![d] = None], skbs' = skbs \ {txing[d]},
         scheduled \subseteq scheduled', scheduled' \subseteq Devs,
         UNCHANGED <<queue, generation>>
  PROVE  NetOK'
<1> DEFINE skb0 == txing[d]
<1>0. skb0 \in skbs /\ 0 \in 0..Limit /\ Holds(d, 0, skb0)
  BY QueueFacts, LimitAssumption DEF Holds
<1>1. \A f \in Devs : txing'[f] = IF f = d THEN None ELSE txing[f]
  BY DEF NetOK
<1>2. txing' \in [Devs -> Skb \cup {None, BusyHack}]
  BY DEF NetOK
<1>3. skbs' \subseteq skbs /\ skb0 \notin skbs'
  OBVIOUS
<1>4. \A skb \in skbs' : \A f \in Devs, i \in 0..Limit : Holds(f, i, skb)' <=> Holds(f, i, skb)
  BY <1>1, <1>3, NoneAssumption DEF Holds, NetOK
<1>5. ASSUME NEW f \in Devs, OnWire(f)' PROVE txing'[f] \in skbs'
  <2>1. f # d /\ txing'[f] = txing[f]
    BY <1>1, <1>5 DEF OnWire
  <2>2. OnWire(f) /\ txing[f] \in skbs
    BY <1>5, <2>1, QueueFacts DEF OnWire
  <2>3. txing[f] # skb0
    BY <1>0, <2>1, <2>2, OnePlace DEF Holds
  <2> QED BY <2>1, <2>2, <2>3
<1>6. ASSUME NEW f \in Devs, NEW i \in 1..Len(queue'[f]) PROVE queue'[f][i] \in skbs'
  <2>1. queue[f][i] \in skbs /\ i \in 0..Limit /\ i # 0
    BY QueueFacts
  <2>2. Holds(f, i, queue[f][i])
    BY <2>1 DEF Holds
  <2>3. queue[f][i] # skb0
    BY <1>0, <2>1, <2>2, OnePlace
  <2> QED BY <2>1, <2>3
<1>7. \A f \in Devs : Len(queue'[f]) <= Limit /\ (queue'[f] # << >> => f \in scheduled')
  BY DEF NetOK
<1>8. queue' \in [Devs -> Seq(Skb)]
  BY DEF NetOK
<1> QED BY <1>2, <1>3, <1>4, <1>5, <1>6, <1>7, <1>8, SamePlaces

(* A packet that is in no queue, and on no wire any more, goes to the end  *)
(* of the queue of f.                                                      *)
LEMMA EnqueueKeepsNet ==
  ASSUME NetOK, NEW f \in Devs, NEW skb0 \in Skb, Len(queue[f]) < Limit,
         queue' = [queue EXCEPT ![f] = Append(@, skb0)],
         skbs' = skbs \cup {skb0}, scheduled' = scheduled \cup {f},
         generation' \in {generation, generation + 1}, skb0.gen < generation',
         txing' \in [Devs -> Skb \cup {None, BusyHack}],
         \A g \in Devs : \/ txing'[g] = txing[g] /\ txing[g] # skb0
                         \/ txing'[g] = None /\ txing[g] = skb0,
         \A g \in Devs : \A i \in 1..Len(queue[g]) : queue[g][i] # skb0
  PROVE  NetOK'
<1>a. PICK n : n = Len(queue[f]) + 1
  OBVIOUS
<1>0. skb0 # None
  BY NoneAssumption
<1>1. /\ queue' \in [Devs -> Seq(Skb)]
      /\ \A g \in Devs : g # f => queue'[g] = queue[g]
      /\ Len(queue'[f]) = Len(queue[f]) + 1 /\ queue'[f] # << >>
      /\ \A i \in 1..Len(queue[f]) : queue'[f][i] = queue[f][i]
      /\ queue'[f][n] = skb0 /\ n \in 1..Limit
  BY <1>a, AppendFacts
<1>2. Len(queue[f]) \in Nat /\ n \in 0..Limit /\ n # 0
  BY <1>1, QueueFacts, LimitAssumption
<1>3. \A i \in 1..Len(queue'[f]) : i \in 1..Len(queue[f]) \/ i = n
  BY <1>1, <1>2, <1>a
<1>4. ASSUME NEW skb \in skbs, skb # skb0, NEW g \in Devs, NEW i \in 0..Limit
      PROVE  Holds(g, i, skb)' <=> Holds(g, i, skb)
  <2>1. skb # None
    BY NoneAssumption DEF NetOK
  <2>2. CASE i = 0
    BY <1>4, <2>1, <2>2 DEF Holds
  <2>3. CASE i # 0 /\ g # f
    BY <1>1, <2>3 DEF Holds
  <2>4. CASE i # 0 /\ g = f
    <3>1. i <= Len(queue'[f]) <=> i \in 1..Len(queue[f]) \/ i = n
      BY <1>1, <1>2, <1>a, <2>4, LimitAssumption
    <3>2. i <= Len(queue[f]) <=> i \in 1..Len(queue[f])
      BY <1>2, <2>4, LimitAssumption
    <3>3. ~(n <= Len(queue[f]))
      BY <1>2, <1>a
    <3> QED BY <1>1, <1>4, <2>4, <3>1, <3>2, <3>3 DEF Holds
  <2> QED BY <2>2, <2>3, <2>4
<1>5. Holds(f, n, skb0)'
  BY <1>1, <1>2, <1>a DEF Holds
<1>6. ASSUME NEW g \in Devs, NEW i \in 0..Limit, Holds(g, i, skb0)'
      PROVE  g = f /\ i = n
  <2>1. i # 0
    BY <1>0, <1>6 DEF Holds
  <2>2. i \in 1..Len(queue'[g]) /\ queue'[g][i] = skb0
    <3>1. Len(queue'[g]) \in Nat
      BY <1>1, LenProperties
    <3> QED BY <1>6, <2>1, <3>1, LimitAssumption DEF Holds
  <2>3. g = f
    BY <1>1, <2>2
  <2> QED BY <1>1, <1>3, <2>2, <2>3
<1>7. SkbsAccounted'
  <2>1. ASSUME NEW skb \in skbs'
        PROVE  \E g \in Devs, i \in 0..Limit :
                 /\ Holds(g, i, skb)'
                 /\ \A h \in Devs, j \in 0..Limit : Holds(h, j, skb)' => h = g /\ j = i
    <3>1. CASE skb = skb0
      BY <1>2, <1>5, <1>6, <3>1
    <3>2. CASE skb # skb0
      <4>1. skb \in skbs
        BY <3>2
      <4>2. PICK g \in Devs, i \in 0..Limit :
              /\ Holds(g, i, skb)
              /\ \A h \in Devs, j \in 0..Limit : Holds(h, j, skb) => h = g /\ j = i
        BY <4>1 DEF NetOK, SkbsAccounted
      <4>3. \A h \in Devs, j \in 0..Limit : Holds(h, j, skb)' <=> Holds(h, j, skb)
        BY <1>4, <3>2, <4>1
      <4> QED BY <4>2, <4>3
    <3> QED BY <3>1, <3>2
  <2>2. \A g \in Devs : OnWire(g)' => txing'[g] \in skbs'
    BY QueueFacts DEF OnWire
  <2>3. ASSUME NEW g \in Devs, NEW i \in 1..Len(queue'[g]) PROVE queue'[g][i] \in skbs'
    <3>1. CASE g # f
      BY <1>1, <3>1, QueueFacts
    <3>2. CASE g = f
      BY <1>1, <1>3, <3>2, QueueFacts
    <3> QED BY <3>1, <3>2
  <2> QED BY <2>1, <2>2, <2>3 DEF SkbsAccounted
<1>8. \A g \in Devs : Len(queue'[g]) <= Limit /\ (queue'[g] # << >> => g \in scheduled')
  <2>1. Len(queue'[f]) <= Limit
    BY <1>1, <1>2, <1>a, LimitAssumption
  <2> QED BY <1>1, <2>1 DEF NetOK
<1>9. generation' \in Nat /\ \A skb \in skbs' : skb.gen < generation'
  <2>1. generation' \in Nat /\ \A skb \in skbs : skb.gen < generation'
    BY GenerationGrows
  <2> QED BY <2>1
<1>10. skbs' \subseteq Skb /\ scheduled' \subseteq Devs
  BY DEF NetOK
<1> QED BY <1>1, <1>7, <1>8, <1>9, <1>10 DEF NetOK

(* "send": a new packet.                                                   *)
LEMMA SendKeepsNet ==
  ASSUME NetOK, NEW f \in Devs, NEW p \in Packets, KernelEnqueue(f, AllocSkb(p)),
         generation' = generation + 1, UNCHANGED txing
  PROVE  NetOK'
<1>a. PICK skb0 : skb0 = AllocSkb(p)
  OBVIOUS
<1>0. skb0 \in Skb /\ skb0.gen = generation /\ skb0 \notin skbs /\ generation \in Nat
  BY <1>a DEF AllocSkb, Skb, NetOK
<1>1. /\ scheduled' = scheduled \cup {f}
      /\ IF Len(queue[f]) < Limit
           THEN queue' = [queue EXCEPT ![f] = Append(@, skb0)] /\ skbs' = skbs \cup {skb0}
           ELSE skbs' = skbs \ {skb0} /\ UNCHANGED queue
  BY <1>a DEF KernelEnqueue
<1>2. \A g \in Devs : txing[g] # skb0 /\ \A i \in 1..Len(queue[g]) : queue[g][i] # skb0
  BY <1>0, QueueFacts
<1>3. CASE Len(queue[f]) < Limit
  <2>1. queue' = [queue EXCEPT ![f] = Append(@, skb0)] /\ skbs' = skbs \cup {skb0}
    BY <1>1, <1>3
  <2>2. skb0.gen < generation' /\ txing' \in [Devs -> Skb \cup {None, BusyHack}]
    BY <1>0 DEF NetOK
  <2> QED BY <1>0, <1>1, <1>2, <1>3, <2>1, <2>2, EnqueueKeepsNet
<1>4. CASE ~(Len(queue[f]) < Limit)
  <2>1. skbs' = skbs /\ queue' = queue
    BY <1>0, <1>1, <1>4
  <2>2. \A skb \in skbs' : \A d \in Devs, i \in 0..Limit : Holds(d, i, skb)' <=> Holds(d, i, skb)
    BY <2>1 DEF Holds
  <2>3. \A d \in Devs : OnWire(d)' => txing'[d] \in skbs'
    BY <2>1, QueueFacts DEF OnWire
  <2> QED BY <1>1, <2>1, <2>2, <2>3, SamePlaces DEF NetOK, SkbsAccounted
<1> QED BY <1>3, <1>4

(* deliver hands the packet on the wire of d to the qdisc of f.            *)
LEMMA ForwardKeepsNet ==
  ASSUME NetOK, NEW d \in Devs, NEW f \in Devs, OnWire(d),
         KernelEnqueue(f, txing[d]), txing' = [txing EXCEPT ![d] = None],
         UNCHANGED generation
  PROVE  NetOK'
<1>a. PICK skb0 : skb0 = txing[d]
  OBVIOUS
<1>0. skb0 \in Skb /\ skb0 \in skbs /\ 0 \in 0..Limit /\ Holds(d, 0, skb0)
  BY <1>a, QueueFacts, LimitAssumption DEF Holds
<1>1. /\ scheduled' = scheduled \cup {f}
      /\ IF Len(queue[f]) < Limit
           THEN queue' = [queue EXCEPT ![f] = Append(@, skb0)] /\ skbs' = skbs \cup {skb0}
           ELSE skbs' = skbs \ {skb0} /\ UNCHANGED queue
  BY <1>a DEF KernelEnqueue
<1>2. CASE Len(queue[f]) < Limit
  <2>1. txing' \in [Devs -> Skb \cup {None, BusyHack}] /\ skb0.gen < generation'
    BY <1>0 DEF NetOK
  <2>2. ASSUME NEW g \in Devs
        PROVE  \/ txing'[g] = txing[g] /\ txing[g] # skb0
               \/ txing'[g] = None /\ txing[g] = skb0
    <3>1. txing'[g] = IF g = d THEN None ELSE txing[g]
      BY DEF NetOK
    <3>2. txing[g] = skb0 => g = d
      BY <1>0, OnePlace DEF Holds
    <3> QED BY <1>a, <3>1, <3>2
  <2>3. ASSUME NEW g \in Devs, NEW i \in 1..Len(queue[g]) PROVE queue[g][i] # skb0
    <3>1. i \in 0..Limit /\ i # 0 /\ Holds(g, i, queue[g][i])
      BY QueueFacts DEF Holds
    <3> QED BY <1>0, <3>1, OnePlace
  <2> QED BY <1>0, <1>1, <1>2, <2>1, <2>2, <2>3, EnqueueKeepsNet
<1>3. CASE ~(Len(queue[f]) < Limit)
  BY <1>1, <1>3, <1>a, DropKeepsNet DEF NetOK
<1> QED BY <1>2, <1>3

(* kernel_poll_device takes the first packet of a queue onto the wire: all *)
(* packets of that device move on by one place.                            *)
LEMMA DequeueKeepsNet ==
  ASSUME NetOK, NEW d \in Devs, CanSend(d),
         txing' = [txing EXCEPT ![d] = Head(queue[d])],
         queue' = [queue EXCEPT ![d] = Tail(@)],
         UNCHANGED <<scheduled, skbs, generation>>
  PROVE  NetOK'
<1>0. /\ queue[d] \in Seq(Skb) /\ queue[d] # << >> /\ txing[d] = None
      /\ Len(queue[d]) \in Nat /\ Len(queue[d]) <= Limit
  BY QueueFacts DEF CanSend
<1>1. /\ Len(queue[d]) \in Nat \ {0} /\ Head(queue[d]) = queue[d][1] /\ 1 \in 1..Len(queue[d])
      /\ Tail(queue[d]) \in Seq(Skb) /\ Len(Tail(queue[d])) = Len(queue[d]) - 1
      /\ \A i \in 1..(Len(queue[d]) - 1) : Tail(queue[d])[i] = queue[d][i + 1]
  BY <1>0, HeadTailProperties, EmptySeq
<1>2. /\ \A g \in Devs : g # d => txing'[g] = txing[g] /\ queue'[g] = queue[g]
      /\ txing'[d] = queue[d][1] /\ queue'[d] = Tail(queue[d])
      /\ queue' \in [Devs -> Seq(Skb)]
  BY <1>0, <1>1 DEF NetOK
<1>3. queue[d][1] \in skbs /\ queue[d][1] \in Skb
  BY <1>1, QueueFacts DEF NetOK
<1>4. txing' \in [Devs -> Skb \cup {None, BusyHack}]
  BY <1>1, <1>3 DEF NetOK
<1>5. /\ Len(queue'[d]) = Len(queue[d]) - 1 /\ Len(queue'[d]) \in Nat
      /\ \A i \in 1..Len(queue'[d]) : queue'[d][i] = queue[d][i + 1] /\ i + 1 \in 1..Len(queue[d])
  BY <1>1, <1>2
<1>6. ASSUME NEW skb \in skbs, NEW g \in Devs, g # d, NEW i \in 0..Limit
      PROVE  Holds(g, i, skb)' <=> Holds(g, i, skb)
  BY <1>2, <1>6 DEF Holds
<1>7. ASSUME NEW skb \in skbs, NEW i \in 0..Limit, Holds(d, i, skb)'
      PROVE  i + 1 \in 0..Limit /\ Holds(d, i + 1, skb)
  <2>1. CASE i = 0
    BY <1>0, <1>1, <1>2, <1>7, <2>1, LimitAssumption DEF Holds
  <2>2. CASE i # 0
    <3>1. i \in 1..Len(queue'[d]) /\ queue'[d][i] = skb
      BY <1>5, <1>7, <2>2, LimitAssumption DEF Holds
    <3>2. queue[d][i + 1] = skb /\ i + 1 \in 1..Len(queue[d])
      BY <1>5, <3>1
    <3>3. i + 1 # 0 /\ i + 1 <= Len(queue[d]) /\ i + 1 \in 0..Limit
      BY <1>0, <3>2, LimitAssumption
    <3> QED BY <3>2, <3>3 DEF Holds
  <2> QED BY <2>1, <2>2
<1>8. ASSUME NEW skb \in skbs, NEW i \in 0..Limit, Holds(d, i, skb)
      PROVE  i - 1 \in 0..Limit /\ Holds(d, i - 1, skb)'
  <2>0. skb # None
    BY NoneAssumption DEF NetOK
  <2>1. i # 0
    BY <1>0, <1>8, <2>0 DEF Holds
  <2>2. i \in 1..Len(queue[d]) /\ queue[d][i] = skb
    BY <1>0, <1>8, <2>1, LimitAssumption DEF Holds
  <2>3. i - 1 \in 0..Limit
    BY <2>1, LimitAssumption
  <2>4. CASE i = 1
    BY <1>2, <2>2, <2>3, <2>4 DEF Holds
  <2>5. CASE i # 1
    <3>1. i - 1 \in 1..Len(queue'[d]) /\ i - 1 <= Len(queue'[d]) /\ i - 1 # 0 /\ (i - 1) + 1 = i
      BY <1>5, <2>2, <2>5
    <3>2. queue'[d][i - 1] = skb
      BY <1>5, <2>2, <3>1
    <3> QED BY <2>3, <3>1, <3>2 DEF Holds
  <2> QED BY <2>4, <2>5
<1>9. SkbsAccounted'
  <2>1. ASSUME NEW skb \in skbs'
        PROVE  \E g \in Devs, i \in 0..Limit :
                 /\ Holds(g, i, skb)'
                 /\ \A h \in Devs, j \in 0..Limit : Holds(h, j, skb)' => h = g /\ j = i
    <3>1. PICK g \in Devs, i \in 0..Limit :
            /\ Holds(g, i, skb)
            /\ \A h \in Devs, j \in 0..Limit : Holds(h, j, skb) => h = g /\ j = i
      BY DEF NetOK, SkbsAccounted
    <3>2. CASE g = d
      <4>1. i - 1 \in 0..Limit /\ Holds(d, i - 1, skb)'
        BY <1>8, <3>1, <3>2
      <4>2. ASSUME NEW h \in Devs, NEW j \in 0..Limit, Holds(h, j, skb)'
            PROVE  h = d /\ j = i - 1
        <5>1. CASE h = d
          <6>1. j + 1 \in 0..Limit /\ Holds(d, j + 1, skb)
            BY <1>7, <4>2, <5>1
          <6>2. j + 1 = i
            BY <3>1, <3>2, <6>1
          <6> QED BY <5>1, <6>2, LimitAssumption
        <5>2. CASE h # d
          BY <1>6, <3>1, <3>2, <4>2, <5>2
        <5> QED BY <5>1, <5>2
      <4> QED BY <4>1, <4>2
    <3>3. CASE g # d
      <4>1. Holds(g, i, skb)'
        BY <1>6, <3>1, <3>3
      <4>2. ASSUME NEW h \in Devs, NEW j \in 0..Limit, Holds(h, j, skb)'
            PROVE  h = g /\ j = i
        <5>1. h # d
          <6> SUFFICES ASSUME h = d PROVE FALSE
            OBVIOUS
          <6>1. j + 1 \in 0..Limit /\ Holds(d, j + 1, skb)
            BY <1>7, <4>2
          <6> QED BY <3>1, <3>3, <6>1
        <5> QED BY <1>6, <3>1, <4>2, <5>1
      <4> QED BY <4>1, <4>2
    <3> QED BY <3>2, <3>3
  <2>2. \A g \in Devs : OnWire(g)' => txing'[g] \in skbs'
    BY <1>2, <1>3, QueueFacts DEF OnWire
  <2>3. \A g \in Devs : \A i \in 1..Len(queue'[g]) : queue'[g][i] \in skbs'
    BY <1>2, <1>5, QueueFacts
  <2> QED BY <2>1, <2>2, <2>3 DEF SkbsAccounted
<1>10. \A g \in Devs : Len(queue'[g]) <= Limit /\ (queue'[g] # << >> => g \in scheduled')
  <2>1. Len(queue'[d]) <= Limit
    BY <1>0, <1>5, LimitAssumption
  <2>2. d \in scheduled
    BY DEF CanSend
  <2> QED BY <1>2, <2>1, <2>2 DEF NetOK
<1> QED BY <1>2, <1>4, <1>9, <1>10 DEF NetOK

-----------------------------------------------------------------------------

(* Where deliver may take a packet.                                        *)
LEMMA FatesFacts ==
  ASSUME NEW d \in Devs, NEW f \in Fates(d)
  PROVE  /\ txing[d] = BusyHack => f = "none"
         /\ txing[d] = None => f = "crash"
         /\ OnWire(d) => f \in Devs \cup {"drop", "crash"}
         /\ OnWire(d) /\ f = "crash" =>
              \E g \in Devs : /\ HostOf[g] = None /\ Peer[g] = d
                             /\ txing[d].pkt \notin Short
<1>1. CASE txing[d] = BusyHack
  <2>1. Fates(d) = {"none"}
    BY <1>1, NoneAssumption, Zenon DEF Fates
  <2> QED BY <1>1, <2>1, NoneAssumption DEF OnWire
<1>2. CASE txing[d] = None
  <2>1. Fates(d) = {"crash"}
    BY <1>2, NoneAssumption, Zenon DEF Fates
  <2> QED BY <1>2, <2>1, NoneAssumption DEF OnWire
<1>3. CASE txing[d] # BusyHack /\ txing[d] # None
  <2>1. Fates(d) = IF Peer[d] = None THEN {"drop"} ELSE Incoming(Peer[d], txing[d])
    <3> DEFINE X == IF Peer[d] = None THEN {"drop"} ELSE Incoming(Peer[d], txing[d])
    <3>1. Fates(d) = CASE txing[d] = BusyHack -> {"none"}
                       [] txing[d] = None     -> {"crash"}
                       [] OTHER -> X
      BY Zenon DEF Fates
    <3> HIDE DEF X
    <3>2. Fates(d) = X
      BY <1>3, <3>1, Zenon
    <3> QED BY <3>2 DEF X
  <2>2. CASE Peer[d] = None
    BY <1>3, <2>1, <2>2
  <2>3. CASE Peer[d] # None
    <3> DEFINE g == Peer[d]
               skb == txing[d]
    <3>1. g \in Devs /\ Peer[g] = d
      BY <2>3, PeerAssumption
    <3>2. f \in Incoming(g, skb)
      BY <2>1, <2>3
    <3>3. \/ f = "drop"
          \/ f = "crash" /\ skb.pkt \notin Short /\ HostOf[g] = None
          \/ HostOf[g] # None /\ f = Lookup(Routes[HostOf[g]], Dst[skb.pkt]) /\ f # NoRoute
      BY <3>2 DEF Incoming
    <3>4. HostOf[g] # None /\ f = Lookup(Routes[HostOf[g]], Dst[skb.pkt]) /\ f # NoRoute
          => f \in Devs
      <4> SUFFICES ASSUME HostOf[g] # None, f = Lookup(Routes[HostOf[g]], Dst[skb.pkt]), f # NoRoute
                   PROVE  f \in Devs
        OBVIOUS
      <4>1. PICK k \in 1..Len(Routes[HostOf[g]]) : f = Routes[HostOf[g]][k].dev
        BY DEF Lookup
      <4> QED BY <3>1, <4>1, RoutesAssumption
    <3> QED BY <1>3, <3>1, <3>3, <3>4, NoneAssumption
  <2> QED BY <2>2, <2>3
<1> QED BY <1>1, <1>2, <1>3

(* deliver as a whole.                                                     *)
LEMMA DeliverKeepsNet ==
  ASSUME NetOK, NEW d \in Devs, Deliver(d), UNCHANGED generation
  PROVE  NetOK'
<1>1. PICK f \in Fates(d) :
        \/ f = "crash" /\ UNCHANGED netVars
        \/ /\ f # "crash"
           /\ txing' = [txing EXCEPT ![d] = None]
           /\ \/ f = "none" /\ UNCHANGED <<queue, scheduled, skbs>>
              \/ f = "drop" /\ skbs' = skbs \ {txing[d]} /\ UNCHANGED <<queue, scheduled>>
              \/ f \in Devs /\ KernelEnqueue(f, txing[d])
  BY DEF Deliver
<1>2. CASE f = "crash"
  <2>1. UNCHANGED netVars
    BY <1>1, <1>2
  <2> QED BY <2>1, IdleKeepsNet
<1>3. CASE f # "crash"
  <2>1. txing[d] = BusyHack \/ OnWire(d)
    BY <1>3, FatesFacts DEF OnWire
  <2>2. CASE txing[d] = BusyHack
    <3>1. f = "none" /\ f \notin Devs /\ f # "drop"
      BY <2>2, FatesFacts, NoneAssumption
    <3> QED BY <1>1, <1>3, <2>2, <3>1, UnbusyKeepsNet
  <2>3. CASE OnWire(d)
    <3>1. f = "drop" \/ f \in Devs
      BY <1>3, <2>3, FatesFacts
    <3>2. CASE f = "drop"
      <4>1. f # "none" /\ f \notin Devs
        BY <3>2, NoneAssumption
      <4> QED BY <1>1, <1>3, <2>3, <3>2, <4>1, DropKeepsNet DEF NetOK
    <3>3. CASE f \in Devs
      <4>1. f # "none" /\ f # "drop"
        BY <3>3, NoneAssumption
      <4> QED BY <1>1, <1>3, <2>3, <3>3, <4>1, ForwardKeepsNet
    <3> QED BY <3>1, <3>2, <3>3
  <2> QED BY <2>1, <2>2, <2>3
<1> QED BY <1>2, <1>3

-----------------------------------------------------------------------------
(* Timers *)

LEMMA PendingIs ==
  Pending = {e.id : e \in Events(timers)}
  BY DEF Pending, Events

(* What add_hires_timer does to the set of pending timers.                 *)
LEMMA AddEffect ==
  ASSUME IInv, NEW id \in Timers \ Pending, NEW t \in Jiffval, AddHiresTimer(id, t)
  PROVE  /\ IInv' /\ pc' \in {pc, "exit"}
         /\ \/ pc' = "exit" /\ Pending' = Pending /\ adds' = adds
            \/ pc' = pc /\ Pending' = Pending \cup {id} /\ adds' = adds + 1
<1>1. IInv'
  BY AddPreserves
<1>2. Insert(timers, id, t) /\ timers \in Seq(Entry) /\ adds \in Nat
  BY DEF AddHiresTimer, IInv, TypeOK
<1>3. CASE timer_lt(t, now)
  BY <1>1, <1>2, <1>3 DEF Insert, Pending
<1>4. CASE ~timer_lt(t, now)
  <2>1. PICK e : e = [id |-> id, jiffies |-> t.jiffies, ujiffies |-> t.ujiffies, added |-> adds]
    OBVIOUS
  <2>2. e \in Entry /\ e.id = id
    BY <1>2, <2>1 DEF Entry, Jiffval
  <2>3. PICK k \in 1..(Len(timers) + 1) : timers' = InsertAt(timers, k, e)
    BY <1>2, <1>4, <2>1 DEF Insert
  <2>4. Events(timers') = Events(timers) \cup {e}
    BY <1>2, <2>2, <2>3, InsertAtEvents
  <2>5. Pending' = {f.id : f \in Events(timers')}
    BY DEF Pending, Events
  <2>6. Pending' = Pending \cup {id}
    BY <2>2, <2>4, <2>5, PendingIs
  <2> QED BY <1>1, <1>2, <1>4, <2>6 DEF Insert
<1> QED BY <1>3, <1>4

(* advance_time takes the first timer.                                     *)
LEMMA FireEffect ==
  ASSUME IInv, Fire
  PROVE  /\ IInv' /\ Head(timers).id \in Pending
         /\ Pending' = Pending \ {Head(timers).id}
         /\ pc = "loop" /\ pc' = "callback" /\ adds' = adds
<1>1. IInv'
  BY FirePreserves
<1>2. /\ timers \in Seq(Entry) /\ timers # << >> /\ Distinct(timers)
      /\ timers' = Tail(timers)
  BY DEF IInv, TypeOK, Fire, Due
<1>3. Head(timers) = timers[1] /\ 1 \in 1..Len(timers) /\ Len(timers) \in Nat
  BY <1>2, LenProperties, EmptySeq
<1>4. Events(timers') = Events(timers) \ {timers[1]}
  BY <1>2, <1>3, TailEvents
<1>5. Pending' = {f.id : f \in Events(timers')}
  BY DEF Pending, Events
<1>6. \A f \in Events(timers) : f.id = timers[1].id => f = timers[1]
  BY <1>2, <1>3 DEF Events, Distinct
<1>7. timers[1].id \in Pending
  BY <1>3 DEF Pending
<1>8. Pending' = Pending \ {timers[1].id}
  BY <1>4, <1>5, <1>6, PendingIs
<1> QED BY <1>1, <1>3, <1>7, <1>8 DEF Fire

(* The two kinds of timers.                                                *)
LEMMA PendingFacts ==
  ASSUME IInv
  PROVE  /\ adds \in Nat
         /\ \A id \in Pending :
              \/ id.fn = "dev_do_poll" /\ id.dev \in Rated /\ id.n \in Nat
              \/ id.fn = "do_every" /\ id.every \in EveryStructs
<1>1. timers \in Seq(Entry) /\ adds \in Nat
  BY DEF IInv, TypeOK
<1>2. ASSUME NEW id \in Pending
      PROVE  \/ id.fn = "dev_do_poll" /\ id.dev \in Rated /\ id.n \in Nat
             \/ id.fn = "do_every" /\ id.every \in EveryStructs
  <2>1. PICK i \in 1..Len(timers) : id = timers[i].id
    BY DEF Pending
  <2>2. timers[i] \in Entry
    BY <1>1, ElementOfSeq
  <2>3. id \in SimTimers
    BY <2>1, <2>2, TimersAssumption DEF Entry
  <2>4. CASE \E d \in Rated, n \in 0..(MaxAdds - 1) : id = DevPollTimer(d, n)
    BY <2>4, MaxAddsAssumption DEF DevPollTimer
  <2>5. CASE \E e \in EveryStructs : id = EveryTimer(e)
    BY <2>5 DEF EveryTimer
  <2> QED BY <2>3, <2>4, <2>5 DEF SimTimers
<1> QED BY <1>1, <1>2

(* The times that the simulator computes.                                  *)
LEMMA JvAddType ==
  ASSUME NEW a \in Jiffval, NEW b \in Jiffval
  PROVE  jv_add(a, b) \in Jiffval
<1> DEFINE u == a.ujiffies + b.ujiffies
           c == IF u = 0 THEN 0 ELSE (u - 1) \div UJ
<1>1. /\ a.jiffies \in Nat /\ b.jiffies \in Nat /\ u \in Nat
  BY DEF Jiffval
<1> HIDE DEF u
<1>2. c \in Nat /\ u - c * UJ \in Nat
  <2>1. CASE u = 0
    BY <2>1, UJAssumption
  <2>2. CASE u # 0
    <3> DEFINE q == (u - 1) \div UJ
    <3>1. u - 1 \in Nat /\ UJ \in Nat /\ UJ > 0
      BY <1>1, <2>2, UJAssumption
    <3>2. q \in Nat /\ q * UJ <= u - 1
      BY <3>1
    <3>3. q * UJ \in Nat
      BY <3>1, <3>2
    <3> HIDE DEF q
    <3>4. u - q * UJ \in Nat
      BY <1>1, <3>2, <3>3
    <3> QED BY <2>2, <3>2, <3>4 DEF q
  <2> QED BY <2>1, <2>2
<1> HIDE DEF c
<1>3. JV(a.jiffies + b.jiffies + c, u - c * UJ) \in Jiffval
  BY <1>1, <1>2 DEF JV, Jiffval
<1> QED BY <1>3 DEF jv_add, u, c

LEMMA EveryNextType ==
  ASSUME now \in Jiffval, NEW i \in Jiffval
  PROVE  EveryNext(i) \in Jiffval
<1>1. /\ now.jiffies \in Nat /\ now.ujiffies \in Nat
      /\ i.jiffies \in Nat /\ i.ujiffies \in Nat
  BY DEF Jiffval
<1> QED BY <1>1, UJAssumption DEF EveryNext, JV, Jiffval

LEMMA TxEndType ==
  ASSUME now \in Jiffval, NEW d \in Devs, NEW skb \in Skb, NEW t \in TxEnd(d, skb)
  PROVE  t \in Jiffval
<1>1. CASE t = JV(0, 0)
  BY <1>1 DEF JV, Jiffval
<1>2. CASE t = EndTime
  BY <1>2, ScriptTimesAssumption
<1>3. CASE t = dtojiffval(jiffvaltod(now) + TxTime[<<d, skb.pkt>>])
  <2> DEFINE v == jiffvaltod(now) + TxTime[<<d, skb.pkt>>]
  <2>1. now.jiffies \in Nat /\ now.ujiffies \in Nat /\ UJ \in Nat
    BY UJAssumption DEF Jiffval
  <2>2. now.jiffies * UJ \in Nat
    BY <2>1
  <2>3. jiffvaltod(now) \in Nat
    BY <2>1, <2>2 DEF jiffvaltod
  <2>4. TxTime[<<d, skb.pkt>>] \in Nat
    BY TxTimeAssumption DEF Skb
  <2>5. v \in Nat
    BY <2>3, <2>4
  <2> HIDE DEF v
  <2>6. v \div UJ \in Nat /\ v % UJ \in Nat
    BY <2>5, UJAssumption
  <2>7. dtojiffval(v) \in Jiffval
    BY <2>6 DEF dtojiffval, JV, Jiffval
  <2> QED BY <1>3, <2>7 DEF v
<1> QED BY <1>1, <1>2, <1>3 DEF TxEnd

-----------------------------------------------------------------------------
(* The stack of calls *)

(* The innermost call is replaced by the calls p.                          *)
LEMMA PushFacts ==
  ASSUME NEW S, NEW s \in Seq(S), s # << >>, NEW p \in Seq(S)
  PROVE  /\ p \o Tail(s) \in Seq(S)
         /\ \A i \in 1..Len(p) : i \in 1..Len(p \o Tail(s)) /\ (p \o Tail(s))[i] = p[i]
         /\ \A i \in 1..Len(s) : i # 1 =>
              /\ i + Len(p) - 1 \in 1..Len(p \o Tail(s)) /\ i + Len(p) - 1 > Len(p)
              /\ (p \o Tail(s))[i + Len(p) - 1] = s[i]
         /\ \A i \in 1..Len(p \o Tail(s)) : i \notin 1..Len(p) =>
              /\ i - Len(p) + 1 \in 1..Len(s) /\ i - Len(p) + 1 # 1
              /\ (p \o Tail(s))[i] = s[i - Len(p) + 1]
<1> DEFINE u == Tail(s)
           w == p \o u
<1>1. /\ Len(s) \in Nat \ {0} /\ u \in Seq(S) /\ Len(u) = Len(s) - 1
      /\ \A i \in 1..(Len(s) - 1) : u[i] = s[i + 1]
  BY LenProperties, EmptySeq, HeadTailProperties
<1>2. Len(p) \in Nat
  BY LenProperties
<1> HIDE DEF u
<1>3. /\ w \in Seq(S) /\ Len(w) = Len(p) + Len(u)
      /\ \A i \in 1..(Len(p) + Len(u)) : w[i] = IF i <= Len(p) THEN p[i] ELSE u[i - Len(p)]
  BY <1>1, ConcatProperties
<1> HIDE DEF w
<1>4. \A i \in 1..Len(p) : i \in 1..Len(w) /\ w[i] = p[i]
  BY <1>1, <1>2, <1>3
<1>5. ASSUME NEW i \in 1..Len(w), i \notin 1..Len(p)
      PROVE  i - Len(p) + 1 \in 1..Len(s) /\ i - Len(p) + 1 # 1 /\ w[i] = s[i - Len(p) + 1]
  <2>1. ~(i <= Len(p)) /\ i \in 1..(Len(p) + Len(u)) /\ i - Len(p) \in 1..(Len(s) - 1)
    BY <1>1, <1>2, <1>3, <1>5
  <2>2. w[i] = u[i - Len(p)] /\ u[i - Len(p)] = s[i - Len(p) + 1]
    BY <1>1, <1>3, <2>1
  <2> QED BY <1>1, <1>2, <2>1, <2>2
<1>6. ASSUME NEW i \in 1..Len(s), i # 1
      PROVE  /\ i + Len(p) - 1 \in 1..Len(w) /\ i + Len(p) - 1 > Len(p)
             /\ w[i + Len(p) - 1] = s[i]
  <2>1. /\ i + Len(p) - 1 \in 1..Len(w) /\ i + Len(p) - 1 \notin 1..Len(p)
        /\ i + Len(p) - 1 > Len(p) /\ (i + Len(p) - 1) - Len(p) + 1 = i
    BY <1>1, <1>2, <1>3, <1>6
  <2>2. w[i + Len(p) - 1] = s[(i + Len(p) - 1) - Len(p) + 1]
    BY <1>5, <2>1
  <2> QED BY <2>1, <2>2
<1> QED BY <1>3, <1>4, <1>5, <1>6 DEF u, w

LEMMA PopIsPush ==
  ASSUME NEW S, NEW s \in Seq(S), s # << >>
  PROVE  << >> \in Seq(S) /\ Tail(s) = << >> \o Tail(s)
<1>1. Tail(s) \in Seq(S)
  BY HeadTailProperties
<1> QED BY <1>1, ConcatEmptySeq

(* The same for the stack of the simulator: what is on the new stack is on *)
(* the old one, or in p.                                                   *)
LEMMA PushWork ==
  ASSUME StackOK, work # << >>, NEW p \in Seq(WorkCalls), work' = p \o Tail(work)
  PROVE  /\ work' \in Seq(WorkCalls) /\ Len(p) \in Nat
         /\ \A i \in 1..Len(p) : i \in 1..Len(work') /\ work'[i] = p[i]
         /\ \A i \in 1..Len(work) : i # 1 =>
              /\ i + Len(p) - 1 \in 1..Len(work') /\ i + Len(p) - 1 > Len(p)
              /\ work'[i + Len(p) - 1] = work[i]
         /\ \A i \in 1..Len(work') : i \notin 1..Len(p) =>
              /\ i - Len(p) + 1 \in 1..Len(work) /\ i - Len(p) + 1 # 1
              /\ work'[i] = work[i - Len(p) + 1]
<1>1. work \in Seq(WorkCalls) /\ Len(p) \in Nat
  BY LenProperties DEF StackOK
<1> QED BY <1>1, PushFacts

LEMMA TopWork ==
  ASSUME StackOK, work # << >>
  PROVE  /\ work \in Seq(WorkCalls) /\ Len(work) \in Nat \ {0} /\ 1 \in 1..Len(work)
         /\ Head(work) = work[1] /\ work[1] \in WorkCalls
         /\ Tail(work) = << >> \o Tail(work) /\ << >> \in Seq(WorkCalls)
<1>1. work \in Seq(WorkCalls)
  BY DEF StackOK
<1>2. Len(work) \in Nat \ {0} /\ 1 \in 1..Len(work)
  BY <1>1, LenProperties, EmptySeq
<1>3. work[1] \in WorkCalls /\ Head(work) = work[1]
  BY <1>1, <1>2, ElementOfSeq
<1> QED BY <1>1, <1>2, <1>3, PopIsPush

LEMMA PushKeepsStack ==
  ASSUME StackOK, work # << >>, NEW p \in Seq(WorkCalls), work' = p \o Tail(work),
         \A i \in 1..Len(p) : p[i].fn # "dev_do_poll",
         Callable, pc' \in {pc, "exit"}
  PROVE  StackOK'
<1>1. work' \in Seq(WorkCalls) /\ pc' # "loop"
  BY PushWork DEF Callable
<1>2. ASSUME pc' = "script", NEW i \in 1..Len(work') PROVE work'[i].fn # "dev_do_poll"
  BY <1>2, PushWork DEF StackOK
<1> QED BY <1>1, <1>2 DEF StackOK

(* A struct every that comes onto the stack was on its top, or is new.     *)
LEMMA PushKeepsEverys ==
  ASSUME StackOK, EverysHeld, work # << >>, NEW p \in Seq(WorkCalls), work' = p \o Tail(work),
         \A i, j \in 1..Len(p) : IsEvery(p[i]) /\ IsEvery(p[j]) => i = j,
         \A i \in 1..Len(p) : IsEvery(p[i]) =>
           /\ \A j \in 1..Len(work) : j # 1 /\ IsEvery(work[j]) => work[j].every.addr # p[i].every.addr
           /\ \A id \in Pending' : id.fn = "do_every" => id.every.addr # p[i].every.addr,
         \A id \in Pending' : \/ id \in Pending
                              \/ id.fn = "do_every" =>
                                   \A j \in 1..Len(work) : j # 1 /\ IsEvery(work[j]) =>
                                     work[j].every.addr # id.every.addr,
         \A y, z \in Pending' :
           y.fn = "do_every" /\ z.fn = "do_every" /\ y.every.addr = z.every.addr => y = z,
         \A id \in Pending' : id.fn = "dev_do_poll" => id.n < adds'
  PROVE  EverysHeld'
<1>0. /\ Len(p) \in Nat
      /\ \A i \in 1..Len(p) : i \in 1..Len(work') /\ work'[i] = p[i]
      /\ \A i \in 1..Len(work') : i \notin 1..Len(p) =>
           /\ i - Len(p) + 1 \in 1..Len(work) /\ i - Len(p) + 1 # 1
           /\ work'[i] = work[i - Len(p) + 1]
  BY PushWork
<1>1. ASSUME NEW i \in 1..Len(work'), IsEvery(work'[i]),
             NEW id \in Pending', id.fn = "do_every"
      PROVE  id.every.addr # work'[i].every.addr
  <2>1. CASE i \in 1..Len(p)
    BY <1>0, <1>1, <2>1
  <2>2. CASE i \notin 1..Len(p)
    <3>1. PICK k \in 1..Len(work) : k # 1 /\ work'[i] = work[k]
      BY <1>0, <2>2
    <3> QED BY <1>1, <3>1 DEF EverysHeld
  <2> QED BY <2>1, <2>2
<1>2. ASSUME NEW i \in 1..Len(work'), NEW j \in 1..Len(work'),
             IsEvery(work'[i]), IsEvery(work'[j]), work'[i].every.addr = work'[j].every.addr
      PROVE  i = j
  <2>1. CASE i \in 1..Len(p) /\ j \in 1..Len(p)
    BY <1>0, <1>2, <2>1
  <2>2. CASE i \in 1..Len(p) /\ j \notin 1..Len(p)
    BY <1>0, <1>2, <2>2
  <2>3. CASE i \notin 1..Len(p) /\ j \in 1..Len(p)
    BY <1>0, <1>2, <2>3
  <2>4. CASE i \notin 1..Len(p) /\ j \notin 1..Len(p)
    <3>1. /\ i - Len(p) + 1 \in 1..Len(work) /\ work'[i] = work[i - Len(p) + 1]
          /\ j - Len(p) + 1 \in 1..Len(work) /\ work'[j] = work[j - Len(p) + 1]
      BY <1>0, <2>4
    <3>2. i - Len(p) + 1 = j - Len(p) + 1
      BY <1>2, <3>1 DEF EverysHeld
    <3> QED BY <1>0, <3>2
  <2> QED BY <2>1, <2>2, <2>3, <2>4
<1> QED BY <1>1, <1>2 DEF EverysHeld

(* A device that can send is still polled.                                 *)
LEMMA PushKeepsPolls ==
  ASSUME StackOK, PollsFollow, work # << >>, NEW p \in Seq(WorkCalls), work' = p \o Tail(work),
         Callable, pc' \in {pc, "exit"}, polled => polled',
         \A i \in 1..Len(p) : IsPlainPoll(p[i]) \/ ~IsPlainPoll(work[1]),
         \A i \in 1..Len(p) : p[i].fn = "kernel_poll_device" /\ p[i].unbusy => polled',
         \A d \in Rated : Waiting(d)' =>
           \/ \E i \in 1..Len(p) : p[i].fn = "kernel_poll_device" /\ p[i].dev = d
           \/ Waiting(d) /\ ~(work[1].fn = "kernel_poll_device" /\ work[1].dev = d)
           \/ polled' /\ pc = "script"
           \/ pc = "callback" /\ ~IsPlainPoll(work[1])
  PROVE  PollsFollow'
<1>0. /\ Len(p) \in Nat
      /\ \A i \in 1..Len(p) : i \in 1..Len(work') /\ work'[i] = p[i]
      /\ \A i \in 1..Len(work) : i # 1 =>
           /\ i + Len(p) - 1 \in 1..Len(work') /\ i + Len(p) - 1 > Len(p)
           /\ work'[i + Len(p) - 1] = work[i]
      /\ \A i \in 1..Len(work') : i \notin 1..Len(p) =>
           /\ i - Len(p) + 1 \in 1..Len(work) /\ i - Len(p) + 1 # 1
           /\ work'[i] = work[i - Len(p) + 1]
  BY PushWork
<1>1. 1 \in 1..Len(work) /\ Len(work) \in Nat
  BY TopWork
<1>2. ASSUME pc' = "callback", NEW i \in 1..Len(work'), ~IsPlainPoll(work'[i]), NEW d \in Devs
      PROVE  \E j \in (i + 1)..Len(work') : work'[j] = PollDevice(d, FALSE)
  <2>0. pc = "callback"
    BY <1>2 DEF Callable
  <2>1. CASE i \in 1..Len(p)
    <3>1. ~IsPlainPoll(work[1])
      BY <1>0, <1>2, <2>1
    <3>2. PICK j \in (1 + 1)..Len(work) : work[j] = PollDevice(d, FALSE)
      BY <1>1, <2>0, <3>1, Zenon DEF PollsFollow
    <3>3. j \in 1..Len(work) /\ j # 1
      BY <1>1, <3>2
    <3>4. /\ j + Len(p) - 1 \in 1..Len(work') /\ j + Len(p) - 1 > Len(p)
          /\ work'[j + Len(p) - 1] = PollDevice(d, FALSE)
      BY <1>0, <3>2, <3>3
    <3>5. j + Len(p) - 1 \in (i + 1)..Len(work')
      BY <1>0, <2>1, <3>4
    <3> QED BY <3>4, <3>5
  <2>2. CASE i \notin 1..Len(p)
    <3>1. /\ i - Len(p) + 1 \in 1..Len(work) /\ i - Len(p) + 1 # 1
          /\ work'[i] = work[i - Len(p) + 1]
      BY <1>0, <2>2
    <3>2. PICK j \in (i - Len(p) + 1 + 1)..Len(work) : work[j] = PollDevice(d, FALSE)
      BY <1>2, <2>0, <3>1 DEF PollsFollow
    <3>3. j \in 1..Len(work) /\ j # 1
      BY <1>0, <1>1, <3>1, <3>2
    <3>4. j + Len(p) - 1 \in 1..Len(work') /\ work'[j + Len(p) - 1] = PollDevice(d, FALSE)
      BY <1>0, <3>2, <3>3
    <3>5. j + Len(p) - 1 \in (i + 1)..Len(work')
      BY <1>0, <1>1, <3>2, <3>4
    <3> QED BY <3>4, <3>5
  <2> QED BY <2>1, <2>2
<1>3. ASSUME pc' = "script", NEW i \in 1..Len(work'),
             work'[i].fn = "kernel_poll_device", work'[i].unbusy
      PROVE  polled'
  <2>1. CASE i \in 1..Len(p)
    BY <1>0, <1>3, <2>1
  <2>2. CASE i \notin 1..Len(p)
    BY <1>0, <1>3, <2>2 DEF PollsFollow
  <2> QED BY <2>1, <2>2
<1>4. ASSUME pc' # "exit", NEW d \in Rated, Waiting(d)'
      PROVE  WillPoll(d)' \/ (pc' # "callback" /\ polled')
  <2>0. pc' = pc /\ pc # "exit"
    BY <1>4
  <2>a. ASSUME NEW k \in 1..Len(work), k # 1, work[k].fn = "kernel_poll_device", work[k].dev = d
        PROVE  WillPoll(d)'
    <3>1. k + Len(p) - 1 \in 1..Len(work') /\ work'[k + Len(p) - 1] = work[k]
      BY <1>0, <2>a
    <3> QED BY <2>a, <3>1 DEF WillPoll
  <2>1. CASE \E i \in 1..Len(p) : p[i].fn = "kernel_poll_device" /\ p[i].dev = d
    BY <1>0, <2>1 DEF WillPoll
  <2>2. CASE Waiting(d) /\ ~(work[1].fn = "kernel_poll_device" /\ work[1].dev = d)
    <3>1. WillPoll(d) \/ (pc # "callback" /\ polled)
      BY <2>0, <2>2 DEF PollsFollow
    <3>2. CASE WillPoll(d)
      BY <2>2, <2>a, <3>2 DEF WillPoll
    <3> QED BY <2>0, <3>1, <3>2
  <2>3. CASE polled' /\ pc = "script"
    BY <2>0, <2>3
  <2>4. CASE pc = "callback" /\ ~IsPlainPoll(work[1])
    <3>0. d \in Devs
      BY RatedAssumption
    <3>1. PICK j \in (1 + 1)..Len(work) : work[j] = PollDevice(d, FALSE)
      BY <1>1, <2>4, <3>0, Zenon DEF PollsFollow
    <3>2. j \in 1..Len(work) /\ j # 1
      BY <1>1, <3>1
    <3>3. work[j].fn = "kernel_poll_device" /\ work[j].dev = d
      BY <3>1 DEF PollDevice
    <3> QED BY <2>a, <3>2, <3>3
  <2> QED BY <1>4, <2>1, <2>2, <2>3, <2>4
<1> QED BY <1>2, <1>3, <1>4 DEF PollsFollow

(* The fields of a call.                                                   *)
LEMMA CallFields ==
  ASSUME NEW c \in WorkCalls
  PROVE  /\ c.fn = "cmd_run" => c.cmd \in Script
         /\ IsEvery(c) => c.every \in EveryStructs
         /\ c.fn = "kernel_poll_device" => c.dev \in Devs /\ c.unbusy \in BOOLEAN
         /\ c.fn = "dev_do_poll" => c.dev \in Devs
  BY DEF WorkCalls, IsEvery

LEMMA CallTypes ==
  /\ \A c \in Script : CmdRun(c) \in WorkCalls
  /\ \A e \in EveryStructs : DoEvery(e) \in WorkCalls /\ Rearm(e) \in WorkCalls
  /\ \A d \in Devs, u \in BOOLEAN : PollDevice(d, u) \in WorkCalls
  /\ \A d \in Devs : PollDevice(d, FALSE) \in WorkCalls /\ DevDoPoll(d) \in WorkCalls
  BY DEF WorkCalls, CmdRun, DoEvery, Rearm, PollDevice, DevDoPoll

LEMMA DevBaseFacts ==
  /\ Len(DevBase) \in Nat
  /\ \A i \in 1..Len(DevBase) : DevBase[i] \in Devs
  /\ \A d \in Devs : \E i \in 1..Len(DevBase) : DevBase[i] = d
  BY DevBaseAssumption, LenProperties, ElementOfSeq DEF Devs

(* kernel_poll(NULL, ...) polls every device.                              *)
LEMMA KernelPollFacts ==
  ASSUME NEW d \in Devs \cup {None}, NEW u \in BOOLEAN
  PROVE  /\ KernelPoll(d, u) \in Seq(WorkCalls)
         /\ \A i \in 1..Len(KernelPoll(d, u)) :
              \E x \in Devs : KernelPoll(d, u)[i] = PollDevice(x, u)
         /\ \A x \in Devs : d \in {x, None} =>
              \E i \in 1..Len(KernelPoll(d, u)) : KernelPoll(d, u)[i] = PollDevice(x, u)
<1>1. CASE d = None
  <2> DEFINE k == [i \in 1..Len(DevBase) |-> PollDevice(DevBase[i], u)]
  <2>1. KernelPoll(d, u) = k
    BY <1>1 DEF KernelPoll
  <2>2. \A i \in 1..Len(DevBase) : k[i] = PollDevice(DevBase[i], u) /\ k[i] \in WorkCalls
    BY DevBaseFacts, CallTypes
  <2>3. k \in Seq(WorkCalls) /\ Len(k) = Len(DevBase)
    BY <2>2, DevBaseFacts, IsASeq
  <2> HIDE DEF k
  <2> QED BY <2>1, <2>2, <2>3, DevBaseFacts
<1>2. CASE d # None
  <2>1. KernelPoll(d, u) = <<PollDevice(d, u)>> /\ PollDevice(d, u) \in WorkCalls /\ d \in Devs
    BY <1>2, CallTypes DEF KernelPoll
  <2> HIDE DEF KernelPoll
  <2> QED BY <1>2, <2>1
<1> QED BY <1>1, <1>2

LEMMA PollFields ==
  ASSUME NEW d, NEW u \in BOOLEAN
  PROVE  /\ PollDevice(d, u).fn = "kernel_poll_device"
         /\ PollDevice(d, u).dev = d /\ PollDevice(d, u).unbusy = u
         /\ ~IsEvery(PollDevice(d, u))
         /\ IsPlainPoll(PollDevice(d, u)) <=> ~u
  BY DEF PollDevice, IsEvery, IsPlainPoll

LEMMA PlainPollFields ==
  ASSUME NEW p, NEW i, NEW d, p[i] = PollDevice(d, FALSE)
  PROVE  /\ ~IsEvery(p[i]) /\ p[i].fn # "dev_do_poll" /\ IsPlainPoll(p[i])
         /\ p[i].fn = "kernel_poll_device" /\ ~p[i].unbusy
  BY DEF PollDevice, IsEvery, IsPlainPoll

-----------------------------------------------------------------------------
(* The steps *)

LEMMA IdleKeepsIInv ==
  ASSUME IInv, UNCHANGED vars
  PROVE  IInv'
  BY DEF IInv, TypeOK, Sorted, NoneOverdue, TargetAhead, vars

(* errorf leaves everything where it is.                                   *)
LEMMA ExitKeepsIInv ==
  ASSUME IInv, CallerExits
  PROVE  IInv' /\ pc' = "exit" /\ Pending' = Pending /\ adds' = adds
  BY DEF IInv, TypeOK, PCs, Sorted, NoneOverdue, TargetAhead, CallerExits, Pending

LEMMA ExitKeepsSimInv ==
  ASSUME SimInv, CallerExits, UNCHANGED <<netVars, generation, work>>
  PROVE  SimInv'
<1>1. IInv' /\ pc' = "exit" /\ Pending' = Pending /\ adds' = adds
  BY ExitKeepsIInv DEF SimInv
<1>2. NetOK'
  BY IdleKeepsNet DEF SimInv
<1>3. StackOK' /\ EverysHeld' /\ PollsFollow'
  BY <1>1 DEF SimInv, StackOK, EverysHeld, PollsFollow
<1> QED BY <1>1, <1>2, <1>3 DEF SimInv

(* A step that adds no timer and brings no struct every onto the stack.    *)
LEMMA PlainPush ==
  ASSUME SimInv, Callable, work # << >>, NEW p \in Seq(WorkCalls), work' = p \o Tail(work),
         \A i \in 1..Len(p) : ~IsEvery(p[i]) /\ p[i].fn # "dev_do_poll",
         Pending' = Pending, adds' = adds, pc' \in {pc, "exit"}
  PROVE  StackOK' /\ EverysHeld'
<1>1. StackOK'
  BY PushKeepsStack DEF SimInv
<1>2. StackOK /\ EverysHeld
  BY DEF SimInv
<1>3. /\ \A y, z \in Pending' :
           y.fn = "do_every" /\ z.fn = "do_every" /\ y.every.addr = z.every.addr => y = z
      /\ \A id \in Pending' : id.fn = "dev_do_poll" => id.n < adds'
  BY <1>2 DEF EverysHeld
<1>4. EverysHeld'
  BY <1>2, <1>3, PushKeepsEverys
<1> QED BY <1>1, <1>4

LEMMA RunSendKeeps ==
  ASSUME SimInv, RunSend
  PROVE  SimInv'
<1>0. IInv /\ NetOK /\ StackOK /\ EverysHeld /\ PollsFollow /\ Callable /\ work # << >>
  BY DEF SimInv, RunSend, Call
<1>1. /\ Head(work) = work[1] /\ work[1] \in WorkCalls /\ work[1].fn = "cmd_run"
      /\ polled' = polled
  BY <1>0, TopWork DEF RunSend, Call
<1>2. PICK c : c = Head(work).cmd
  OBVIOUS
<1>3. c.dev \in Devs \cup {None} /\ c.pkt \in Packets
  BY <1>1, <1>2, CallFields, ScriptAssumption DEF RunSend
<1>4. CASE c.dev = None /\ Len(DevBase) # 1
  BY <1>2, <1>4, ExitKeepsSimInv DEF RunSend
<1>5. CASE ~(c.dev = None /\ Len(DevBase) # 1)
  <2>1. PICK d : d = IF c.dev = None THEN DevBase[1] ELSE c.dev
    OBVIOUS
  <2>2. /\ KernelEnqueue(d, AllocSkb(c.pkt)) /\ generation' = generation + 1
        /\ work' = KernelPoll(c.dev, FALSE) \o Tail(work)
        /\ UNCHANGED <<vars, txing>>
    BY <1>2, <1>5, <2>1 DEF RunSend
  <2>3. d \in Devs /\ c.dev \in {d, None}
    BY <1>3, <1>5, <2>1, DevBaseFacts
  <2>4. NetOK'
    BY <1>0, <1>3, <2>2, <2>3, SendKeepsNet
  <2>5. IInv' /\ Pending' = Pending /\ adds' = adds /\ pc' = pc
    BY <1>0, <2>2, IdleKeepsIInv DEF vars, Pending
  <2>6. PICK p : p = KernelPoll(c.dev, FALSE)
    OBVIOUS
  <2>7. /\ p \in Seq(WorkCalls)
        /\ \A i \in 1..Len(p) : \E x \in Devs : p[i] = PollDevice(x, FALSE)
        /\ \E i \in 1..Len(p) : p[i] = PollDevice(d, FALSE)
    BY <1>3, <2>3, <2>6, KernelPollFacts
  <2>8. \A i \in 1..Len(p) : /\ ~IsEvery(p[i]) /\ p[i].fn # "dev_do_poll" /\ IsPlainPoll(p[i])
                             /\ p[i].fn = "kernel_poll_device" /\ ~p[i].unbusy
    BY <2>7, PlainPollFields
  <2>9. StackOK' /\ EverysHeld'
    BY <1>0, <2>2, <2>5, <2>6, <2>7, <2>8, PlainPush
  <2>10. ASSUME NEW x \in Rated, Waiting(x)'
         PROVE  \/ \E i \in 1..Len(p) : p[i].fn = "kernel_poll_device" /\ p[i].dev = x
                \/ Waiting(x) /\ ~(work[1].fn = "kernel_poll_device" /\ work[1].dev = x)
    <3>1. CASE x = d
      BY <2>7, <3>1, PollFields
    <3>2. CASE x # d
      <4>1. queue'[x] = queue[x]
        BY <1>0, <2>2, <2>3, <3>2, RatedAssumption DEF KernelEnqueue, NetOK
      <4> QED BY <1>1, <2>2, <2>10, <4>1 DEF Waiting
    <3> QED BY <3>1, <3>2
  <2>11. PollsFollow'
    BY <1>0, <1>1, <2>2, <2>5, <2>6, <2>7, <2>8, <2>10, PushKeepsPolls
  <2> QED BY <2>4, <2>5, <2>9, <2>11 DEF SimInv
<1> QED BY <1>4, <1>5

LEMMA RunPollKeeps ==
  ASSUME SimInv, RunPoll
  PROVE  SimInv'
<1>0. IInv /\ NetOK /\ StackOK /\ EverysHeld /\ PollsFollow /\ Callable /\ work # << >>
  BY DEF SimInv, RunPoll, Call
<1>1. /\ Head(work) = work[1] /\ work[1] \in WorkCalls /\ work[1].fn = "cmd_run"
      /\ polled' /\ UNCHANGED <<vars, netVars, generation>>
  BY <1>0, TopWork DEF RunPoll, Call
<1>2. PICK d : d = Head(work).cmd.dev
  OBVIOUS
<1>3. d \in Devs \cup {None} /\ work' = KernelPoll(d, TRUE) \o Tail(work)
  BY <1>1, <1>2, CallFields, ScriptAssumption DEF RunPoll
<1>4. PICK p : p = KernelPoll(d, TRUE)
  OBVIOUS
<1>5. /\ p \in Seq(WorkCalls)
      /\ \A i \in 1..Len(p) : \E x \in Devs : p[i] = PollDevice(x, TRUE)
  BY <1>3, <1>4, KernelPollFacts
<1>6. \A i \in 1..Len(p) : ~IsEvery(p[i]) /\ p[i].fn # "dev_do_poll"
  BY <1>5, PollFields
<1>7. NetOK' /\ IInv' /\ Pending' = Pending /\ adds' = adds /\ pc' = pc
  BY <1>0, <1>1, IdleKeepsNet, IdleKeepsIInv DEF vars, Pending
<1>8. StackOK' /\ EverysHeld'
  BY <1>0, <1>3, <1>4, <1>5, <1>6, <1>7, PlainPush
<1>9. ASSUME NEW x \in Rated, Waiting(x)'
      PROVE  Waiting(x) /\ ~(work[1].fn = "kernel_poll_device" /\ work[1].dev = x)
  BY <1>1, <1>9 DEF Waiting, netVars
<1>10. ~IsPlainPoll(work[1])
  BY <1>1 DEF IsPlainPoll
<1>11. PollsFollow'
  BY <1>0, <1>1, <1>3, <1>4, <1>5, <1>7, <1>9, <1>10, PushKeepsPolls
<1> QED BY <1>7, <1>8, <1>11 DEF SimInv

(* A step that only changes the stack, and leaves the calls of             *)
(* kernel_poll_device on it: "every" in its various stages.                *)
LEMMA EveryKeepsRest ==
  ASSUME SimInv, Callable, work # << >>, NEW p \in Seq(WorkCalls), work' = p \o Tail(work),
         work[1].fn # "kernel_poll_device",
         \A i \in 1..Len(p) : p[i].fn # "dev_do_poll" /\ p[i].fn # "kernel_poll_device",
         pc' \in {pc, "exit"}, UNCHANGED <<netVars, generation, polled>>
  PROVE  NetOK' /\ StackOK' /\ PollsFollow'
<1>0. IInv /\ NetOK /\ StackOK /\ EverysHeld /\ PollsFollow
  BY DEF SimInv
<1>1. NetOK'
  BY <1>0, IdleKeepsNet
<1>2. StackOK'
  BY <1>0, PushKeepsStack
<1>3. ~IsPlainPoll(work[1])
  BY DEF IsPlainPoll
<1>4. ASSUME NEW x \in Rated, Waiting(x)'
      PROVE  Waiting(x) /\ ~(work[1].fn = "kernel_poll_device" /\ work[1].dev = x)
  BY <1>4 DEF Waiting, netVars
<1>5. PollsFollow'
  BY <1>0, <1>3, <1>4, PushKeepsPolls
<1> QED BY <1>1, <1>2, <1>5

(* add_every: the address is new.                                          *)
LEMMA RunEveryKeeps ==
  ASSUME SimInv, RunEvery
  PROVE  SimInv'
<1>0. IInv /\ NetOK /\ StackOK /\ EverysHeld /\ PollsFollow /\ Callable /\ work # << >>
  BY DEF SimInv, RunEvery, Call
<1>1. /\ Head(work) = work[1] /\ work[1] \in WorkCalls /\ work[1].fn = "cmd_run"
      /\ Head(work).cmd.type = "every"
      /\ UNCHANGED <<vars, netVars, generation, polled>>
  BY <1>0, TopWork DEF RunEvery, Call
<1>2. PICK a : a = CHOOSE x \in Unused : TRUE
  OBVIOUS
<1>3. a \in Unused
  BY <1>2 DEF RunEvery
<1>4. PICK e : e = [cmd |-> Head(work).cmd, addr |-> a]
  OBVIOUS
<1>5. e \in EveryStructs /\ e.addr = a
  BY <1>1, <1>3, <1>4, CallFields DEF EveryStructs, Unused
<1>6. PICK p : p = <<DoEvery(e)>>
  OBVIOUS
<1>7. work' = p \o Tail(work)
  BY <1>2, <1>4, <1>6 DEF RunEvery
<1>8. /\ p \in Seq(WorkCalls) /\ Len(p) = 1 /\ p[1] = DoEvery(e)
      /\ p[1].fn = "do_every" /\ p[1].every.addr = a
  BY <1>5, <1>6, CallTypes DEF DoEvery
<1>9. \A i \in 1..Len(p) : i = 1
  BY <1>8
<1>10. IInv' /\ Pending' = Pending /\ adds' = adds /\ pc' = pc
  BY <1>0, <1>1, IdleKeepsIInv DEF vars, Pending
<1>11. NetOK' /\ StackOK' /\ PollsFollow'
  BY <1>0, <1>1, <1>7, <1>8, <1>9, <1>10, EveryKeepsRest
<1>12. EverysHeld'
  <2>1. \A j \in 1..Len(work) : IsEvery(work[j]) => work[j].every.addr # a
    BY <1>3 DEF Unused, InUse
  <2>2. \A id \in Pending' : id.fn = "do_every" => id.every.addr # a
    BY <1>3, <1>10 DEF Unused, InUse
  <2>3. /\ \A y, z \in Pending' :
             y.fn = "do_every" /\ z.fn = "do_every" /\ y.every.addr = z.every.addr => y = z
        /\ \A id \in Pending' : id.fn = "dev_do_poll" => id.n < adds'
    BY <1>0, <1>10 DEF EverysHeld
  <2> QED BY <1>0, <1>7, <1>8, <1>9, <1>10, <2>1, <2>2, <2>3, PushKeepsEverys
<1> QED BY <1>10, <1>11, <1>12 DEF SimInv

(* do_every keeps its struct, or frees it.                                 *)
LEMMA StepDoEveryKeeps ==
  ASSUME SimInv, StepDoEvery
  PROVE  SimInv'
<1>0. IInv /\ NetOK /\ StackOK /\ EverysHeld /\ PollsFollow /\ Callable /\ work # << >>
  BY DEF SimInv, StepDoEvery, Call
<1>1. /\ Head(work) = work[1] /\ work[1] \in WorkCalls /\ work[1].fn = "do_every"
      /\ 1 \in 1..Len(work) /\ Tail(work) = << >> \o Tail(work) /\ << >> \in Seq(WorkCalls)
      /\ UNCHANGED <<vars, netVars, generation, polled>>
  BY <1>0, TopWork DEF StepDoEvery, Call
<1>2. PICK e : e = Head(work).every
  OBVIOUS
<1>3. e \in EveryStructs /\ e = work[1].every /\ IsEvery(work[1])
  BY <1>1, <1>2, CallFields DEF IsEvery
<1>4. e.cmd.cmd \in Script
  BY <1>3, ScriptAssumption DEF EveryStructs
<1>5. PICK p : p = IF jiffval_cmp(now, e.cmd.until) > 0
                     THEN << >> ELSE <<CmdRun(e.cmd.cmd), Rearm(e)>>
  OBVIOUS
<1>6. work' = p \o Tail(work)
  BY <1>1, <1>2, <1>5 DEF StepDoEvery
<1>7. p \in Seq(WorkCalls)
  BY <1>1, <1>3, <1>4, <1>5, CallTypes
<1>8. ASSUME NEW i \in 1..Len(p)
      PROVE  \/ p[i] = CmdRun(e.cmd.cmd)
             \/ p[i] = Rearm(e) /\ i = 2
  BY <1>5
<1>9. ASSUME NEW i \in 1..Len(p)
      PROVE  /\ p[i].fn # "dev_do_poll" /\ p[i].fn # "kernel_poll_device"
             /\ IsEvery(p[i]) => i = 2 /\ p[i].every = e
  BY <1>8 DEF CmdRun, Rearm, IsEvery
<1>10. IInv' /\ Pending' = Pending /\ adds' = adds /\ pc' = pc
  BY <1>0, <1>1, IdleKeepsIInv DEF vars, Pending
<1>11. NetOK' /\ StackOK' /\ PollsFollow'
  BY <1>0, <1>1, <1>6, <1>7, <1>9, <1>10, EveryKeepsRest
<1>12. EverysHeld'
  <2>1. \A j \in 1..Len(work) : j # 1 /\ IsEvery(work[j]) => work[j].every.addr # e.addr
    BY <1>0, <1>1, <1>3 DEF EverysHeld
  <2>2. \A id \in Pending' : id.fn = "do_every" => id.every.addr # e.addr
    BY <1>0, <1>1, <1>3, <1>10 DEF EverysHeld
  <2>3. /\ \A y, z \in Pending' :
             y.fn = "do_every" /\ z.fn = "do_every" /\ y.every.addr = z.every.addr => y = z
        /\ \A id \in Pending' : id.fn = "dev_do_poll" => id.n < adds'
    BY <1>0, <1>10 DEF EverysHeld
  <2> QED BY <1>0, <1>6, <1>7, <1>9, <1>10, <2>1, <2>2, <2>3, PushKeepsEverys
<1> QED BY <1>10, <1>11, <1>12 DEF SimInv

(* The timer of a struct every is not pending while its function runs.     *)
LEMMA RearmIsFree ==
  ASSUME SimInv, Call("rearm")
  PROVE  /\ Head(work).every \in EveryStructs
         /\ EveryTimer(Head(work).every) \in Timers \ Pending
         /\ EveryNext(Head(work).every.cmd.interval) \in Jiffval
<1>0. IInv /\ StackOK /\ EverysHeld /\ work # << >>
  BY DEF SimInv, Call
<1>1. /\ Head(work) = work[1] /\ work[1] \in WorkCalls /\ work[1].fn = "rearm"
      /\ 1 \in 1..Len(work) /\ IsEvery(work[1])
  BY <1>0, TopWork DEF Call, IsEvery
<1>2. PICK e : e = Head(work).every
  OBVIOUS
<1>3. e \in EveryStructs /\ e = work[1].every
  BY <1>1, <1>2, CallFields
<1>4. EveryTimer(e) \in Timers
  BY <1>3, TimersAssumption DEF SimTimers
<1>5. EveryTimer(e) \notin Pending
  BY <1>0, <1>1, <1>3 DEF EverysHeld, EveryTimer
<1>6. e.cmd.interval \in Jiffval /\ now \in Jiffval
  BY <1>0, <1>3, ScriptAssumption DEF EveryStructs, IInv, TypeOK
<1> QED BY <1>2, <1>3, <1>4, <1>5, <1>6, EveryNextType

LEMMA StepRearmKeeps ==
  ASSUME SimInv, StepRearm
  PROVE  SimInv'
<1>0. /\ IInv /\ NetOK /\ StackOK /\ EverysHeld /\ PollsFollow /\ Callable /\ work # << >>
      /\ Call("rearm")
  BY DEF SimInv, StepRearm, Call
<1>1. /\ Head(work) = work[1] /\ work[1] \in WorkCalls /\ work[1].fn = "rearm"
      /\ 1 \in 1..Len(work) /\ Tail(work) = << >> \o Tail(work) /\ << >> \in Seq(WorkCalls)
      /\ UNCHANGED <<netVars, generation, polled>>
  BY <1>0, TopWork DEF StepRearm, Call
<1>2. work' = << >> \o Tail(work)
  BY <1>1 DEF StepRearm
<1>3. PICK e : e = Head(work).every
  OBVIOUS
<1>4. e \in EveryStructs /\ e = work[1].every /\ EveryTimer(e) \in Timers \ Pending
      /\ EveryNext(e.cmd.interval) \in Jiffval
  BY <1>0, <1>1, <1>3, RearmIsFree
<1>5. PICK id : id = EveryTimer(e)
  OBVIOUS
<1>6. id \in Timers \ Pending /\ id.fn = "do_every" /\ id.every.addr = work[1].every.addr
  BY <1>4, <1>5 DEF EveryTimer
<1>7. /\ IInv' /\ pc' \in {pc, "exit"}
      /\ \/ Pending' = Pending /\ adds' = adds
         \/ Pending' = Pending \cup {id} /\ adds' = adds + 1
  <2>1. CASE terminating
    <3>1. UNCHANGED vars
      BY <2>1 DEF StepRearm
    <3> QED BY <1>0, <3>1, IdleKeepsIInv DEF vars, Pending
  <2>2. CASE ~terminating
    <3>1. AddHiresTimer(id, EveryNext(e.cmd.interval))
      BY <1>3, <1>5, <2>2 DEF StepRearm
    <3> QED BY <1>0, <1>4, <1>6, <3>1, AddEffect
  <2> QED BY <2>1, <2>2
<1>8. \A i \in 1..Len(<< >>) : FALSE
  OBVIOUS
<1>9. NetOK' /\ StackOK' /\ PollsFollow'
  BY <1>0, <1>1, <1>2, <1>7, <1>8, EveryKeepsRest
<1>10. EverysHeld'
  <2>1. \A j \in 1..Len(work) : j # 1 /\ IsEvery(work[j]) => work[j].every.addr # id.every.addr
    BY <1>0, <1>1, <1>6 DEF EverysHeld, IsEvery
  <2>2. \A z \in Pending : z.fn = "do_every" => z.every.addr # id.every.addr
    BY <1>0, <1>1, <1>6 DEF EverysHeld, IsEvery
  <2>3. \A y, z \in Pending' :
          y.fn = "do_every" /\ z.fn = "do_every" /\ y.every.addr = z.every.addr => y = z
    BY <1>0, <1>7, <2>2 DEF EverysHeld
  <2>4. ASSUME NEW z \in Pending', z.fn = "dev_do_poll" PROVE z.n < adds'
    <3>1. z \in Pending /\ z.n \in Nat /\ adds \in Nat /\ z.n < adds
      BY <1>0, <1>6, <1>7, <2>4, PendingFacts DEF EverysHeld
    <3> QED BY <1>7, <3>1
  <2>5. \A z \in Pending' : z \in Pending \/ z = id
    BY <1>7
  <2> QED BY <1>0, <1>1, <1>2, <1>8, <2>1, <2>3, <2>4, <2>5, PushKeepsEverys
<1> QED BY <1>7, <1>9, <1>10 DEF SimInv

(* What deliver does to the rest of the state.                             *)
LEMMA DeliverEffect ==
  ASSUME IInv, NEW d, Deliver(d)
  PROVE  /\ IInv' /\ pc' \in {pc, "exit"} /\ Pending' = Pending /\ adds' = adds
         /\ pc' = "exit" \/ UNCHANGED vars
<1>1. CASE CallerExits
  BY <1>1, ExitKeepsIInv
<1>2. CASE UNCHANGED vars
  BY <1>2, IdleKeepsIInv DEF vars, Pending
<1> QED BY <1>1, <1>2 DEF Deliver

(* A delivery, followed by a poll of the device.                           *)
LEMMA DeliverKeeps ==
  ASSUME SimInv, Callable, work # << >>, NEW d \in Devs, Deliver(d),
         work' = <<PollDevice(d, FALSE)>> \o Tail(work), UNCHANGED <<generation, polled>>,
         ~IsPlainPoll(work[1]), pc = "callback" \/ polled
  PROVE  SimInv'
<1>0. IInv /\ NetOK /\ StackOK /\ EverysHeld /\ PollsFollow
  BY DEF SimInv
<1>1. IInv' /\ pc' \in {pc, "exit"} /\ Pending' = Pending /\ adds' = adds
  BY <1>0, DeliverEffect
<1>2. NetOK'
  BY <1>0, DeliverKeepsNet
<1>3. PICK p : p = <<PollDevice(d, FALSE)>>
  OBVIOUS
<1>4. p \in Seq(WorkCalls) /\ work' = p \o Tail(work) /\ \A i \in 1..Len(p) : p[i] = PollDevice(d, FALSE)
  <2>1. PollDevice(d, FALSE) \in WorkCalls
    BY CallTypes
  <2>2. PICK c : c = PollDevice(d, FALSE)
    OBVIOUS
  <2>3. p = <<c>> /\ c \in WorkCalls
    BY <1>3, <2>1, <2>2
  <2>4. p \in Seq(WorkCalls) /\ \A i \in 1..Len(p) : p[i] = c
    BY <2>3
  <2> QED BY <1>3, <2>2, <2>4
<1>5. \A i \in 1..Len(p) : /\ ~IsEvery(p[i]) /\ p[i].fn # "dev_do_poll"
                           /\ IsPlainPoll(p[i]) /\ ~p[i].unbusy
  BY <1>4, PlainPollFields
<1>6. StackOK' /\ EverysHeld'
  BY <1>1, <1>4, <1>5, PlainPush
<1>7. (polled' /\ pc = "script") \/ (pc = "callback" /\ ~IsPlainPoll(work[1]))
  BY DEF Callable
<1>8. PollsFollow'
  BY <1>0, <1>1, <1>4, <1>5, <1>7, PushKeepsPolls
<1> QED BY <1>1, <1>2, <1>6, <1>8 DEF SimInv

LEMMA PollDeliverKeeps ==
  ASSUME SimInv, PollDeliver
  PROVE  SimInv'
<1>0. IInv /\ NetOK /\ StackOK /\ EverysHeld /\ PollsFollow /\ Callable /\ work # << >>
  BY DEF SimInv, PollDeliver, Call
<1>1. /\ Head(work) = work[1] /\ work[1] \in WorkCalls /\ work[1].fn = "kernel_poll_device"
      /\ 1 \in 1..Len(work) /\ work[1].unbusy /\ UNCHANGED <<generation, polled>>
  BY <1>0, TopWork DEF PollDeliver, Call
<1>2. PICK d : d = Head(work).dev
  OBVIOUS
<1>3. d \in Devs /\ Deliver(d) /\ work' = <<PollDevice(d, FALSE)>> \o Tail(work)
  BY <1>1, <1>2, CallFields DEF PollDeliver
<1>4. ~IsPlainPoll(work[1])
  BY <1>1 DEF IsPlainPoll
<1>5. pc = "callback" \/ polled
  BY <1>0, <1>1 DEF Callable, PollsFollow
<1> QED BY <1>0, <1>1, <1>3, <1>4, <1>5, DeliverKeeps

LEMMA StepDevDoPollKeeps ==
  ASSUME SimInv, StepDevDoPoll
  PROVE  SimInv'
<1>0. IInv /\ NetOK /\ StackOK /\ EverysHeld /\ PollsFollow /\ Callable /\ work # << >>
  BY DEF SimInv, StepDevDoPoll, Call
<1>1. /\ Head(work) = work[1] /\ work[1] \in WorkCalls /\ work[1].fn = "dev_do_poll"
      /\ 1 \in 1..Len(work) /\ UNCHANGED <<generation, polled>>
  BY <1>0, TopWork DEF StepDevDoPoll, Call
<1>2. PICK d : d = Head(work).dev
  OBVIOUS
<1>3. d \in Devs /\ Deliver(d) /\ work' = <<PollDevice(d, FALSE)>> \o Tail(work)
  BY <1>1, <1>2, CallFields DEF StepDevDoPoll
<1>4. ~IsPlainPoll(work[1])
  BY <1>1 DEF IsPlainPoll
<1>5. pc = "callback"
  BY <1>0, <1>1 DEF Callable, StackOK
<1> QED BY <1>0, <1>1, <1>3, <1>4, <1>5, DeliverKeeps

LEMMA PollSkipKeeps ==
  ASSUME SimInv, PollSkip
  PROVE  SimInv'
<1>0. IInv /\ NetOK /\ StackOK /\ EverysHeld /\ PollsFollow /\ Callable /\ work # << >>
  BY DEF SimInv, PollSkip, Call
<1>1. /\ Head(work) = work[1] /\ work[1] \in WorkCalls /\ work[1].fn = "kernel_poll_device"
      /\ 1 \in 1..Len(work) /\ UNCHANGED <<vars, netVars, generation, polled>>
      /\ Tail(work) = << >> \o Tail(work) /\ << >> \in Seq(WorkCalls)
  BY <1>0, TopWork DEF PollSkip, Call
<1>2. work' = << >> \o Tail(work)
  BY <1>1 DEF PollSkip
<1>3. \A i \in 1..Len(<< >>) : FALSE
  OBVIOUS
<1>4. NetOK' /\ IInv' /\ Pending' = Pending /\ adds' = adds /\ pc' = pc
  BY <1>0, <1>1, IdleKeepsNet, IdleKeepsIInv DEF vars, Pending
<1>5. StackOK' /\ EverysHeld'
  BY <1>0, <1>1, <1>2, <1>3, <1>4, PlainPush
<1>6. ASSUME NEW x \in Rated, Waiting(x)'
      PROVE  Waiting(x) /\ ~(work[1].fn = "kernel_poll_device" /\ work[1].dev = x)
  <2>1. Waiting(x) /\ x \in Devs
    BY <1>1, <1>6, RatedAssumption DEF Waiting, netVars
  <2>2. CanSend(x)
    BY <1>0, <2>1 DEF CanSend, Waiting, NetOK
  <2> QED BY <1>1, <2>1, <2>2 DEF PollSkip
<1>7. PollsFollow'
  BY <1>0, <1>1, <1>2, <1>3, <1>4, <1>6, PushKeepsPolls
<1> QED BY <1>4, <1>5, <1>7 DEF SimInv

(* The timer that ends a transmission is new.                              *)
LEMMA DevPollIsFree ==
  ASSUME SimInv, NEW d \in Rated, adds < MaxAdds
  PROVE  DevPollTimer(d, adds) \in Timers \ Pending
<1>1. IInv /\ EverysHeld
  BY DEF SimInv
<1>2. adds \in 0..(MaxAdds - 1)
  BY <1>1, PendingFacts, MaxAddsAssumption
<1>3. DevPollTimer(d, adds) \in Timers
  BY <1>2, TimersAssumption DEF SimTimers
<1>4. DevPollTimer(d, adds).fn = "dev_do_poll" /\ DevPollTimer(d, adds).n = adds
  BY DEF DevPollTimer
<1>5. ~(adds < adds)
  BY <1>1, PendingFacts
<1> QED BY <1>1, <1>3, <1>4, <1>5 DEF EverysHeld

(* What kernel_poll_device does to the timers.                             *)
LEMMA DequeueTimers ==
  ASSUME SimInv, PollDequeue
  PROVE  LET d == Head(work).dev IN
         /\ d \in Devs /\ CanSend(d) /\ Head(queue[d]) \in Skb /\ IInv'
         /\ \/ UNCHANGED vars /\ Pending' = Pending /\ d \notin Rated
            \/ /\ d \in Rated /\ DevPollTimer(d, adds) \in Timers \ Pending
               /\ \/ pc' = "exit" /\ Pending' = Pending /\ adds' = adds
                  \/ /\ pc' = pc /\ Pending' = Pending \cup {DevPollTimer(d, adds)}
                     /\ adds' = adds + 1
<1>0. IInv /\ NetOK /\ StackOK /\ work # << >>
  BY DEF SimInv, PollDequeue, Call
<1>1. PICK d : d = Head(work).dev
  OBVIOUS
<1>2. d \in Devs
  BY <1>0, <1>1, TopWork, CallFields DEF PollDequeue, Call
<1>3. CanSend(d) /\ Head(queue[d]) \in Skb
  <2>1. CanSend(d)
    BY <1>1 DEF PollDequeue
  <2>2. queue[d] \in Seq(Skb) /\ queue[d] # << >>
    BY <1>0, <1>2, <2>1, QueueFacts DEF CanSend
  <2> QED BY <2>1, <2>2, HeadTailProperties
<1>4. CASE d \in Rated
  <2>1. PICK t \in TxEnd(d, Head(queue[d])) : AddHiresTimer(DevPollTimer(d, adds), t)
    BY <1>1, <1>4 DEF PollDequeue
  <2>2. now \in Jiffval
    BY <1>0 DEF IInv, TypeOK
  <2>3. t \in Jiffval
    BY <1>2, <1>3, <2>1, <2>2, TxEndType
  <2>4. DevPollTimer(d, adds) \in Timers \ Pending
    BY <1>4, <2>1, DevPollIsFree DEF AddHiresTimer
  <2> QED BY <1>0, <1>1, <1>2, <1>3, <1>4, <2>1, <2>3, <2>4, AddEffect
<1>5. CASE d \notin Rated
  <2>1. UNCHANGED vars
    BY <1>1, <1>5 DEF PollDequeue
  <2> QED BY <1>0, <1>1, <1>2, <1>3, <1>5, <2>1, IdleKeepsIInv DEF vars, Pending
<1> QED BY <1>4, <1>5

LEMMA PollDequeueKeeps ==
  ASSUME SimInv, PollDequeue
  PROVE  SimInv'
<1>0. IInv /\ NetOK /\ StackOK /\ EverysHeld /\ PollsFollow /\ Callable /\ work # << >>
  BY DEF SimInv, PollDequeue, Call
<1>1. /\ Head(work) = work[1] /\ work[1] \in WorkCalls /\ work[1].fn = "kernel_poll_device"
      /\ 1 \in 1..Len(work) /\ UNCHANGED <<scheduled, skbs, generation, polled>>
      /\ Tail(work) = << >> \o Tail(work) /\ << >> \in Seq(WorkCalls)
  BY <1>0, TopWork DEF PollDequeue, Call
<1>2. work' = << >> \o Tail(work)
  BY <1>1 DEF PollDequeue
<1>3. \A i \in 1..Len(<< >>) : FALSE
  OBVIOUS
<1>4. PICK d : d = Head(work).dev
  OBVIOUS
<1>5. PICK id : id = DevPollTimer(d, adds)
  OBVIOUS
<1>6. /\ d \in Devs /\ CanSend(d) /\ Head(queue[d]) \in Skb /\ IInv' /\ pc' \in {pc, "exit"}
      /\ \/ Pending' = Pending /\ adds' = adds
         \/ Pending' = Pending \cup {id} /\ adds' = adds + 1
  BY <1>4, <1>5, DequeueTimers DEF vars
<1>7. /\ txing' = [txing EXCEPT ![d] = Head(queue[d])]
      /\ queue' = [queue EXCEPT ![d] = Tail(@)]
  BY <1>4 DEF PollDequeue
<1>8. NetOK'
  BY <1>0, <1>1, <1>6, <1>7, DequeueKeepsNet
<1>9. StackOK'
  BY <1>0, <1>1, <1>2, <1>3, <1>6, PushKeepsStack
<1>10. EverysHeld'
  <2>1. id.fn = "dev_do_poll" /\ id.n = adds /\ adds \in Nat
    BY <1>0, <1>5, PendingFacts DEF DevPollTimer
  <2>2. \A z \in Pending' : z \in Pending \/ z = id
    BY <1>6
  <2>3. \A y, z \in Pending' :
          y.fn = "do_every" /\ z.fn = "do_every" /\ y.every.addr = z.every.addr => y = z
    BY <1>0, <2>1, <2>2 DEF EverysHeld
  <2>4. ASSUME NEW z \in Pending', z.fn = "dev_do_poll" PROVE z.n < adds'
    <3>1. CASE z \in Pending
      <4>1. z.n \in Nat /\ z.n < adds
        BY <1>0, <2>4, <3>1, PendingFacts DEF EverysHeld
      <4> QED BY <1>6, <2>1, <4>1
    <3>2. CASE z = id /\ adds' = adds + 1
      BY <2>1, <3>2
    <3> QED BY <1>6, <3>1, <3>2
  <2> QED BY <1>0, <1>1, <1>2, <1>3, <2>1, <2>2, <2>3, <2>4, PushKeepsEverys
<1>11. ASSUME NEW x \in Rated, Waiting(x)'
       PROVE  Waiting(x) /\ ~(work[1].fn = "kernel_poll_device" /\ work[1].dev = x)
  <2>1. x \in Devs /\ txing'[x] = None
    BY <1>11, RatedAssumption DEF Waiting
  <2>2. x # d
    BY <1>0, <1>6, <1>7, <2>1, NoneAssumption DEF NetOK
  <2>3. txing'[x] = txing[x] /\ queue'[x] = queue[x]
    BY <1>0, <1>7, <2>1, <2>2 DEF NetOK
  <2> QED BY <1>1, <1>4, <1>11, <2>2, <2>3 DEF Waiting
<1>12. PollsFollow'
  BY <1>0, <1>1, <1>2, <1>3, <1>6, <1>11, PushKeepsPolls
<1> QED BY <1>6, <1>8, <1>9, <1>10, <1>12 DEF SimInv

(* The stack while advance_time runs a timer: the timer function, then     *)
(* kernel_poll of all devices.                                             *)
LEMMA FireStack ==
  ASSUME NEW c \in WorkCalls, work' = <<c>> \o KernelPoll(None, FALSE)
  PROVE  /\ work' \in Seq(WorkCalls) /\ Len(work') \in Nat /\ 1 \in 1..Len(work') /\ work'[1] = c
         /\ \A i \in 1..Len(work') : i # 1 => \E x \in Devs : work'[i] = PollDevice(x, FALSE)
         /\ \A x \in Devs : \E j \in (1 + 1)..Len(work') : work'[j] = PollDevice(x, FALSE)
<1>0. PICK k : k = KernelPoll(None, FALSE)
  OBVIOUS
<1>1. /\ k \in Seq(WorkCalls) /\ Len(k) \in Nat
      /\ \A i \in 1..Len(k) : \E x \in Devs : k[i] = PollDevice(x, FALSE)
      /\ \A x \in Devs : \E i \in 1..Len(k) : k[i] = PollDevice(x, FALSE)
  BY <1>0, KernelPollFacts, LenProperties
<1>2. PICK p : p = <<c>>
  OBVIOUS
<1>3. p \in Seq(WorkCalls) /\ Len(p) = 1 /\ p[1] = c
  BY <1>2
<1>4. PICK u : u = p \o k
  OBVIOUS
<1>5. /\ u \in Seq(WorkCalls) /\ Len(u) = Len(p) + Len(k)
      /\ \A i \in 1..(Len(p) + Len(k)) : u[i] = IF i <= Len(p) THEN p[i] ELSE k[i - Len(p)]
  BY <1>1, <1>3, <1>4, ConcatProperties
<1>6. Len(u) \in Nat /\ Len(u) = 1 + Len(k) /\ 1 \in 1..Len(u) /\ u[1] = c
  BY <1>1, <1>3, <1>5
<1>7. ASSUME NEW i \in 1..Len(u), i # 1
      PROVE  i - 1 \in 1..Len(k) /\ u[i] = k[i - 1]
  BY <1>1, <1>3, <1>5, <1>6, <1>7
<1>8. ASSUME NEW x \in Devs
      PROVE  \E j \in (1 + 1)..Len(u) : u[j] = PollDevice(x, FALSE)
  <2>1. PICK i \in 1..Len(k) : k[i] = PollDevice(x, FALSE)
    BY <1>1
  <2>2. i + 1 \in 1..Len(u) /\ i + 1 # 1 /\ (i + 1) - 1 = i /\ i + 1 \in (1 + 1)..Len(u)
    BY <1>1, <1>6
  <2>3. u[i + 1] = k[(i + 1) - 1]
    BY <1>7, <2>2
  <2> QED BY <2>1, <2>2, <2>3
<1>9. \A i \in 1..Len(u) : i # 1 => \E x \in Devs : u[i] = PollDevice(x, FALSE)
  BY <1>1, <1>7
<1>10. work' = u
  BY <1>0, <1>2, <1>4
<1> QED BY <1>5, <1>6, <1>8, <1>9, <1>10

LEMMA LoopFireKeeps ==
  ASSUME SimInv, LoopFire
  PROVE  SimInv'
<1>0. IInv /\ NetOK /\ StackOK /\ EverysHeld /\ PollsFollow /\ Fire
  BY DEF SimInv, LoopFire
<1>1. PICK id : id = Head(timers).id
  OBVIOUS
<1>2. /\ IInv' /\ id \in Pending /\ Pending' = Pending \ {id}
      /\ pc = "loop" /\ pc' = "callback" /\ adds' = adds
  BY <1>0, <1>1, FireEffect
<1>3. PICK c : c = TimerCall(id)
  OBVIOUS
<1>4. /\ c \in WorkCalls
      /\ IsEvery(c) => id.fn = "do_every" /\ c.every = id.every
      /\ ~IsPlainPoll(c)
  <2>1. CASE id.fn = "do_every"
    <3>1. c = DoEvery(id.every) /\ id.every \in EveryStructs
      BY <1>0, <1>2, <1>3, <2>1, PendingFacts DEF TimerCall
    <3> QED BY <2>1, <3>1, CallTypes DEF DoEvery, IsPlainPoll
  <2>2. CASE id.fn # "do_every"
    <3>1. c = DevDoPoll(id.dev) /\ id.dev \in Devs
      BY <1>0, <1>2, <1>3, <2>2, PendingFacts, RatedAssumption DEF TimerCall
    <3> QED BY <3>1, CallTypes DEF DevDoPoll, IsPlainPoll, IsEvery
  <2> QED BY <2>1, <2>2
<1>5. work' = <<c>> \o KernelPoll(None, FALSE) /\ UNCHANGED <<netVars, generation, polled>>
  BY <1>1, <1>3 DEF LoopFire
<1>6. /\ work' \in Seq(WorkCalls) /\ Len(work') \in Nat /\ 1 \in 1..Len(work') /\ work'[1] = c
      /\ \A i \in 1..Len(work') : i # 1 => \E x \in Devs : work'[i] = PollDevice(x, FALSE)
      /\ \A x \in Devs : \E j \in (1 + 1)..Len(work') : work'[j] = PollDevice(x, FALSE)
  BY <1>4, <1>5, FireStack
<1>7. \A i \in 1..Len(work') : i # 1 => ~IsEvery(work'[i]) /\ IsPlainPoll(work'[i])
  BY <1>6, PollFields
<1>8. NetOK' /\ StackOK'
  BY <1>0, <1>2, <1>5, <1>6, IdleKeepsNet DEF StackOK
<1>9. EverysHeld'
  <2>1. ASSUME NEW i \in 1..Len(work'), IsEvery(work'[i]),
               NEW z \in Pending', z.fn = "do_every"
        PROVE  z.every.addr # work'[i].every.addr
    <3>1. i = 1 /\ work'[i].every = id.every /\ id.fn = "do_every"
      BY <1>4, <1>6, <1>7, <2>1
    <3>2. z \in Pending /\ z # id
      BY <1>2
    <3> QED BY <1>0, <1>2, <2>1, <3>1, <3>2 DEF EverysHeld
  <2>2. \A i, j \in 1..Len(work') : IsEvery(work'[i]) /\ IsEvery(work'[j]) => i = j
    BY <1>7
  <2>3. /\ \A y, z \in Pending' :
             y.fn = "do_every" /\ z.fn = "do_every" /\ y.every.addr = z.every.addr => y = z
        /\ \A z \in Pending' : z.fn = "dev_do_poll" => z.n < adds'
    BY <1>0, <1>2 DEF EverysHeld
  <2> QED BY <2>1, <2>2, <2>3 DEF EverysHeld
<1>10. PollsFollow'
  <2>1. ASSUME NEW i \in 1..Len(work'), ~IsPlainPoll(work'[i]), NEW x \in Devs
        PROVE  \E j \in (i + 1)..Len(work') : work'[j] = PollDevice(x, FALSE)
    <3>1. i = 1
      BY <1>7, <2>1
    <3> QED BY <1>6, <3>1
  <2>2. ASSUME NEW x \in Rated PROVE WillPoll(x)'
    <3>1. PICK j \in (1 + 1)..Len(work') : work'[j] = PollDevice(x, FALSE)
      BY <1>6, RatedAssumption
    <3>2. j \in 1..Len(work')
      BY <1>6, <3>1
    <3>3. work'[j].fn = "kernel_poll_device" /\ work'[j].dev = x
      BY <3>1, PollFields
    <3> QED BY <3>2, <3>3 DEF WillPoll
  <2> QED BY <1>2, <2>1, <2>2 DEF PollsFollow
<1> QED BY <1>2, <1>8, <1>9, <1>10 DEF SimInv

LEMMA AdvancePreserves ==
  ASSUME IInv, NEW t \in Jiffval, AdvanceTime(t)
  PROVE  /\ IInv' /\ Pending' = Pending /\ adds' = adds
         /\ pc = "script" /\ pc' \in {"loop", "exit"}
<1>1. /\ pc = "script" /\ target' = t /\ now' = now /\ timers' = timers /\ adds' = adds
      /\ pc' = IF jiffval_cmp(t, now) < 0 THEN "exit" ELSE "loop"
  BY DEF AdvanceTime
<1>2. ~(jiffval_cmp(t, now) < 0) => timer_le(now, t)
  BY DEF jiffval_cmp, timer_lt, timer_le, IInv, TypeOK, Jiffval
<1>3. TypeOK'
  BY <1>1 DEF IInv, TypeOK, PCs
<1>4. TargetAhead'
  BY <1>1, <1>2 DEF TargetAhead
<1>5. Sorted' /\ NoneOverdue' /\ Distinct(timers') /\ Stamped(timers', adds')
  BY <1>1 DEF IInv, Sorted, NoneOverdue
<1> QED BY <1>1, <1>3, <1>4, <1>5 DEF IInv, Pending

(* Steps with an empty stack before and after.                             *)
LEMMA EmptyKeeps ==
  ASSUME SimInv, IInv', work = << >>, UNCHANGED <<netVars, generation, work>>,
         Pending' = Pending, adds' = adds,
         \A d \in Rated : Waiting(d) => pc' # "callback" /\ polled'
  PROVE  SimInv'
<1>0. NetOK /\ StackOK /\ EverysHeld
  BY DEF SimInv
<1>1. NetOK'
  BY <1>0, IdleKeepsNet
<1>2. work' = << >> /\ \A i \in 1..Len(work') : FALSE
  OBVIOUS
<1>3. StackOK'
  BY <1>0, <1>2 DEF StackOK
<1>4. EverysHeld'
  BY <1>0, <1>2 DEF EverysHeld
<1>5. \A d \in Rated : Waiting(d)' => Waiting(d)
  BY DEF Waiting, netVars
<1>6. PollsFollow'
  BY <1>2, <1>5 DEF PollsFollow
<1> QED BY <1>1, <1>3, <1>4, <1>6 DEF SimInv

(* With an empty stack, nobody waits but after a "poll".                   *)
LEMMA NobodyWaits ==
  ASSUME PollsFollow, work = << >>, pc # "exit", NEW d \in Rated, Waiting(d)
  PROVE  pc # "callback" /\ polled
<1>1. ~WillPoll(d)
  BY DEF WillPoll
<1> QED BY <1>1 DEF PollsFollow

LEMMA LoopReturnKeeps ==
  ASSUME SimInv, LoopReturn
  PROVE  SimInv'
<1>0. IInv /\ PollsFollow /\ work = << >> /\ pc = "callback" /\ pc' = "loop"
      /\ UNCHANGED <<now, timers, target, adds, netVars, generation, work>>
  BY DEF SimInv, LoopReturn, Return
<1>1. IInv' /\ Pending' = Pending /\ adds' = adds
  BY <1>0 DEF IInv, TypeOK, PCs, Sorted, NoneOverdue, TargetAhead, Pending
<1>2. \A d \in Rated : ~Waiting(d)
  BY <1>0, NobodyWaits
<1> QED BY <1>0, <1>1, <1>2, EmptyKeeps

LEMMA LoopFinishKeeps ==
  ASSUME SimInv, LoopFinish
  PROVE  SimInv'
<1>0. IInv /\ PollsFollow /\ StackOK /\ Finish
      /\ UNCHANGED <<netVars, generation, work, polled>>
  BY DEF SimInv, LoopFinish
<1>1. pc = "loop" /\ pc' = "script" /\ timers' = timers /\ adds' = adds /\ work = << >>
  BY <1>0 DEF Finish, StackOK
<1>2. IInv' /\ Pending' = Pending
  BY <1>0, <1>1, FinishPreserves DEF Pending
<1>3. \A d \in Rated : Waiting(d) => pc' # "callback" /\ polled'
  BY <1>0, <1>1, NobodyWaits
<1> QED BY <1>0, <1>1, <1>2, <1>3, EmptyKeeps

LEMMA ItemCommandKeeps ==
  ASSUME SimInv, NEW c \in Script, ItemCommand(c)
  PROVE  SimInv'
<1>0. IInv /\ NetOK /\ StackOK /\ EverysHeld /\ PollsFollow
      /\ pc = "script" /\ work = << >> /\ UNCHANGED <<netVars, generation, polled>>
  BY DEF SimInv, ItemCommand, Item
<1>1. CASE c.type = "every" /\ terminating
  BY <1>0, <1>1, ExitKeepsSimInv DEF ItemCommand
<1>2. CASE ~(c.type = "every" /\ terminating)
  <2>1. UNCHANGED vars /\ work' = <<CmdRun(c)>>
    BY <1>2 DEF ItemCommand
  <2>2. IInv' /\ NetOK' /\ Pending' = Pending /\ adds' = adds /\ pc' = pc
    BY <1>0, <2>1, IdleKeepsIInv, IdleKeepsNet DEF vars, Pending
  <2>3. work' \in Seq(WorkCalls) /\ \A i \in 1..Len(work') : work'[i] = CmdRun(c)
    BY <2>1, CallTypes
  <2>4. \A i \in 1..Len(work') : work'[i].fn = "cmd_run" /\ ~IsEvery(work'[i])
    BY <2>3 DEF CmdRun, IsEvery
  <2>5. StackOK'
    BY <1>0, <2>2, <2>3, <2>4 DEF StackOK
  <2>6. EverysHeld'
    BY <1>0, <2>2, <2>4 DEF EverysHeld
  <2>7. \A d \in Rated : Waiting(d)' => Waiting(d) /\ polled'
    BY <1>0, NobodyWaits DEF Waiting, netVars
  <2>8. PollsFollow'
    BY <1>0, <2>2, <2>4, <2>7 DEF PollsFollow
  <2> QED BY <2>2, <2>5, <2>6, <2>8 DEF SimInv
<1> QED BY <1>1, <1>2

(* "time" and "end" start advance_time.                                    *)
LEMMA AdvanceKeeps ==
  ASSUME SimInv, work = << >>, NEW t \in Jiffval, AdvanceTime(t),
         UNCHANGED <<netVars, generation, work, polled>>
  PROVE  SimInv'
<1>0. IInv /\ PollsFollow
  BY DEF SimInv
<1>1. IInv' /\ Pending' = Pending /\ adds' = adds /\ pc = "script" /\ pc' \in {"loop", "exit"}
  BY <1>0, AdvancePreserves
<1>2. \A d \in Rated : Waiting(d) => pc' # "callback" /\ polled'
  BY <1>0, <1>1, NobodyWaits
<1> QED BY <1>1, <1>2, EmptyKeeps

LEMMA ItemTimeKeeps ==
  ASSUME SimInv, NEW t \in ScriptTimes, ItemTime(t)
  PROVE  SimInv'
<1>0. work = << >> /\ UNCHANGED <<netVars, generation, work, polled>>
  BY DEF ItemTime, Item
<1>1. t \in Jiffval /\ now \in Jiffval
  BY ScriptTimesAssumption DEF SimInv, IInv, TypeOK
<1>2. jv_add(now, t) \in Jiffval
  BY <1>1, JvAddType
<1>3. CASE CallerExits
  BY <1>0, <1>3, ExitKeepsSimInv
<1>4. CASE AdvanceTime(t)
  BY <1>0, <1>1, <1>4, AdvanceKeeps
<1>5. CASE AdvanceTime(jv_add(now, t))
  BY <1>0, <1>2, <1>5, AdvanceKeeps
<1> QED BY <1>3, <1>4, <1>5 DEF ItemTime

LEMMA ItemEndKeeps ==
  ASSUME SimInv, ItemEnd
  PROVE  SimInv'
<1>0. work = << >> /\ UNCHANGED <<netVars, generation, work, polled>>
  BY DEF ItemEnd, Item
<1>1. CASE CallerExits
  BY <1>0, <1>1, ExitKeepsSimInv
<1>2. CASE AdvanceTime(EndTime)
  BY <1>0, <1>2, ScriptTimesAssumption, AdvanceKeeps
<1> QED BY <1>1, <1>2 DEF ItemEnd

LEMMA InitSimInv ==
  ASSUME SimInit
  PROVE  SimInv
<1>1. IInv
  BY DEF SimInit, Init, IInv, TypeOK, PCs, Entry, Jiffval, JV, Sorted, Ordered, NoneOverdue,
         NoneBefore, TargetAhead, Distinct, Stamped
<1>2. /\ queue = [d \in Devs |-> << >>] /\ scheduled = {} /\ skbs = {} /\ generation = 0
      /\ txing = [d \in Devs |-> IF d \in Rated THEN None ELSE BusyHack]
      /\ work = << >> /\ pc = "script" /\ timers = << >>
  BY DEF SimInit, Init
<1>3. \A d \in Devs : queue[d] = << >> /\ Len(queue[d]) = 0 /\ ~OnWire(d)
  BY <1>2 DEF OnWire
<1>4. SkbsAccounted
  BY <1>2, <1>3 DEF SkbsAccounted
<1>5. NetOK
  BY <1>2, <1>3, <1>4, LimitAssumption DEF NetOK
<1>6. StackOK
  BY <1>2 DEF StackOK
<1>7. Pending = {} /\ \A i \in 1..Len(work) : FALSE
  BY <1>2 DEF Pending
<1>8. EverysHeld
  BY <1>7 DEF EverysHeld
<1>9. PollsFollow
  BY <1>2, <1>3, <1>7, RatedAssumption DEF PollsFollow, Waiting
<1> QED BY <1>1, <1>5, <1>6, <1>8, <1>9 DEF SimInv

(* The simulator: packets, calls, struct every objects and polls together  *)
(* form an inductive invariant, of which IInv of the timer list is a part. *)
THEOREM SimInvariant == SimSpec => []SimInv
<1>1. SimInit => SimInv
  BY InitSimInv
<1>2. SimInv /\ [SimNext]_simVars => SimInv'
  <2> SUFFICES ASSUME SimInv, [SimNext]_simVars PROVE SimInv'
    OBVIOUS
  <2>1. CASE Internal
    <3>1. CASE RunSend
      BY <3>1, RunSendKeeps
    <3>2. CASE RunPoll
      BY <3>2, RunPollKeeps
    <3>3. CASE RunEvery
      BY <3>3, RunEveryKeeps
    <3>4. CASE StepDoEvery
      BY <3>4, StepDoEveryKeeps
    <3>5. CASE StepRearm
      BY <3>5, StepRearmKeeps
    <3>6. CASE PollDeliver
      BY <3>6, PollDeliverKeeps
    <3>7. CASE PollSkip
      BY <3>7, PollSkipKeeps
    <3>8. CASE PollDequeue
      BY <3>8, PollDequeueKeeps
    <3>9. CASE StepDevDoPoll
      BY <3>9, StepDevDoPollKeeps
    <3>10. CASE LoopFire
      BY <3>10, LoopFireKeeps
    <3>11. CASE LoopReturn
      BY <3>11, LoopReturnKeeps
    <3>12. CASE LoopFinish
      BY <3>12, LoopFinishKeeps
    <3> QED BY <2>1, <3>1, <3>2, <3>3, <3>4, <3>5, <3>6, <3>7, <3>8, <3>9, <3>10, <3>11, <3>12
            DEF Internal
  <2>2. ASSUME NEW c \in Script, ItemCommand(c) PROVE SimInv'
    BY <2>2, ItemCommandKeeps
  <2>3. ASSUME NEW t \in ScriptTimes, ItemTime(t) PROVE SimInv'
    BY <2>3, ItemTimeKeeps
  <2>4. CASE ItemEnd
    BY <2>4, ItemEndKeeps
  <2>5. CASE UNCHANGED simVars
    <3>1. UNCHANGED vars /\ UNCHANGED <<netVars, generation>> /\ UNCHANGED <<work, polled>>
      BY <2>5 DEF simVars
    <3>2. IInv' /\ NetOK' /\ Pending' = Pending /\ adds' = adds /\ pc' = pc
      BY <3>1, IdleKeepsIInv, IdleKeepsNet DEF SimInv, vars, Pending
    <3>3. StackOK' /\ EverysHeld'
      BY <3>1, <3>2 DEF SimInv, StackOK, EverysHeld
    <3>4. PollsFollow'
      BY <3>1, <3>2 DEF SimInv, PollsFollow, WillPoll, Waiting, netVars
    <3> QED BY <3>2, <3>3, <3>4 DEF SimInv
  <2> QED BY <2>1, <2>2, <2>3, <2>4, <2>5 DEF SimNext
<1> QED BY <1>1, <1>2, PTL DEF SimSpec

(* Packet conservation, for every network, script and number of packets.   *)
THEOREM PacketsConserved == SimSpec => []SkbsAccounted
<1>1. SimInv => SkbsAccounted
  BY DEF SimInv, NetOK
<1> QED BY <1>1, SimInvariant, PTL

(* Between script items, no rated device is idle in front of a queue.      *)
THEOREM NoIdleDevice == SimSpec => []WorkConserving
<1>1. SimInv => WorkConserving
  <2> SUFFICES ASSUME SimInv, pc = "script", work = << >>, ~polled, NEW d \in Rated, txing[d] = None
               PROVE  queue[d] = << >>
    BY DEF WorkConserving
  <2> QED BY NobodyWaits DEF SimInv, Waiting
<1> QED BY <1>1, SimInvariant, PTL

-----------------------------------------------------------------------------
(* The simulator as a user of the timer list *)

(* Each step of the simulator is one of these for the timer list.          *)
ListStep ==
  \/ UNCHANGED vars
  \/ CallerExits \/ Fire \/ Return \/ Finish
  \/ \E id \in Timers \ Pending, t \in Jiffval : AddHiresTimer(id, t)
  \/ \E t \in Jiffval : AdvanceTime(t)

LEMMA SimSteps ==
  ASSUME SimInv, SimNext
  PROVE  ListStep
<1>0. IInv /\ NetOK /\ now \in Jiffval
  BY DEF SimInv, IInv, TypeOK
<1>1. CASE RunSend
  BY <1>1 DEF RunSend, ListStep
<1>2. CASE RunPoll \/ RunEvery \/ StepDoEvery \/ PollSkip
  BY <1>2 DEF RunPoll, RunEvery, StepDoEvery, PollSkip, ListStep
<1>3. CASE StepRearm
  <2>1. CASE terminating
    BY <1>3, <2>1 DEF StepRearm, ListStep
  <2>2. CASE ~terminating
    <3>1. Call("rearm") /\ AddHiresTimer(EveryTimer(Head(work).every),
                                         EveryNext(Head(work).every.cmd.interval))
      BY <1>3, <2>2 DEF StepRearm
    <3> QED BY <3>1, RearmIsFree DEF ListStep
  <2> QED BY <2>1, <2>2
<1>4. CASE PollDeliver
  BY <1>4 DEF PollDeliver, Deliver, ListStep
<1>5. CASE StepDevDoPoll
  BY <1>5 DEF StepDevDoPoll, Deliver, ListStep
<1>6. CASE PollDequeue
  <2>1. PICK d : d = Head(work).dev
    OBVIOUS
  <2>2. d \in Devs /\ Head(queue[d]) \in Skb
    BY <1>6, <2>1, DequeueTimers
  <2>3. CASE d \in Rated
    <3>1. PICK t \in TxEnd(d, Head(queue[d])) : AddHiresTimer(DevPollTimer(d, adds), t)
      BY <1>6, <2>1, <2>3 DEF PollDequeue
    <3>2. t \in Jiffval
      BY <1>0, <2>2, <3>1, TxEndType
    <3>3. DevPollTimer(d, adds) \in Timers \ Pending
      BY <2>3, <3>1, DevPollIsFree DEF AddHiresTimer
    <3> QED BY <3>1, <3>2, <3>3 DEF ListStep
  <2>4. CASE d \notin Rated
    BY <1>6, <2>1, <2>4 DEF PollDequeue, ListStep
  <2> QED BY <2>3, <2>4
<1>7. CASE LoopFire \/ LoopReturn \/ LoopFinish
  BY <1>7 DEF LoopFire, LoopReturn, LoopFinish, ListStep
<1>8. ASSUME NEW c \in Script, ItemCommand(c) PROVE ListStep
  BY <1>8 DEF ItemCommand, ListStep
<1>9. ASSUME NEW t \in ScriptTimes, ItemTime(t) PROVE ListStep
  <2>1. t \in Jiffval /\ jv_add(now, t) \in Jiffval
    BY <1>0, ScriptTimesAssumption, JvAddType
  <2> QED BY <1>9, <2>1 DEF ItemTime, ListStep
<1>10. CASE ItemEnd
  BY <1>10, ScriptTimesAssumption DEF ItemEnd, ListStep
<1> QED BY <1>1, <1>2, <1>3, <1>4, <1>5, <1>6, <1>7, <1>8, <1>9, <1>10 DEF SimNext, Internal

(* What add_hires_timer puts into the list was not there.                  *)
LEMMA AddIsFresh ==
  ASSUME IInv, NEW id \in Timers \ Pending, NEW t \in Jiffval, AddHiresTimer(id, t),
         NEW i \in 1..Len(timers'), timers'[i].added = adds, adds' > adds
  PROVE  timers'[i].id \notin Pending
<1>1. Insert(timers, id, t) /\ timers \in Seq(Entry) /\ adds \in Nat /\ Stamped(timers, adds)
  BY DEF AddHiresTimer, IInv, TypeOK
<1>2. ~timer_lt(t, now)
  BY <1>1 DEF Insert
<1>3. PICK e : e = [id |-> id, jiffies |-> t.jiffies, ujiffies |-> t.ujiffies, added |-> adds]
  OBVIOUS
<1>4. e \in Entry /\ e.id = id
  BY <1>1, <1>3 DEF Entry, Jiffval
<1>5. PICK k \in 1..(Len(timers) + 1) : timers' = InsertAt(timers, k, e)
  BY <1>1, <1>2, <1>3 DEF Insert
<1>6. Events(timers') = Events(timers) \cup {e}
  BY <1>1, <1>4, <1>5, InsertAtEvents
<1>7. timers'[i] \in Events(timers')
  BY DEF Events
<1>8. \A f \in Events(timers) : f.added # adds
  <2> SUFFICES ASSUME NEW j \in 1..Len(timers) PROVE timers[j].added # adds
    BY DEF Events
  <2>1. timers[j].added < adds
    BY <1>1 DEF Stamped
  <2>2. timers[j] \in Entry
    BY <1>1, ElementOfSeq
  <2> QED BY <1>1, <2>1, <2>2 DEF Entry
<1> QED BY <1>4, <1>6, <1>7, <1>8

(* The devices and the commands never add a timer that is pending, which   *)
(* add_hires_timer does not check and all that is proved of the timer list *)
(* depends on.                                                             *)
THEOREM TimersUsedProperly == SimSpec => UsesTimerQueue
<1> DEFINE A == adds' > adds =>
                  \A i \in 1..Len(timers') :
                    timers'[i].added = adds => timers'[i].id \notin Pending
<1>1. SimInv /\ [SimNext]_simVars => [A]_simVars
  <2> SUFFICES ASSUME SimInv, SimNext PROVE A
    OBVIOUS
  <2>1. IInv /\ adds \in Nat /\ ListStep
    BY SimSteps DEF SimInv, IInv, TypeOK
  <2>2. ASSUME NEW id \in Timers \ Pending, NEW t \in Jiffval, AddHiresTimer(id, t) PROVE A
    BY <2>1, <2>2, AddIsFresh
  <2>3. CASE adds' = adds
    BY <2>1, <2>3
  <2> QED BY <2>1, <2>2, <2>3
          DEF ListStep, vars, CallerExits, Fire, Return, Finish, AdvanceTime
<1> QED BY <1>1, SimInvariant, PTL DEF SimSpec, UsesTimerQueue

(* The timer list in the simulator behaves as TimerQueue says it does on   *)
(* its own: whatever time the simulator passes to it is a time that the    *)
(* callers of TimerQueue may pass.                                         *)
THEOREM SimUsesList ==
  ASSUME Times = Jiffval
  PROVE  SimSpec => Spec
<1>1. SimInit => Init
  BY DEF SimInit
<1>2. SimInv /\ [SimNext]_simVars => [Next]_vars
  <2>1. ASSUME SimInv, SimNext PROVE [Next]_vars
    <3>1. ListStep
      BY <2>1, SimSteps
    <3>2. ASSUME NEW id \in Timers \ Pending, NEW t \in Jiffval, AddHiresTimer(id, t) PROVE Next
      BY <3>2 DEF Next
    <3>3. ASSUME NEW t \in Jiffval, AdvanceTime(t) PROVE Next
      BY <3>3 DEF Next
    <3>4. CASE CallerExits \/ Fire \/ Return \/ Finish
      BY <3>4 DEF Next
    <3> QED BY <3>1, <3>2, <3>3, <3>4 DEF ListStep
  <2>2. UNCHANGED simVars => UNCHANGED vars
    BY DEF simVars
  <2> QED BY <2>1, <2>2
<1> QED BY <1>1, <1>2, SimInvariant, PTL DEF SimSpec, Spec

(* So in the simulator the list is an event calendar, the clock never goes *)
(* backward, and advance_time runs every timer up to its target.           *)
THEOREM SimKeepsTime ==
  ASSUME Times = Jiffval
  PROVE  SimSpec => ImplementsCalendar /\ ClockMonotone /\ AdvanceComplete
  BY SimUsesList, CalendarImplemented, ClockNeverTurnsBack, AdvanceIsComplete, PTL

-----------------------------------------------------------------------------
(* Transmissions: each has an end, and END leaves nothing behind.  Until a *)
(* "poll" takes a packet off the wire of a rated device, each transmission *)
(* has exactly one end, and deliver finds its packet.                      *)

(* dev_do_poll is only called by advance_time, so no step but the firing   *)
(* of a timer brings it onto the stack.                                    *)
LEMMA NoneBelow ==
  ASSUME TransmissionsEnd, StackOK, work # << >>, NEW p \in Seq(WorkCalls),
         work' = p \o Tail(work), \A i \in 1..Len(p) : p[i].fn # "dev_do_poll"
  PROVE  /\ \A i \in 1..Len(work') : work'[i].fn # "dev_do_poll"
         /\ \A d : ~Completing(d)'
<1>1. ASSUME NEW i \in 1..Len(work') PROVE work'[i].fn # "dev_do_poll"
  <2>1. CASE i \in 1..Len(p)
    BY <2>1, PushWork
  <2>2. CASE i \notin 1..Len(p)
    <3>1. i - Len(p) + 1 \in 1..Len(work) /\ i - Len(p) + 1 # 1
          /\ work'[i] = work[i - Len(p) + 1]
      BY <2>2, PushWork
    <3> QED BY <3>1 DEF TransmissionsEnd
  <2> QED BY <2>1, <2>2
<1>2. ASSUME NEW d, Completing(d)' PROVE FALSE
  <2>1. work' \in Seq(WorkCalls) /\ work' # << >>
    BY <1>2, PushWork DEF Completing
  <2>2. 1 \in 1..Len(work') /\ Head(work') = work'[1]
    BY <2>1, LenProperties, EmptySeq
  <2> QED BY <1>1, <1>2, <2>2 DEF Completing, DevDoPoll
<1> QED BY <1>1, <1>2

(* A step that starts no transmission of a rated device, and ends one only *)
(* as dev_do_poll, or as a "poll" that is remembered in stolen.            *)
LEMMA PushKeepsEnds ==
  ASSUME TransmissionsEnd, StackOK, work # << >>, NEW p \in Seq(WorkCalls),
         work' = p \o Tail(work), pc # "exit",
         \A i \in 1..Len(p) : p[i].fn # "dev_do_poll",
         \A id \in Pending \cup Pending' :
           id.fn = "dev_do_poll" => id \in Pending /\ id \in Pending',
         crashed' => pc' = "exit",
         \A d \in Rated : txing'[d] # BusyHack,
         stolen => stolen',
         pc' # "exit" => \A d \in Rated :
           /\ OnWire(d)' => OnWire(d) /\ ~Completing(d)
           /\ ~stolen' /\ OnWire(d) /\ ~Completing(d) => OnWire(d)'
  PROVE  TransmissionsEnd'
<1>1. /\ \A i \in 1..Len(work') : work'[i].fn # "dev_do_poll"
      /\ \A d : ~Completing(d)'
  BY NoneBelow
<1>2. \A d \in Devs : TimerPending(d)' <=> TimerPending(d)
  BY DEF TimerPending
<1>3. ~stolen' => \A y, z \in Pending' :
        y.fn = "dev_do_poll" /\ z.fn = "dev_do_poll" /\ y.dev = z.dev => y = z
  BY DEF TransmissionsEnd
<1>4. ASSUME pc' # "exit", NEW d \in Devs
      PROVE  /\ d \in Rated /\ OnWire(d)' => TimerPending(d)' \/ Completing(d)'
             /\ ~stolen' /\ (TimerPending(d)' \/ Completing(d)') => d \in Rated /\ OnWire(d)'
  <2>1. d \in Rated /\ OnWire(d) => TimerPending(d) \/ Completing(d)
    BY DEF TransmissionsEnd
  <2>2. d \in Rated /\ OnWire(d)' => TimerPending(d)'
    BY <1>2, <1>4, <2>1
  <2>3. ASSUME ~stolen', TimerPending(d) PROVE d \in Rated /\ OnWire(d)'
    <3>1. ~stolen /\ d \in Rated /\ OnWire(d)
      BY <2>3 DEF TransmissionsEnd
    <3>2. ASSUME Completing(d) PROVE FALSE
      <4>1. 1 \in 1..Len(work) /\ work[1] = DevDoPoll(d)
        BY <3>2, TopWork DEF Completing
      <4>2. work[1].fn = "dev_do_poll" /\ work[1].dev = d
        BY <4>1 DEF DevDoPoll
      <4> QED BY <2>3, <3>1, <4>1, <4>2 DEF TransmissionsEnd
    <3> QED BY <1>4, <2>3, <3>1, <3>2
  <2> QED BY <1>1, <1>2, <2>2, <2>3
<1> QED BY <1>1, <1>3, <1>4 DEF TransmissionsEnd

(* A step that leaves the devices and the stack alone.                     *)
LEMMA SameKeepsEnds ==
  ASSUME TransmissionsEnd, UNCHANGED <<netVars, work, crashed, stolen>>, Pending' = Pending, pc # "exit"
  PROVE  TransmissionsEnd'
<1>1. \A d : TimerPending(d)' <=> TimerPending(d)
  BY DEF TimerPending
<1>2. \A d : (Completing(d)' <=> Completing(d)) /\ (OnWire(d)' <=> OnWire(d))
  BY DEF Completing, OnWire, netVars
<1> QED BY <1>1, <1>2 DEF TransmissionsEnd, netVars

(* A step that leaves the wires alone.                                     *)
LEMMA QuietKeepsEnds ==
  ASSUME SimInv, TransmissionsEnd, Callable, work # << >>, work[1].fn # "dev_do_poll",
         NEW p \in Seq(WorkCalls), work' = p \o Tail(work),
         \A i \in 1..Len(p) : p[i].fn # "dev_do_poll",
         \A id \in Pending \cup Pending' :
           id.fn = "dev_do_poll" => id \in Pending /\ id \in Pending',
         UNCHANGED <<txing, crashed, stolen>>
  PROVE  TransmissionsEnd'
<1>1. StackOK /\ pc # "exit"
  BY DEF SimInv, Callable
<1>2. crashed' => pc' = "exit"
  BY <1>1 DEF TransmissionsEnd
<1>3. \A d : ~Completing(d)
  BY <1>1, TopWork DEF Completing, DevDoPoll
<1>4. \A d \in Rated : txing'[d] # BusyHack /\ (OnWire(d)' <=> OnWire(d)) /\ ~Completing(d)
  BY <1>3 DEF TransmissionsEnd, OnWire
<1> QED BY <1>1, <1>2, <1>4, PushKeepsEnds

LEMMA RunSendEnds ==
  ASSUME SimInv, TransmissionsEnd, RunSend
  PROVE  TransmissionsEnd'
<1>0. StackOK /\ Callable /\ work # << >> /\ UNCHANGED <<crashed, stolen>>
  BY DEF SimInv, RunSend, Call
<1>1. Head(work) = work[1] /\ work[1] \in WorkCalls /\ work[1].fn = "cmd_run"
  BY <1>0, TopWork DEF RunSend, Call
<1>2. PICK c : c = Head(work).cmd
  OBVIOUS
<1>3. c.dev \in Devs \cup {None}
  BY <1>1, <1>2, CallFields, ScriptAssumption DEF RunSend
<1>4. CASE c.dev = None /\ Len(DevBase) # 1
  <2>1. CallerExits /\ UNCHANGED <<netVars, work, crashed, stolen>>
    BY <1>2, <1>4 DEF RunSend
  <2>2. Pending' = Pending /\ pc # "exit"
    BY <1>0, <2>1 DEF CallerExits, Callable, Pending
  <2> QED BY <2>1, <2>2, SameKeepsEnds
<1>5. CASE ~(c.dev = None /\ Len(DevBase) # 1)
  <2>1. work' = KernelPoll(c.dev, FALSE) \o Tail(work) /\ UNCHANGED <<vars, txing>>
    BY <1>2, <1>5 DEF RunSend
  <2>2. PICK p : p = KernelPoll(c.dev, FALSE)
    OBVIOUS
  <2>3. /\ p \in Seq(WorkCalls)
        /\ \A i \in 1..Len(p) : \E x \in Devs : p[i] = PollDevice(x, FALSE)
    BY <1>3, <2>2, KernelPollFacts
  <2>4. \A i \in 1..Len(p) : p[i].fn # "dev_do_poll" /\ ~p[i].unbusy
    BY <2>3, PlainPollFields
  <2>5. Pending' = Pending
    BY <2>1 DEF vars, Pending
  <2> QED BY <1>0, <1>1, <2>1, <2>2, <2>3, <2>4, <2>5, QuietKeepsEnds
<1> QED BY <1>4, <1>5

LEMMA RunPollEnds ==
  ASSUME SimInv, TransmissionsEnd, RunPoll
  PROVE  TransmissionsEnd'
<1>0. StackOK /\ Callable /\ work # << >> /\ UNCHANGED <<vars, txing, crashed, stolen>>
  BY DEF SimInv, RunPoll, Call, netVars
<1>1. Head(work) = work[1] /\ work[1] \in WorkCalls /\ work[1].fn = "cmd_run"
  BY <1>0, TopWork DEF RunPoll, Call
<1>2. PICK d : d = Head(work).cmd.dev
  OBVIOUS
<1>3. d \in Devs \cup {None}
  BY <1>1, <1>2, CallFields, ScriptAssumption DEF RunPoll
<1>4. PICK p : p = KernelPoll(d, TRUE)
  OBVIOUS
<1>5. /\ p \in Seq(WorkCalls)
      /\ \A i \in 1..Len(p) : \E x \in Devs : p[i] = PollDevice(x, TRUE)
  BY <1>3, <1>4, KernelPollFacts
<1>6. \A i \in 1..Len(p) : p[i].fn # "dev_do_poll"
  <2>1. \A x \in Devs : PollDevice(x, TRUE).fn # "dev_do_poll"
    BY DEF PollDevice
  <2> HIDE DEF PollDevice
  <2> QED BY <1>5, <2>1
<1>7. work' = p \o Tail(work) /\ Pending' = Pending
  BY <1>0, <1>2, <1>4 DEF RunPoll, vars, Pending
<1> QED BY <1>0, <1>1, <1>5, <1>6, <1>7, QuietKeepsEnds

LEMMA RunEveryEnds ==
  ASSUME SimInv, TransmissionsEnd, RunEvery
  PROVE  TransmissionsEnd'
<1>0. StackOK /\ Callable /\ work # << >> /\ UNCHANGED <<vars, txing, crashed, stolen>>
  BY DEF SimInv, RunEvery, Call, netVars
<1>1. /\ Head(work) = work[1] /\ work[1] \in WorkCalls /\ work[1].fn = "cmd_run"
      /\ Head(work).cmd.type = "every"
  BY <1>0, TopWork DEF RunEvery, Call
<1>2. PICK e : e = [cmd |-> Head(work).cmd, addr |-> CHOOSE a \in Unused : TRUE]
  OBVIOUS
<1>3. e \in EveryStructs
  <2>1. Unused # {}
    BY DEF RunEvery
  <2>2. (CHOOSE a \in Unused : TRUE) \in Addrs
    BY <2>1 DEF Unused
  <2> QED BY <1>1, <1>2, <2>2, CallFields DEF EveryStructs
<1>4. PICK p : p = <<DoEvery(e)>>
  OBVIOUS
<1>5. p \in Seq(WorkCalls) /\ \A i \in 1..Len(p) : p[i] = DoEvery(e)
  BY <1>3, <1>4, CallTypes
<1>6. \A i \in 1..Len(p) : p[i].fn = "do_every"
  BY <1>5 DEF DoEvery
<1>7. work' = p \o Tail(work) /\ Pending' = Pending
  BY <1>0, <1>2, <1>4 DEF RunEvery, vars, Pending
<1> QED BY <1>0, <1>1, <1>5, <1>6, <1>7, QuietKeepsEnds

LEMMA StepDoEveryEnds ==
  ASSUME SimInv, TransmissionsEnd, StepDoEvery
  PROVE  TransmissionsEnd'
<1>0. StackOK /\ Callable /\ work # << >> /\ UNCHANGED <<vars, txing, crashed, stolen>>
  BY DEF SimInv, StepDoEvery, Call, netVars
<1>1. /\ Head(work) = work[1] /\ work[1] \in WorkCalls /\ work[1].fn = "do_every"
      /\ Tail(work) = << >> \o Tail(work) /\ << >> \in Seq(WorkCalls)
  BY <1>0, TopWork DEF StepDoEvery, Call
<1>2. PICK e : e = Head(work).every
  OBVIOUS
<1>3. e \in EveryStructs /\ e.cmd.cmd \in Script
  BY <1>1, <1>2, CallFields, ScriptAssumption DEF EveryStructs, IsEvery
<1>4. PICK p : p = IF jiffval_cmp(now, e.cmd.until) > 0
                     THEN << >> ELSE <<CmdRun(e.cmd.cmd), Rearm(e)>>
  OBVIOUS
<1>5. /\ p \in Seq(WorkCalls)
      /\ \A i \in 1..Len(p) : p[i] = CmdRun(e.cmd.cmd) \/ p[i] = Rearm(e)
  BY <1>1, <1>3, <1>4, CallTypes
<1>6. \A i \in 1..Len(p) : p[i].fn \in {"cmd_run", "rearm"}
  BY <1>5 DEF CmdRun, Rearm
<1>7. work' = p \o Tail(work) /\ Pending' = Pending
  BY <1>0, <1>1, <1>2, <1>4 DEF StepDoEvery, vars, Pending
<1> QED BY <1>0, <1>1, <1>5, <1>6, <1>7, QuietKeepsEnds

LEMMA StepRearmEnds ==
  ASSUME SimInv, TransmissionsEnd, StepRearm
  PROVE  TransmissionsEnd'
<1>0. /\ IInv /\ StackOK /\ Callable /\ work # << >> /\ Call("rearm")
      /\ UNCHANGED <<txing, crashed, stolen>>
  BY DEF SimInv, StepRearm, Call, netVars
<1>1. /\ Head(work) = work[1] /\ work[1].fn = "rearm"
      /\ Tail(work) = << >> \o Tail(work) /\ << >> \in Seq(WorkCalls)
  BY <1>0, TopWork DEF Call
<1>2. work' = << >> \o Tail(work) /\ \A i \in 1..Len(<< >>) : FALSE
  BY <1>1 DEF StepRearm
<1>3. PICK id : id = EveryTimer(Head(work).every)
  OBVIOUS
<1>4. id.fn = "do_every" /\ (Pending' = Pending \/ Pending' = Pending \cup {id})
  <2>1. CASE terminating
    BY <1>3, <2>1 DEF StepRearm, EveryTimer, vars, Pending
  <2>2. CASE ~terminating
    <3>1. AddHiresTimer(id, EveryNext(Head(work).every.cmd.interval))
      BY <1>3, <2>2 DEF StepRearm
    <3>2. id \in Timers \ Pending /\ EveryNext(Head(work).every.cmd.interval) \in Jiffval
      BY <1>0, <1>3, RearmIsFree
    <3>3. Pending' = Pending \/ Pending' = Pending \cup {id}
      BY <1>0, <3>1, <3>2, AddEffect
    <3> QED BY <1>3, <3>3 DEF EveryTimer
  <2> QED BY <2>1, <2>2
<1> QED BY <1>0, <1>1, <1>2, <1>4, QuietKeepsEnds

LEMMA PollSkipEnds ==
  ASSUME SimInv, TransmissionsEnd, PollSkip
  PROVE  TransmissionsEnd'
<1>0. StackOK /\ Callable /\ work # << >> /\ UNCHANGED <<vars, txing, crashed, stolen>>
  BY DEF SimInv, PollSkip, Call, netVars
<1>1. /\ Head(work) = work[1] /\ work[1].fn = "kernel_poll_device"
      /\ Tail(work) = << >> \o Tail(work) /\ << >> \in Seq(WorkCalls)
  BY <1>0, TopWork DEF PollSkip, Call
<1>2. work' = << >> \o Tail(work) /\ \A i \in 1..Len(<< >>) : FALSE
  BY <1>1 DEF PollSkip
<1>3. Pending' = Pending
  BY <1>0 DEF vars, Pending
<1> QED BY <1>0, <1>1, <1>2, <1>3, QuietKeepsEnds

(* What deliver does to the wires.                                         *)
LEMMA DeliverWires ==
  ASSUME NetOK, NEW d \in Devs, Deliver(d)
  PROVE  \/ pc' = "exit" /\ txing' = txing
         \/ /\ \A x \in Devs : txing'[x] = IF x = d THEN None ELSE txing[x]
            /\ crashed' = crashed
<1>1. CASE UNCHANGED netVars /\ CallerExits
  BY <1>1 DEF CallerExits, netVars
<1>2. CASE txing' = [txing EXCEPT ![d] = None] /\ crashed' = crashed
  BY <1>2 DEF NetOK
<1> QED BY <1>1, <1>2 DEF Deliver

(* dev_do_poll ends what it is called for, and stolen tells if "poll" ends *)
(* a transmission.                                                         *)
LEMMA DeliverEnds ==
  ASSUME SimInv, TransmissionsEnd, Callable, work # << >>, NEW d \in Devs, Deliver(d),
         work' = <<PollDevice(d, FALSE)>> \o Tail(work),
         stolen => stolen',
         \A x \in Rated : Completing(x) => x = d,
         ~stolen' /\ d \in Rated /\ OnWire(d) => Completing(d)
  PROVE  TransmissionsEnd'
<1>0. IInv /\ NetOK /\ StackOK /\ pc # "exit" /\ ~crashed
  BY DEF SimInv, Callable, TransmissionsEnd
<1>1. Pending' = Pending
  BY <1>0, DeliverEffect
<1>2. PICK c : c = PollDevice(d, FALSE)
  OBVIOUS
<1>3. c \in WorkCalls
  BY <1>2, CallTypes
<1>4. PICK p : p = <<c>>
  OBVIOUS
<1>5. work' = p \o Tail(work) /\ p \in Seq(WorkCalls) /\ \A i \in 1..Len(p) : p[i] = c
  <2>1. p \in Seq(WorkCalls) /\ \A i \in 1..Len(p) : p[i] = c
    BY <1>3, <1>4
  <2> QED BY <1>2, <1>4, <2>1
<1>6. \A i \in 1..Len(p) : p[i].fn # "dev_do_poll" /\ ~p[i].unbusy
  BY <1>2, <1>5, PlainPollFields
<1>7. crashed' => pc' = "exit"
  BY <1>0, DeliverWires DEF TransmissionsEnd
<1>8. /\ \A x \in Rated : txing'[x] # BusyHack
      /\ pc' # "exit" => \A x \in Rated :
           /\ OnWire(x)' => OnWire(x) /\ ~Completing(x)
           /\ ~stolen' /\ OnWire(x) /\ ~Completing(x) => OnWire(x)'
  BY <1>0, DeliverWires, RatedAssumption, NoneAssumption DEF TransmissionsEnd, OnWire
<1> QED BY <1>0, <1>1, <1>5, <1>6, <1>7, <1>8, PushKeepsEnds

LEMMA PollDeliverFacts ==
  ASSUME SimInv, TransmissionsEnd, PollDeliver
  PROVE  LET d == Head(work).dev IN
         /\ d \in Devs /\ txing[d] # None
         /\ stolen' = (stolen \/ (d \in Rated /\ OnWire(d)))
         /\ \A x : ~Completing(x)
<1>0. StackOK /\ work # << >>
  BY DEF SimInv, PollDeliver, Call
<1>1. /\ Head(work) = work[1] /\ work[1] \in WorkCalls /\ work[1].fn = "kernel_poll_device"
      /\ 1 \in 1..Len(work) /\ work[1].unbusy /\ txing[work[1].dev] # None
  BY <1>0, TopWork DEF PollDeliver, Call
<1>2. work[1].dev \in Devs
  BY <1>1, CallFields
<1>3. stolen' = (stolen \/ (Head(work).dev \in Rated /\ OnWire(Head(work).dev)))
  BY DEF PollDeliver
<1> QED BY <1>1, <1>2, <1>3 DEF Completing, DevDoPoll

LEMMA PollDeliverEnds ==
  ASSUME SimInv, TransmissionsEnd, PollDeliver
  PROVE  TransmissionsEnd'
<1>1. PICK d : d = Head(work).dev
  OBVIOUS
<1>2. /\ d \in Devs /\ \A x : ~Completing(x)
      /\ stolen' = (stolen \/ (d \in Rated /\ OnWire(d)))
  BY <1>1, PollDeliverFacts
<1>3. /\ Callable /\ work # << >> /\ Deliver(d)
      /\ work' = <<PollDevice(d, FALSE)>> \o Tail(work)
  BY <1>1 DEF PollDeliver, Call
<1> QED BY <1>2, <1>3, DeliverEnds

LEMMA DevDoPollFacts ==
  ASSUME SimInv, TransmissionsEnd, StepDevDoPoll
  PROVE  LET d == Head(work).dev IN
         /\ d \in Devs /\ (~stolen => OnWire(d))
         /\ \A x : Completing(x) <=> x = d
<1>0. StackOK /\ work # << >> /\ pc # "exit"
  BY DEF SimInv, StepDevDoPoll, Call, Callable
<1>1. /\ Head(work) = work[1] /\ work[1] \in WorkCalls /\ work[1].fn = "dev_do_poll"
  BY <1>0, TopWork DEF StepDevDoPoll, Call
<1>2. work[1].dev \in Devs /\ work[1] = DevDoPoll(work[1].dev)
  BY <1>1 DEF WorkCalls, DevDoPoll
<1>3. Completing(work[1].dev)
  BY <1>0, <1>1, <1>2 DEF Completing
<1>4. ~stolen => OnWire(work[1].dev)
  BY <1>0, <1>2, <1>3 DEF TransmissionsEnd
<1>5. \A x : Completing(x) => x = work[1].dev
  BY <1>1 DEF Completing, DevDoPoll
<1> QED BY <1>1, <1>2, <1>3, <1>4, <1>5

LEMMA StepDevDoPollEnds ==
  ASSUME SimInv, TransmissionsEnd, StepDevDoPoll
  PROVE  TransmissionsEnd'
<1>1. PICK d : d = Head(work).dev
  OBVIOUS
<1>2. d \in Devs /\ (\A x : Completing(x) <=> x = d) /\ stolen' = stolen
  BY <1>1, DevDoPollFacts DEF StepDevDoPoll
<1>3. /\ Callable /\ work # << >> /\ Deliver(d)
      /\ work' = <<PollDevice(d, FALSE)>> \o Tail(work)
  BY <1>1 DEF StepDevDoPoll, Call
<1> QED BY <1>2, <1>3, DeliverEnds

(* kernel_poll_device starts a transmission, and sets its timer.           *)
LEMMA PollDequeueEnds ==
  ASSUME SimInv, TransmissionsEnd, PollDequeue
  PROVE  TransmissionsEnd'
<1>0. /\ IInv /\ NetOK /\ StackOK /\ work # << >> /\ pc # "exit" /\ UNCHANGED <<crashed, stolen>>
      /\ ~crashed
  BY DEF SimInv, PollDequeue, Call, Callable, TransmissionsEnd
<1>1. /\ Head(work) = work[1] /\ work[1] \in WorkCalls /\ work[1].fn = "kernel_poll_device"
      /\ Tail(work) = << >> \o Tail(work) /\ << >> \in Seq(WorkCalls)
  BY <1>0, TopWork DEF PollDequeue, Call
<1>2. work' = << >> \o Tail(work) /\ \A i \in 1..Len(<< >>) : FALSE
  BY <1>1 DEF PollDequeue
<1>3. PICK d : d = Head(work).dev
  OBVIOUS
<1>4. PICK id : id = DevPollTimer(d, adds)
  OBVIOUS
<1>5. /\ d \in Devs /\ CanSend(d) /\ Head(queue[d]) \in Skb
      /\ \/ d \notin Rated /\ Pending' = Pending
         \/ pc' = "exit" /\ Pending' = Pending
         \/ d \in Rated /\ Pending' = Pending \cup {id}
  BY <1>3, <1>4, DequeueTimers
<1>6. \A x \in Devs : txing'[x] = IF x = d THEN Head(queue[d]) ELSE txing[x]
  BY <1>0, <1>3, <1>5 DEF PollDequeue, NetOK
<1>7. /\ \A x \in Devs : x # d => (OnWire(x)' <=> OnWire(x))
      /\ OnWire(d)' /\ ~OnWire(d)
      /\ \A x \in Rated : txing'[x] # BusyHack
  BY <1>5, <1>6, RatedAssumption, NoneAssumption DEF OnWire, CanSend, TransmissionsEnd
<1>8. \A x : ~Completing(x)
  BY <1>1 DEF Completing, DevDoPoll
<1>9. CASE Pending' = Pending /\ (d \notin Rated \/ pc' = "exit")
  <2>1. pc' # "exit" => \A x \in Rated : (OnWire(x)' <=> OnWire(x)) /\ ~Completing(x)
    BY <1>7, <1>8, <1>9, RatedAssumption
  <2> QED BY <1>0, <1>1, <1>2, <1>7, <1>9, <2>1, PushKeepsEnds
<1>10. CASE d \in Rated /\ Pending' = Pending \cup {id}
  <2>1. /\ \A i \in 1..Len(work') : work'[i].fn # "dev_do_poll"
        /\ \A x : ~Completing(x)'
    BY <1>0, <1>1, <1>2, NoneBelow
  <2>2. id.fn = "dev_do_poll" /\ id.dev = d
    BY <1>4 DEF DevPollTimer
  <2>3. ~stolen => ~TimerPending(d)
    BY <1>0, <1>5, <1>7 DEF TransmissionsEnd
  <2>4. ~stolen => \A y, z \in Pending' :
          y.fn = "dev_do_poll" /\ z.fn = "dev_do_poll" /\ y.dev = z.dev => y = z
    BY <1>10, <2>2, <2>3 DEF TransmissionsEnd, TimerPending
  <2>5. \A x \in Devs : TimerPending(x)' <=> TimerPending(x) \/ x = d
    BY <1>10, <2>2 DEF TimerPending
  <2>6. ASSUME NEW x \in Devs
        PROVE  /\ x \in Rated /\ OnWire(x)' => TimerPending(x)'
               /\ ~stolen /\ TimerPending(x)' => x \in Rated /\ OnWire(x)'
    BY <1>0, <1>7, <1>8, <1>10, <2>5 DEF TransmissionsEnd
  <2> QED BY <1>0, <1>7, <2>1, <2>4, <2>6 DEF TransmissionsEnd
<1> QED BY <1>5, <1>9, <1>10

(* The timer has expired and dev_do_poll is called.                        *)
LEMMA LoopFireEnds ==
  ASSUME SimInv, TransmissionsEnd, LoopFire
  PROVE  TransmissionsEnd'
<1>0. IInv /\ StackOK /\ Fire /\ UNCHANGED <<txing, crashed, stolen>>
  BY DEF SimInv, LoopFire, netVars
<1>1. PICK id : id = Head(timers).id
  OBVIOUS
<1>2. /\ id \in Pending /\ Pending' = Pending \ {id} /\ pc = "loop" /\ pc' = "callback"
      /\ work = << >> /\ ~crashed
  BY <1>0, <1>1, FireEffect DEF StackOK, TransmissionsEnd
<1>3. \A x : ~Completing(x) /\ (OnWire(x)' <=> OnWire(x))
  BY <1>0, <1>2 DEF Completing, OnWire
<1>4. PICK c : c = TimerCall(id)
  OBVIOUS
<1>5. work' = <<c>> \o KernelPoll(None, FALSE)
  BY <1>1, <1>4 DEF LoopFire
<1>6. \/ id.fn = "do_every" /\ c = DoEvery(id.every) /\ c \in WorkCalls
      \/ id.fn = "dev_do_poll" /\ c = DevDoPoll(id.dev) /\ c \in WorkCalls
  BY <1>0, <1>2, <1>4, PendingFacts, CallTypes, RatedAssumption DEF TimerCall
<1>7. /\ work' \in Seq(WorkCalls) /\ Len(work') \in Nat /\ 1 \in 1..Len(work') /\ work'[1] = c
      /\ \A i \in 1..Len(work') : i # 1 => \E x \in Devs : work'[i] = PollDevice(x, FALSE)
  BY <1>5, <1>6, FireStack
<1>8. \A i \in 1..Len(work') : i # 1 => work'[i].fn # "dev_do_poll" /\ ~work'[i].unbusy
  BY <1>7, PlainPollFields
<1>9. \A x : Completing(x)' <=> c = DevDoPoll(x)
  <2>1. work' # << >> /\ Head(work') = work'[1]
    BY <1>7, EmptySeq
  <2> QED BY <1>7, <2>1 DEF Completing
<1>10. ~stolen' => \A y, z \in Pending' :
         y.fn = "dev_do_poll" /\ z.fn = "dev_do_poll" /\ y.dev = z.dev => y = z
  BY <1>0, <1>2 DEF TransmissionsEnd
<1>11. /\ c.fn = "dev_do_poll" /\ ~stolen => \A x : x = c.dev => ~TimerPending(x)'
       /\ \A x \in Devs : TimerPending(x) <=> TimerPending(x)' \/ Completing(x)'
  <2>1. CASE id.fn = "do_every"
    <3>1. c.fn # "dev_do_poll" /\ \A x : c # DevDoPoll(x)
      BY <1>6, <2>1 DEF DoEvery, DevDoPoll
    <3>2. \A x : TimerPending(x)' <=> TimerPending(x)
      BY <1>2, <2>1 DEF TimerPending
    <3> QED BY <1>7, <1>8, <1>9, <3>1, <3>2
  <2>2. CASE id.fn = "dev_do_poll"
    <3>1. c = DevDoPoll(id.dev) /\ c.dev = id.dev /\ \A x : c = DevDoPoll(x) <=> x = id.dev
      BY <1>6, <2>2 DEF DevDoPoll
    <3>2. TimerPending(id.dev) /\ (~stolen => ~TimerPending(id.dev)')
      BY <1>2, <2>2 DEF TimerPending, TransmissionsEnd
    <3>3. \A x : x # id.dev => (TimerPending(x)' <=> TimerPending(x))
      BY <1>2, <2>2 DEF TimerPending
    <3> QED BY <1>7, <1>8, <1>9, <3>1, <3>2, <3>3
  <2> QED BY <1>6, <2>1, <2>2
<1>12. \A x \in Devs :
         /\ x \in Rated /\ OnWire(x)' => TimerPending(x)' \/ Completing(x)'
         /\ ~stolen' /\ (TimerPending(x)' \/ Completing(x)') => x \in Rated /\ OnWire(x)'
  BY <1>0, <1>2, <1>3, <1>11 DEF TransmissionsEnd
<1>13. \A x \in Rated : txing'[x] # BusyHack
  BY <1>0 DEF TransmissionsEnd
<1>14. (\A i \in 1..Len(work) : work[i].fn = "dev_do_poll" =>
           i = 1 /\ (~stolen => ~TimerPending(work[i].dev)))'
  BY <1>0, <1>7, <1>8, <1>11
<1> QED BY <1>0, <1>2, <1>10, <1>12, <1>13, <1>14 DEF TransmissionsEnd

LEMMA ItemCommandEnds ==
  ASSUME SimInv, TransmissionsEnd, NEW c \in Script, ItemCommand(c)
  PROVE  TransmissionsEnd'
<1>0. pc = "script" /\ work = << >> /\ UNCHANGED <<netVars, crashed, stolen>>
  BY DEF ItemCommand, Item
<1>1. CASE c.type = "every" /\ terminating
  <2>1. CallerExits /\ UNCHANGED work
    BY <1>1 DEF ItemCommand
  <2>2. Pending' = Pending
    BY <2>1 DEF CallerExits, Pending
  <2> QED BY <1>0, <2>1, <2>2, SameKeepsEnds
<1>2. CASE ~(c.type = "every" /\ terminating)
  <2>1. UNCHANGED vars /\ work' = <<CmdRun(c)>>
    BY <1>2 DEF ItemCommand
  <2>2. Pending' = Pending /\ pc' = pc
    BY <2>1 DEF vars, Pending
  <2>3. \A i \in 1..Len(work') : work'[i] = CmdRun(c)
    BY <2>1
  <2>4. \A i \in 1..Len(work') : work'[i].fn = "cmd_run"
    BY <2>3 DEF CmdRun
  <2>5. \A d : ~Completing(d) /\ ~Completing(d)'
    BY <1>0, <2>1 DEF Completing, CmdRun, DevDoPoll
  <2>6. \A d : (TimerPending(d)' <=> TimerPending(d)) /\ (OnWire(d)' <=> OnWire(d))
    BY <1>0, <2>2 DEF TimerPending, OnWire, netVars
  <2>7. \A d \in Devs :
          /\ d \in Rated /\ OnWire(d)' => TimerPending(d)' \/ Completing(d)'
          /\ ~stolen' /\ (TimerPending(d)' \/ Completing(d)') => d \in Rated /\ OnWire(d)'
    BY <1>0, <2>5, <2>6 DEF TransmissionsEnd
  <2>8. ~crashed' /\ \A d \in Rated : txing'[d] # BusyHack
    BY <1>0 DEF TransmissionsEnd, netVars
  <2> QED BY <1>0, <2>2, <2>4, <2>7, <2>8 DEF TransmissionsEnd
<1> QED BY <1>1, <1>2

(* The steps between two calls: advance_time, and the items that start it. *)
LEMMA ClockEnds ==
  ASSUME SimInv, TransmissionsEnd,
         \/ LoopReturn \/ LoopFinish \/ ItemEnd
         \/ \E t \in ScriptTimes : ItemTime(t)
  PROVE  TransmissionsEnd'
<1>1. UNCHANGED <<netVars, work, crashed, stolen>> /\ timers' = timers /\ pc # "exit"
  BY DEF LoopReturn, LoopFinish, ItemEnd, ItemTime, Item, Return, Finish, CallerExits, AdvanceTime
<1>2. Pending' = Pending
  BY <1>1 DEF Pending
<1> QED BY <1>1, <1>2, SameKeepsEnds

(* A step that ends the program by a NULL pointer is a delivery to a       *)
(* device without host.                                                    *)
LEMMA CrashExplained ==
  ASSUME NetOK, NEW d \in Devs, txing[d] # None, Deliver(d), ~crashed, crashed'
  PROVE  NoCrash'
<1>1. "crash" \in Fates(d) /\ UNCHANGED netVars
  BY DEF Deliver
<1>2. OnWire(d)
  BY <1>1, FatesFacts DEF OnWire
<1>3. PICK g \in Devs : HostOf[g] = None /\ Peer[g] = d /\ txing[d].pkt \notin Short
  BY <1>1, <1>2, FatesFacts
<1>4. Peer[g] # None /\ OnWire(Peer[g])' /\ (txing[Peer[g]].pkt \notin Short)'
  BY <1>1, <1>2, <1>3, NoneAssumption DEF OnWire, netVars
<1> QED BY <1>3, <1>4 DEF NoCrash

LEMMA CrashKept ==
  ASSUME SimInv, TransmissionsEnd, NoCrash, SimNext
  PROVE  NoCrash'
<1>1. pc # "exit"
  BY DEF SimNext, Internal, RunSend, RunPoll, RunEvery, StepDoEvery, StepRearm, PollDeliver,
         PollSkip, PollDequeue, StepDevDoPoll, LoopFire, LoopReturn, LoopFinish, ItemCommand,
         ItemTime, ItemEnd, Item, Call, Callable, Fire, Return, Finish
<1>2. ~crashed
  BY <1>1 DEF TransmissionsEnd
<1>3. CASE crashed' = crashed
  BY <1>2, <1>3 DEF NoCrash
<1>4. CASE crashed' /\ PollDeliver
  <2>1. PICK d : d = Head(work).dev
    OBVIOUS
  <2>2. d \in Devs /\ txing[d] # None /\ Deliver(d)
    BY <1>4, <2>1, PollDeliverFacts DEF PollDeliver
  <2> QED BY <1>2, <1>4, <2>2, CrashExplained DEF SimInv
<1>5. CASE crashed' /\ StepDevDoPoll
  <2>1. PICK d : d = Head(work).dev
    OBVIOUS
  <2>2. d \in Devs /\ (~stolen => txing[d] # None) /\ Deliver(d) /\ stolen' = stolen
    BY <1>5, <2>1, DevDoPollFacts DEF StepDevDoPoll, OnWire
  <2>3. CASE stolen
    BY <2>2, <2>3 DEF NoCrash
  <2>4. CASE ~stolen
    BY <1>2, <1>5, <2>2, <2>4, CrashExplained DEF SimInv
  <2> QED BY <2>3, <2>4
<1>6. CASE ~crashed'
  BY <1>6 DEF NoCrash
<1> QED BY <1>3, <1>4, <1>5, <1>6
        DEF SimNext, Internal, RunSend, RunPoll, RunEvery, StepDoEvery, StepRearm,
            PollSkip, PollDequeue, LoopFire, LoopReturn, LoopFinish, ItemCommand, ItemTime, ItemEnd

(* Every transmission of a rated device has its timer or its dev_do_poll,  *)
(* and every crash its missing host or its "poll" of a busy wire, for any  *)
(* script.                                                                 *)
THEOREM TransmissionsInvariant == SimSpec => [](SimInv /\ TransmissionsEnd /\ NoCrash)
<1>1. SimInit => TransmissionsEnd /\ NoCrash
  <2> SUFFICES ASSUME SimInit PROVE TransmissionsEnd /\ NoCrash
    OBVIOUS
  <2>1. /\ work = << >> /\ timers = << >> /\ ~crashed
        /\ txing = [d \in Devs |-> IF d \in Rated THEN None ELSE BusyHack]
    BY DEF SimInit, Init
  <2>2. Pending = {} /\ \A i \in 1..Len(work) : FALSE
    BY <2>1 DEF Pending
  <2>3. \A d \in Devs : ~OnWire(d) /\ ~TimerPending(d) /\ ~Completing(d)
    BY <2>1, <2>2 DEF OnWire, TimerPending, Completing
  <2>4. \A d \in Rated : txing[d] # BusyHack
    BY <2>1, RatedAssumption, NoneAssumption
  <2> QED BY <2>1, <2>2, <2>3, <2>4 DEF TransmissionsEnd, NoCrash
<1>2. SimInv /\ TransmissionsEnd /\ NoCrash /\ [SimNext]_simVars => TransmissionsEnd' /\ NoCrash'
  <2> SUFFICES ASSUME SimInv, TransmissionsEnd, NoCrash, [SimNext]_simVars
               PROVE  TransmissionsEnd' /\ NoCrash'
    OBVIOUS
  <2>1. ASSUME SimNext PROVE TransmissionsEnd'
    BY <2>1, RunSendEnds, RunPollEnds, RunEveryEnds, StepDoEveryEnds, StepRearmEnds,
       PollDeliverEnds, PollSkipEnds, PollDequeueEnds, StepDevDoPollEnds, LoopFireEnds,
       ItemCommandEnds, ClockEnds
       DEF SimNext, Internal
  <2>2. ASSUME SimNext PROVE NoCrash'
    BY <2>2, CrashKept
  <2>3. CASE UNCHANGED simVars
    <3>1. UNCHANGED <<netVars, work, crashed, timers, pc, stolen>>
      BY <2>3 DEF simVars, vars
    <3>2. Pending' = Pending
      BY <3>1 DEF Pending
    <3>3. NoCrash'
      BY <3>1 DEF NoCrash, OnWire, netVars
    <3>4. \A d : /\ TimerPending(d)' <=> TimerPending(d)
                 /\ Completing(d)' <=> Completing(d)
                 /\ OnWire(d)' <=> OnWire(d)
      BY <3>1, <3>2 DEF TimerPending, Completing, OnWire, netVars
    <3>5. TransmissionsEnd'
      BY <3>1, <3>2, <3>4 DEF TransmissionsEnd, netVars
    <3> QED BY <3>3, <3>5
  <2> QED BY <2>1, <2>2, <2>3
<1> QED BY <1>1, <1>2, SimInvariant, PTL DEF SimSpec

(* In any script, the program uses a NULL pointer only at a device without *)
(* host, or after a "poll" has delivered the packet that a rated device    *)
(* was transmitting: until then deliver always finds the packet that it is *)
(* called for.                                                             *)
THEOREM CrashesExplained == SimSpec => []NoCrash
  BY TransmissionsInvariant, PTL

(* One timer or call ends the transmission of a rated device.              *)
LEMMA EndIsUnique ==
  ASSUME SimInv, TransmissionsEnd
  PROVE  OneCompletion
<1> SUFFICES ASSUME pc # "exit", ~stolen, NEW d \in Devs
             PROVE  IF d \in Rated /\ OnWire(d)
                      THEN \E c \in Completions(d) : Completions(d) = {c}
                      ELSE Completions(d) = {}
  BY DEF OneCompletion
<1> DEFINE T == {i \in 1..Len(timers) : timers[i].id.fn = "dev_do_poll" /\ timers[i].id.dev = d}
           W == {k \in 1..Len(work) : work[k] = DevDoPoll(d)}
<1>0. Completions(d) = T \cup {-i : i \in W}
  BY DEF Completions
<1>1. d \in Rated /\ OnWire(d) <=> TimerPending(d) \/ Completing(d)
  BY DEF TransmissionsEnd
<1>2. TimerPending(d) <=> T # {}
  BY DEF TimerPending, Pending
<1>3. \A i, j \in T : i = j
  BY DEF SimInv, IInv, Distinct, TransmissionsEnd, Pending
<1>4. \A k \in W : k = 1 /\ ~TimerPending(d)
  BY DEF TransmissionsEnd, DevDoPoll
<1>5. Completing(d) => 1 \in W
  BY TopWork DEF Completing, SimInv
<1>6. \A k \in W : Completing(d)
  <2> SUFFICES ASSUME NEW k \in W PROVE Completing(d)
    OBVIOUS
  <2>1. k = 1 /\ work[1] = DevDoPoll(d) /\ 1 \in 1..Len(work) /\ work \in Seq(WorkCalls)
    BY <1>4 DEF SimInv, StackOK
  <2>2. work # << >>
    BY <2>1
  <2> QED BY <2>1, <2>2, TopWork DEF Completing, SimInv
<1> HIDE DEF T, W
<1>7. CASE TimerPending(d)
  <2>1. PICK i \in T : TRUE
    BY <1>2, <1>7
  <2>2. W = {} /\ T = {i}
    BY <1>3, <1>4, <1>7, <2>1
  <2>3. Completions(d) = {i}
    BY <1>0, <2>2
  <2> QED BY <1>1, <1>7, <2>3
<1>8. CASE ~TimerPending(d) /\ Completing(d)
  <2>1. T = {} /\ W = {1}
    BY <1>2, <1>4, <1>5, <1>8
  <2>2. Completions(d) = {-1}
    BY <1>0, <2>1
  <2> QED BY <1>1, <1>8, <2>2
<1>9. CASE ~TimerPending(d) /\ ~Completing(d)
  <2>1. T = {} /\ W = {}
    BY <1>2, <1>6, <1>9
  <2>2. Completions(d) = {}
    BY <1>0, <2>1
  <2> QED BY <1>1, <1>9, <2>2
<1> QED BY <1>7, <1>8, <1>9

(* Every transmission that kernel_poll_device starts on a rated device is  *)
(* ended by exactly one call of dev_do_poll, and an idle device has none   *)
(* coming, for any script, until it polls a rated device that transmits.   *)
THEOREM TransmissionEndsOnce == SimSpec => []OneCompletion
<1>1. SimInv /\ TransmissionsEnd /\ NoCrash => OneCompletion
  BY EndIsUnique
<1> QED BY <1>1, TransmissionsInvariant, PTL

(* At the end of advance_time(EndTime), nothing is left to run, and no     *)
(* device has a packet to send.                                            *)
LEMMA FinishDrains ==
  ASSUME SimInv, TransmissionsEnd, TimersInRange, LoopFinish, target = EndTime, ~polled
  PROVE  Drained'
<1>0. IInv /\ NetOK /\ StackOK /\ PollsFollow /\ Finish /\ UNCHANGED <<netVars, timers>>
  BY DEF SimInv, LoopFinish, Finish
<1>1. work = << >> /\ pc = "loop"
  BY <1>0 DEF Finish, StackOK
<1>2. timers \in Seq(Entry) /\ EndTime \in Jiffval
  BY <1>0, ScriptTimesAssumption DEF IInv, TypeOK
<1>3. ASSUME NEW i \in 1..Len(timers) PROVE FALSE
  <2>1. timer_lt(EndTime, timers[i]) /\ timer_le(timers[i], EndTime)
    BY <1>0, FinishFacts DEF TimersInRange
  <2>2. timers[i] \in Entry
    BY <1>2, ElementOfSeq
  <2> QED BY <1>2, <2>1, <2>2 DEF timer_lt, timer_le, Entry, Jiffval
<1>4. timers = << >>
  BY <1>2, <1>3, LenProperties, EmptySeq
<1>5. ASSUME NEW d \in Rated PROVE queue[d] = << >> /\ txing[d] = None
  <2>1. d \in Devs
    BY RatedAssumption
  <2>2. ~TimerPending(d) /\ ~Completing(d)
    BY <1>1, <1>3 DEF TimerPending, Pending, Completing
  <2>3. ~OnWire(d) /\ txing[d] # BusyHack
    BY <1>1, <2>1, <2>2 DEF TransmissionsEnd
  <2>4. txing[d] = None
    BY <2>3 DEF OnWire
  <2>5. ~Waiting(d)
    BY <1>0, <1>1, NobodyWaits
  <2> QED BY <2>4, <2>5 DEF Waiting
<1> QED BY <1>0, <1>4, <1>5 DEF Drained, netVars

(* END waits for all timers and empties the queues of the rated devices,   *)
(* when advance_time has polled them after the last "poll", even if that   *)
(* took packets off the wires.                                             *)
THEOREM EndLeavesNothing == SimSpec /\ []TimersInRange => PolledEndDrains
<1> DEFINE A == pc = "loop" /\ pc' = "script" /\ target = EndTime /\ ~polled => Drained'
<1>1. SimInv /\ TransmissionsEnd /\ NoCrash /\ TimersInRange /\ [SimNext]_simVars => [A]_simVars
  <2> SUFFICES ASSUME SimInv, TransmissionsEnd, TimersInRange, SimNext,
                      pc = "loop", pc' = "script", target = EndTime, ~polled
               PROVE  Drained'
    OBVIOUS
  <2>1. LoopFinish
    BY DEF SimNext, Internal, RunSend, RunPoll, RunEvery, StepDoEvery, StepRearm, PollDeliver,
           PollSkip, PollDequeue, StepDevDoPoll, LoopFire, LoopReturn, ItemCommand,
           ItemTime, ItemEnd, Item, Call, Callable, Fire, Return
  <2> QED BY <2>1, FinishDrains
<1> QED BY <1>1, TransmissionsInvariant, PTL DEF SimSpec, PolledEndDrains

=============================================================================
