--------------------------- MODULE TopologyProofs --------------------------
(***************************************************************************)
(* Proofs about Topology, for any number of hosts, devices and routes and  *)
(* any width of an address: links are symmetric, no route is dead, and the *)
(* linear search of incoming is a longest prefix match.                    *)
(***************************************************************************)
EXTENDS Topology, TLAPS

(* The inductive invariant: each part is preserved on its own, given that  *)
(* the state is well typed.                                                *)
TopoInv == TypeOK /\ PeerSymmetric /\ OwnDevices /\ NoShadow

(* If two routes match one address, and the mask of the first is part of   *)
(* the mask of the second, then the first covers the second.               *)
LEMMA MatchesClash ==
  ASSUME NEW r, NEW s, NEW a, Matches(r, a), Matches(s, a), r.mask \subseteq s.mask
  PROVE  Clashes(r, s.addr, s.mask)
  BY DEF Matches, Clashes, Xor

(* Appending a route that does not clash keeps the list free of dead       *)
(* routes: the check of add_route against the routes before it is enough.  *)
LEMMA AppendUnshadowed ==
  ASSUME NEW S, NEW list \in Seq(S), NEW r \in S, Unshadowed(list),
         \A i \in 1..Len(list) : ~Clashes(list[i], r.addr, r.mask)
  PROVE  Unshadowed(Append(list, r))
<1> DEFINE l == Append(list, r)
<1>1. Len(list) \in Nat /\ Len(l) = Len(list) + 1 /\ l[Len(list) + 1] = r
      /\ \A i \in 1..Len(list) : l[i] = list[i]
  OBVIOUS
<1> HIDE DEF l
<1> SUFFICES ASSUME NEW i \in 1..Len(l), NEW j \in 1..Len(l), i < j
             PROVE  ~Clashes(l[i], l[j].addr, l[j].mask)
  BY DEF Unshadowed, l
<1>2. i \in 1..Len(list)
  BY <1>1
<1>3. CASE j \in 1..Len(list)
  BY <1>1, <1>2, <1>3 DEF Unshadowed
<1>4. CASE j = Len(list) + 1
  BY <1>1, <1>2, <1>4
<1> QED BY <1>1, <1>3, <1>4

LEMMA AddRoutePreserves ==
  ASSUME TopoInv, NEW addr \in SUBSET Bits, NEW mask \in Masks, NEW d \in Names,
         AddRoute(addr, mask, d)
  PROVE  TopoInv'
<1> USE DEF TopoInv
<1> DEFINE h == current_host
           r == [addr |-> addr \cap mask, mask |-> mask, dev |-> d]
<1>0. items' \in Nat
  BY DEF AddRoute, Item, TypeOK
<1>1. CASE Fail
  BY <1>0, <1>1 DEF Fail, TypeOK, PeerSymmetric, OwnDevices, NoShadow
<1>2. CASE ~Fail
  <2>1. /\ h # None /\ d \in devs /\ host[d] = h
        /\ \A i \in 1..Len(routes[h]) : ~Clashes(routes[h][i], addr \cap mask, mask)
        /\ routes' = [routes EXCEPT ![h] = Append(@, r)]
        /\ UNCHANGED <<hosts, current_host, devs, host, peer, failed>>
    BY <1>2 DEF AddRoute
  <2>2. h \in Hosts /\ routes[h] \in Seq(RouteType) /\ routes \in [Hosts -> Seq(RouteType)]
    BY <2>1 DEF TypeOK
  <2>3. r \in RouteType /\ r.addr = addr \cap mask /\ r.mask = mask /\ r.dev = d
    BY DEF RouteType
  <2> HIDE DEF r, h
  <2>4. /\ routes' \in [Hosts -> Seq(RouteType)]
        /\ routes'[h] = Append(routes[h], r)
        /\ \A g \in Hosts : g # h => routes'[g] = routes[g]
    BY <2>1, <2>2, <2>3
  <2>5. TypeOK'
    BY <1>0, <2>1, <2>4 DEF TypeOK
  <2>6. PeerSymmetric'
    BY <2>1 DEF PeerSymmetric
  <2>7. NoShadow'
    <3>1. Unshadowed(routes'[h])
      <4>1. Unshadowed(routes[h])
        BY <2>2 DEF NoShadow
      <4>2. \A i \in 1..Len(routes[h]) : ~Clashes(routes[h][i], r.addr, r.mask)
        BY <2>1, <2>3
      <4>3. Unshadowed(Append(routes[h], r))
        BY <2>2, <2>3, <4>1, <4>2, AppendUnshadowed
      <4> QED BY <2>4, <4>3
    <3> QED BY <2>4, <3>1 DEF NoShadow
  <2>8. OwnDevices'
    <3> SUFFICES ASSUME NEW g \in Hosts, NEW i \in 1..Len(routes'[g])
                 PROVE  routes'[g][i].dev \in devs /\ host[routes'[g][i].dev] = g
      BY <2>1 DEF OwnDevices
    <3>1. CASE g # h
      BY <2>4, <3>1 DEF OwnDevices
    <3>2. CASE g = h
      <4>1. \/ i \in 1..Len(routes[h]) /\ routes'[h][i] = routes[h][i]
            \/ routes'[h][i] = r
        BY <2>2, <2>4, <3>2
      <4> QED BY <2>1, <2>3, <3>2, <4>1 DEF OwnDevices
    <3> QED BY <3>1, <3>2
  <2> QED BY <2>5, <2>6, <2>7, <2>8
<1> QED BY <1>1, <1>2

(* Links, hosts, devices and routes stay consistent under every item of a  *)
(* script, errors included.                                                *)
THEOREM TopologyInvariant == Spec => []TopoInv
<1>1. Init => TopoInv
  <2> SUFFICES ASSUME Init PROVE TopoInv
    OBVIOUS
  <2>1. \A h \in Hosts : routes[h] = << >> /\ 1..Len(routes[h]) = {}
    BY DEF Init
  <2>2. << >> \in Seq(RouteType)
    OBVIOUS
  <2>3. TypeOK
    BY <2>2 DEF Init, TypeOK
  <2>4. PeerSymmetric
    BY HostsAssumption DEF Init, PeerSymmetric
  <2>5. OwnDevices
    BY <2>1 DEF OwnDevices
  <2>6. NoShadow
    BY <2>1 DEF NoShadow, Unshadowed
  <2> QED BY <2>3, <2>4, <2>5, <2>6 DEF TopoInv
<1>2. TopoInv /\ [Next]_topoVars => TopoInv'
  <2> SUFFICES ASSUME TopoInv, [Next]_topoVars PROVE TopoInv'
    OBVIOUS
  <2> USE DEF TopoInv
  <2>1. ASSUME NEW h \in Hosts, OpenHost(h) PROVE TopoInv'
    BY <2>1 DEF OpenHost, Item, TypeOK, PeerSymmetric, OwnDevices, NoShadow
  <2>2. CASE CloseHost
    BY <2>2 DEF CloseHost, Item, TypeOK, PeerSymmetric, OwnDevices, NoShadow
  <2>3. ASSUME NEW d \in Names, CreateNetDevice(d) PROVE TopoInv'
    <3>0. items' \in Nat
      BY <2>3 DEF CreateNetDevice, Item, TypeOK
    <3>1. CASE d \in devs
      BY <2>3, <3>0, <3>1 DEF CreateNetDevice, Fail, TypeOK, PeerSymmetric, OwnDevices, NoShadow
    <3>2. CASE d \notin devs
      <4>1. /\ devs' = devs \cup {d}
            /\ host' = [host EXCEPT ![d] = current_host]
            /\ UNCHANGED <<hosts, current_host, peer, routes, failed>>
        BY <2>3, <3>2 DEF CreateNetDevice
      <4>2. TypeOK'
        BY <3>0, <4>1 DEF TypeOK
      <4>3. PeerSymmetric' /\ NoShadow'
        BY <4>1 DEF PeerSymmetric, NoShadow
      <4>4. OwnDevices'
        BY <3>2, <4>1 DEF OwnDevices, TypeOK
      <4> QED BY <4>2, <4>3, <4>4
    <3> QED BY <3>1, <3>2
  <2>4. ASSUME NEW addr \in SUBSET Bits, NEW mask \in Masks, NEW d \in Names,
               AddRoute(addr, mask, d)
        PROVE  TopoInv'
    BY <2>4, AddRoutePreserves
  <2>5. ASSUME NEW a \in Names, NEW b \in Names, ConnectDev(a, b) PROVE TopoInv'
    <3>0. items' \in Nat
      BY <2>5 DEF ConnectDev, Item, TypeOK
    <3>1. CASE Fail
      BY <3>0, <3>1 DEF Fail, TypeOK, PeerSymmetric, OwnDevices, NoShadow
    <3>2. CASE ~Fail
      <4>1. /\ a \in devs /\ b \in devs /\ peer[a] = None /\ peer[b] = None
            /\ peer' = [[peer EXCEPT ![a] = b] EXCEPT ![b] = a]
            /\ UNCHANGED <<hosts, current_host, devs, host, routes, failed>>
        BY <2>5, <3>2 DEF ConnectDev
      <4>2. TypeOK'
        BY <3>0, <4>1 DEF TypeOK
      <4>3. PeerSymmetric'
        BY <4>1, HostsAssumption DEF PeerSymmetric, TypeOK
      <4>4. OwnDevices' /\ NoShadow'
        BY <4>1 DEF OwnDevices, NoShadow
      <4> QED BY <4>2, <4>3, <4>4
    <3> QED BY <3>1, <3>2
  <2>6. CASE UNCHANGED topoVars
    BY <2>6 DEF topoVars, TypeOK, PeerSymmetric, OwnDevices, NoShadow
  <2> QED BY <2>1, <2>2, <2>3, <2>4, <2>5, <2>6 DEF Next
<1> QED BY <1>1, <1>2, PTL DEF Spec

(* Links always have two ends that know of each other.                     *)
THEOREM LinksSymmetric == Spec => []PeerSymmetric
<1>1. TopoInv => PeerSymmetric
  BY DEF TopoInv
<1> QED BY <1>1, TopologyInvariant, PTL

(* With prefix masks the first match is the longest match, whatever the    *)
(* order of the routes in the script.                                      *)
THEOREM LongestPrefixMatch == Spec => []MostSpecific
<1>1. TopoInv => MostSpecific
  <2> SUFFICES ASSUME TopoInv, PrefixMasks,
                      NEW h \in Hosts, NEW a \in SUBSET Bits,
                      NEW i \in 1..Len(routes[h]), NEW j \in 1..Len(routes[h]),
                      Hit(routes[h], a, i), Matches(routes[h][j], a), i # j
               PROVE  /\ routes[h][j].mask \subseteq routes[h][i].mask
                      /\ routes[h][j].mask # routes[h][i].mask
    BY DEF MostSpecific
  <2>1. routes[h] \in Seq(RouteType)
    BY DEF TopoInv, TypeOK
  <2>2. routes[h][i] \in RouteType /\ routes[h][j] \in RouteType
    BY <2>1
  <2>3. Matches(routes[h][i], a) /\ i < j
    <3>1. i \in Int /\ j \in Int /\ ~(j \in 1..(i - 1))
      BY <2>1 DEF Hit
    <3>2. i < j
      BY <2>1, <3>1
    <3> QED BY <3>2 DEF Hit
  <2>4. ~Clashes(routes[h][i], routes[h][j].addr, routes[h][j].mask)
    BY <2>3 DEF TopoInv, NoShadow, Unshadowed
  <2>5. ~(routes[h][i].mask \subseteq routes[h][j].mask)
    BY <2>3, <2>4, MatchesClash
  <2>6. routes[h][i].mask \in Masks /\ routes[h][j].mask \in Masks
    BY <2>2 DEF RouteType
  <2>7. routes[h][j].mask \subseteq routes[h][i].mask
    BY <2>5, <2>6 DEF PrefixMasks
  <2> QED BY <2>5, <2>7
<1> QED BY <1>1, TopologyInvariant, PTL

(* The check of add_route leaves an address for the later route.           *)
LEMMA AddressLeft ==
  ASSUME NEW r \in RouteType, NEW s \in RouteType, ~Clashes(r, s.addr, s.mask)
  PROVE  \E a \in SUBSET Bits : Matches(s, a) /\ ~Matches(r, a)
<1>1. r.mask \subseteq Bits /\ s.addr \subseteq Bits
  BY MasksAssumption DEF RouteType
<1>2. CASE Xor(r.addr, s.addr) \cap r.mask # {}
  <2>1. Matches(s, s.addr) /\ ~Matches(r, s.addr)
    BY <1>2 DEF Matches, Xor
  <2> QED BY <1>1, <2>1
<1>3. CASE r.mask \ s.mask # {}
  <2>1. PICK b \in r.mask : b \notin s.mask
    BY <1>3
  <2>2. CASE b \in r.addr
    <3> DEFINE a == s.addr \ {b}
    <3>1. a \in SUBSET Bits
      BY <1>1
    <3>2. Matches(s, a)
      BY <2>1 DEF Matches, Xor
    <3>3. b \in Xor(r.addr, a) \cap r.mask
      BY <2>1, <2>2 DEF Xor
    <3>4. ~Matches(r, a)
      BY <3>3 DEF Matches
    <3> QED BY <3>1, <3>2, <3>4
  <2>3. CASE b \notin r.addr
    <3> DEFINE a == s.addr \cup {b}
    <3>1. a \in SUBSET Bits
      BY <1>1, <2>1
    <3>2. Matches(s, a)
      BY <2>1 DEF Matches, Xor
    <3>3. b \in Xor(r.addr, a) \cap r.mask
      BY <2>1, <2>3 DEF Xor
    <3>4. ~Matches(r, a)
      BY <3>3 DEF Matches
    <3> QED BY <3>1, <3>2, <3>4
  <2> QED BY <2>2, <2>3
<1> QED BY <1>2, <1>3 DEF Clashes

(* No route that add_route accepts is dead because of one before it, for   *)
(* any number of hosts and routes and any masks, prefixes or not.          *)
THEOREM NoRouteIsDead == Spec => []NoDeadRoute
<1>1. TopoInv => NoDeadRoute
  <2> SUFFICES ASSUME TopoInv, NEW h \in Hosts,
                      NEW i \in 1..Len(routes[h]), NEW j \in 1..Len(routes[h]), i < j
               PROVE  \E a \in SUBSET Bits :
                        Matches(routes[h][j], a) /\ ~Matches(routes[h][i], a)
    BY DEF NoDeadRoute
  <2>1. routes[h] \in Seq(RouteType)
    BY DEF TopoInv, TypeOK
  <2>2. routes[h][i] \in RouteType /\ routes[h][j] \in RouteType
    BY <2>1
  <2>3. ~Clashes(routes[h][i], routes[h][j].addr, routes[h][j].mask)
    BY DEF TopoInv, NoShadow, Unshadowed
  <2> QED BY <2>2, <2>3, AddressLeft
<1> QED BY <1>1, TopologyInvariant, PTL

=============================================================================
