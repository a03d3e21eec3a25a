------------------------------ MODULE Topology -----------------------------
(***************************************************************************)
(* The configuration part of a tcsim script: hosts, devices, links and     *)
(* routes (tcsim/host.c, create_net_device and lookup_net_device of        *)
(* tcsim/klink.c, driven by the items of tcsim/cfg.y).                     *)
(***************************************************************************)
EXTENDS Routing, FiniteSets

CONSTANTS
  Hosts,     \* the struct host objects that create_host returns
  Names,     \* device names, which are what a script knows devices by
  Masks,     \* netmasks a script uses
  None,      \* NULL
  MaxItems   \* bound: configuration items per script

ASSUME MasksAssumption == Masks \subseteq SUBSET Bits
ASSUME HostsAssumption == None \notin Hosts /\ None \notin Names
ASSUME MaxItemsAssumption == MaxItems \in Nat

VARIABLES
  hosts,         \* hosts created so far
  current_host,  \* the host whose braces are open, or None
  devs,          \* names of the devices on the dev_base list
  host,          \* dev->host, may be None
  peer,          \* dev->peer, may be None
  routes,        \* host->routes
  failed,        \* errorf or yyerror was called
  items          \* items processed

topoVars == <<hosts, current_host, devs, host, peer, routes, failed, items>>

RouteType == [addr : SUBSET Bits, mask : Masks, dev : Names]

Init ==
  /\ hosts = {}
  /\ current_host = None
  /\ devs = {}
  /\ host = [d \in Names |-> None]
  /\ peer = [d \in Names |-> None]
  /\ routes = [h \in Hosts |-> << >>]
  /\ failed = FALSE
  /\ items = 0

(* One more item is parsed, unless an error has ended tcsim.               *)
Item ==
  /\ ~failed
  /\ items < MaxItems
  /\ items' = items + 1

Fail ==
  /\ failed' = TRUE
  /\ UNCHANGED <<hosts, current_host, devs, host, peer, routes>>

(* "host {": create_host, an empty route list.                             *)
OpenHost(h) ==
  /\ Item
  /\ current_host = None
  /\ h \notin hosts
  /\ hosts' = hosts \cup {h}
  /\ current_host' = h
  /\ UNCHANGED <<devs, host, peer, routes, failed>>

(* "}"                                                                     *)
CloseHost ==
  /\ Item
  /\ current_host # None
  /\ current_host' = None
  /\ UNCHANGED <<hosts, devs, host, peer, routes, failed>>

(* "dev name": create_net_device, inside or outside of a host.             *)
CreateNetDevice(name) ==
  /\ Item
  /\ IF name \in devs
       THEN Fail
       ELSE /\ devs' = devs \cup {name}
            /\ host' = [host EXCEPT ![name] = current_host]
            /\ UNCHANGED <<hosts, current_host, peer, routes, failed>>

(* "route addr netmask mask dev", only inside a host: an unknown device, a *)
(* device of another host and a clash with a route before it are errors;   *)
(* the new route goes to the end of the list.                              *)
AddRoute(addr, mask, d) ==
  /\ Item
  /\ current_host # None
  /\ LET h == current_host
     IN  IF \/ d \notin devs
            \/ host[d] # h
            \/ \E i \in 1..Len(routes[h]) : Clashes(routes[h][i], addr \cap mask, mask)
           THEN Fail
           ELSE /\ routes' = [routes EXCEPT ![h] =
                      Append(@, [addr |-> addr \cap mask, mask |-> mask, dev |-> d])]
                /\ UNCHANGED <<hosts, current_host, devs, host, peer, failed>>

(* Slip: only the first device is checked for an existing link.            *)
SlipConnectDev(a, b) ==
  /\ Item
  /\ IF a \notin devs \/ b \notin devs \/ peer[a] # None
       THEN Fail
       ELSE /\ peer' = [[peer EXCEPT ![a] = b] EXCEPT ![b] = a]
            /\ UNCHANGED <<hosts, current_host, devs, host, routes, failed>>

(* "connect a b": both ends must be free; a device may be its own peer.    *)
ConnectDev(a, b) ==
  /\ Item
  /\ IF a \notin devs \/ b \notin devs \/ peer[a] # None \/ peer[b] # None
       THEN Fail
       ELSE /\ peer' = [[peer EXCEPT ![a] = b] EXCEPT ![b] = a]
            /\ UNCHANGED <<hosts, current_host, devs, host, routes, failed>>

Next ==
  \/ \E h \in Hosts : OpenHost(h)
  \/ CloseHost
  \/ \E d \in Names : CreateNetDevice(d)
  \/ \E addr \in SUBSET Bits, mask \in Masks, d \in Names : AddRoute(addr, mask, d)
  \/ \E a, b \in Names : ConnectDev(a, b)

Spec == Init /\ [][Next]_topoVars

-----------------------------------------------------------------------------

TypeOK ==
  /\ hosts \subseteq Hosts
  /\ current_host \in hosts \cup {None}
  /\ devs \subseteq Names
  /\ host \in [Names -> hosts \cup {None}]
  /\ peer \in [Names -> devs \cup {None}]
  /\ routes \in [Hosts -> Seq(RouteType)]
  /\ failed \in BOOLEAN
  /\ items \in Nat

(* A link has two ends that know of each other.  deliver hands a packet to *)
(* dev->peer, and an asymmetric pair would let two devices feed one.       *)
PeerSymmetric == \A a, b \in Names : peer[a] = b => peer[b] = a

(* A host sends only through its own devices.                              *)
OwnDevices ==
  \A h \in Hosts : \A i \in 1..Len(routes[h]) :
    routes[h][i].dev \in devs /\ host[routes[h][i].dev] = h

(* The inductive form of NoDeadRoute, in terms of the check of add_route.  *)
Unshadowed(list) ==
  \A i, j \in 1..Len(list) :
    i < j => ~Clashes(list[i], list[j].addr, list[j].mask)

NoShadow == \A h \in Hosts : Unshadowed(routes[h])

(* No route is dead: whatever route comes before it, there is an address   *)
(* that this route takes and the earlier one does not.                     *)
NoDeadRoute ==
  \A h \in Hosts : \A i, j \in 1..Len(routes[h]) :
    i < j => \E a \in SUBSET Bits :
               Matches(routes[h][j], a) /\ ~Matches(routes[h][i], a)

(* Netmasks as they are used in practice: of any two, one is part of the   *)
(* other.                                                                  *)
PrefixMasks == \A m, n \in Masks : m \subseteq n \/ n \subseteq m

(* With prefix masks, the first route of the list that matches an address  *)
(* is the most specific one of all that match, whatever the order of the   *)
(* route items was: the linear search of incoming is a longest prefix      *)
(* match.                                                                  *)
MostSpecific ==
  PrefixMasks =>
    \A h \in Hosts, a \in SUBSET Bits : \A i, j \in 1..Len(routes[h]) :
      Hit(routes[h], a, i) /\ Matches(routes[h][j], a) /\ i # j
        => routes[h][j].mask \subseteq routes[h][i].mask
           /\ routes[h][j].mask # routes[h][i].mask

=============================================================================
