------------------------------ MODULE Routing ------------------------------
(***************************************************************************)
(* IPv4 routes of a simulated host: the check of add_route (tcsim/host.c)  *)
(* and the lookup of incoming (tcsim/klink.c).  An address or a mask is    *)
(* the set of its one bits, so "&" is intersection, "^" symmetric          *)
(* difference, and "a & ~b" set difference.                                *)
(***************************************************************************)
EXTENDS Integers, Sequences

CONSTANTS
  Bits,      \* bit positions of an address
  NoRoute    \* result of a lookup that finds nothing

Xor(a, b) == (a \ b) \cup (b \ a)

(* The comparison of incoming: address and route agree under the mask.     *)
Matches(rt, a) == Xor(rt.addr, a) \cap rt.mask = {}

(* Slip: compares under the new mask instead of the old one, and so takes  *)
(* only an equal network for a clash.                                      *)
SlipClashes(rt, addr, mask) ==
  /\ rt.mask \ mask = {}
  /\ Xor(rt.addr, addr) \cap mask = {}
  /\ mask \ rt.mask = {}

(* The condition of add_route: rt, which is already there, covers all of   *)
(* the new network.                                                        *)
Clashes(rt, addr, mask) ==
  /\ rt.mask \ mask = {}
  /\ Xor(rt.addr, addr) \cap rt.mask = {}

(* The first route of the list that matches.                               *)
Hit(routes, a, k) ==
  /\ k \in 1..Len(routes)
  /\ Matches(routes[k], a)
  /\ \A i \in 1..(k - 1) : ~Matches(routes[i], a)

Lookup(routes, a) ==
  IF \E k \in 1..Len(routes) : Hit(routes, a, k)
    THEN routes[CHOOSE k \in 1..Len(routes) : Hit(routes, a, k)].dev
    ELSE NoRoute

=============================================================================
