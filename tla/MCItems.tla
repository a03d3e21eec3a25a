------------------------------- MODULE MCItems ------------------------------
(***************************************************************************)
(* What the items of a script build, for TLC: hosts, devices and routes,   *)
(* packet attributes, and commands.  The three share no state, so a script *)
(* here is about one of them.                                              *)
(***************************************************************************)
EXTENDS Topology, Attributes, Commands

CONSTANT NumBits

VARIABLE about

itemVars == <<topoVars, attrVars, cmdVars, about>>

MCBits == 1..NumBits

(* The prefixes of an address of NumBits bits, the default route included. *)
MCMasks == {1..n : n \in 0..NumBits}

ItemsInit ==
  /\ Init
  /\ AttrInit
  /\ CmdInit
  /\ about \in {"topology", "attributes", "commands"}

ItemsNext ==
  \/ about = "topology" /\ Next /\ UNCHANGED <<attrVars, cmdVars, about>>
  \/ about = "attributes" /\ AttrNext /\ UNCHANGED <<topoVars, cmdVars, about>>
  \/ about = "commands" /\ CmdNext /\ UNCHANGED <<topoVars, attrVars, about>>

ItemsSpec == ItemsInit /\ [][ItemsNext]_itemVars

Symmetry == Permutations(Cmds) \cup Permutations(Dscs) \cup Permutations(Vars)

=============================================================================
