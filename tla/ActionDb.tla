------------------------------ MODULE ActionDb ------------------------------
(***************************************************************************)
(* tcc/iflib_actdb.c: the actions of an "if" - meters and decisions - as   *)
(* decision trees without packet data, with numbers by which rules and     *)
(* other actions refer to them.                                            *)
(***************************************************************************)
EXTENDS DecTree, SequencesExt

CONSTANT ClassMask   \* 0xff, the numbers that are preferred for classes

(* What is known of the value of d: "yes" if it ends in a decision.        *)
RECURSIVE self_contained(_)
self_contained(d) ==
  CASE d.op = "unum"     -> IF d.v # 0 THEN "true" ELSE "false"
    [] d.op = "decision" -> "yes"
    [] d.op = "count"    -> "true"
    [] d.op = "!"        -> LET a == self_contained(d.a)
                            IN  CASE a = "true" -> "false" [] a = "false" -> "true" [] OTHER -> a
    [] d.op \in Logical  ->
         LET a == self_contained(d.a)
             b == self_contained(d.b)
             stops == IF d.op = "&&" THEN "false" ELSE "true"
         IN  CASE a \in {"yes", stops} -> a
               [] a \in {"true", "false"} \ {stops} -> b
               [] OTHER -> IF b \in {"yes", stops} THEN stops ELSE "no"
    [] OTHER -> "no"

(* An expression of meters and decisions only, up to what ends it.         *)
RECURSIVE action_tree(_)
action_tree(d) ==
  \/ d.op \in {"conform", "count", "decision"}
  \/ /\ d.op \in Logical
     /\ action_tree(d.a)
     /\ self_contained(d.a) = "yes" \/ action_tree(d.b)

(* The tree of d, with what follows if it is true and if it is false.      *)
RECURSIVE add_actions(_, _, _)
add_actions(d, next, otherwise) ==
  CASE d.op = "||" -> add_actions(d.a, None, d.b)
    [] d.op = "&&" -> add_actions(d.a, d.b, otherwise)
    [] d.op = "conform" -> IfConform(d.a.p, add_actions(next, None, otherwise),
                                            add_actions(otherwise, None, None))
    [] d.op = "count" -> ThenCount(d.a.p, add_actions(next, None, otherwise))
    [] d.op = "decision" -> Leaf(d)
    [] OTHER -> Leaf(Error)

(* A test that is repeated below itself is decided: above has the buckets  *)
(* that are known to conform or not to conform.                            *)
RECURSIVE repeated_actions(_, _)
repeated_actions(a, above) ==
  CASE ~Inner(a) -> a
    [] a.t = "count" -> ThenCount(a.p, repeated_actions(a.yes, above))
    [] a.t = "conform" /\ <<a.p, TRUE>> \in above  -> repeated_actions(a.yes, above)
    [] a.t = "conform" /\ <<a.p, FALSE>> \in above -> repeated_actions(a.no, above)
    [] OTHER -> IfConform(a.p, repeated_actions(a.yes, above \cup {<<a.p, TRUE>>}),
                               repeated_actions(a.no, above \cup {<<a.p, FALSE>>}))

get_action(d) == repeated_actions(add_actions(d, None, None), {})

(* register_actions: the trees, the last one first.                        *)
register_actions(d, roots) ==
  IF \E i \in DOMAIN roots : roots[i] = get_action(d) THEN roots
  ELSE <<get_action(d)>> \o roots

-----------------------------------------------------------------------------
(* Numbers *)

(* The nodes of a tree in the order in which they are visited.             *)
RECURSIVE PostOrder(_)
PostOrder(a) ==
  CASE a.t = "conform" -> PostOrder(a.no) \o PostOrder(a.yes) \o <<a>>
    [] a.t = "count"   -> PostOrder(a.yes) \o <<a>>
    [] OTHER           -> <<a>>

RECURSIVE AllNodes(_)
AllNodes(roots) == IF roots = <<>> THEN <<>> ELSE PostOrder(Head(roots)) \o AllNodes(Tail(roots))

IsClass(a) == a.t = "decision" /\ a.d.d[1] = "class"

(* A class gets its own number if that is still free.                      *)
SlipPreferred(num, a) ==
  IF ~IsClass(a) \/ a \in DOMAIN num THEN num
  ELSE [x \in DOMAIN num \cup {a} |-> IF x = a THEN a.d.d[2] % (ClassMask + 1) ELSE num[x]]

Preferred(num, a) ==
  LET n == a.d.d[2] % (ClassMask + 1)
  IN  IF ~IsClass(a) \/ a \in DOMAIN num \/ (\E x \in DOMAIN num : num[x] = n) THEN num
      ELSE [x \in DOMAIN num \cup {a} |-> IF x = a THEN n ELSE num[x]]

(* All others get the lowest number that is left, in ascending order.      *)
Numbered(num, a) ==
  LET used == {num[x] : x \in DOMAIN num}
      n    == CHOOSE k \in 0..Cardinality(used) : k \notin used /\ \A j \in 0..(k - 1) : j \in used
  IN  IF a \in DOMAIN num THEN num
      ELSE [x \in DOMAIN num \cup {a} |-> IF x = a THEN n ELSE num[x]]

(* write_actions: the numbers of all nodes, and the order in which they    *)
(* are written, children first and each once.                              *)
write_actions(roots) ==
  LET nodes == AllNodes(roots)
      first == FoldLeft(Preferred, [a \in {} |-> 0], nodes)
      once  == SelectSeq([i \in DOMAIN nodes |-> <<i, nodes[i]>>],
                         LAMBDA x : \A j \in 1..(x[1] - 1) : nodes[j] # x[2])
  IN  [number |-> FoldLeft(Numbered, first, nodes),
       lines  |-> [i \in DOMAIN once |-> once[i][2]]]

=============================================================================
