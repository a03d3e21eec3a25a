------------------------------ MODULE IfOffset ------------------------------
(***************************************************************************)
(* tcc/iflib_off.c: offsets and field roots move out of the accesses, so   *)
(* that matches with the same offset are under one offset(), and constant  *)
(* offsets move back into them.                                            *)
(***************************************************************************)
EXTENDS PktExpr

(* An offset that is computed is applied by offset().                      *)
RECURSIVE use_offset(_)
use_offset(d) ==
  CASE ~HasOp(d) -> d
    [] d.op = "access" /\ HasOp(d.b) -> Node("offset", Access(d.a, Unum(0), d.c.v), use_offset(d.b))
    [] d.op = "access" /\ ~HasOp(d.b) -> d
    [] OTHER -> Walk(use_offset, d)

-----------------------------------------------------------------------------
(* Field roots *)

RECURSIVE have_offset(_)
have_offset(d) ==
  CASE ~HasOp(d) \/ d.op = "access" -> FALSE
    [] d.op \in {"field_root", "offset"} -> TRUE
    [] OTHER -> have_offset(d.a) \/ have_offset(d.b) \/ have_offset(d.c)

(* What have_common_root finds below d: nothing, its root, or a mixture.   *)
Mixed == -1
RootOf(d) ==
  CASE ~have_offset(d) -> {}
    [] d.op = "field_root" -> {d.b.v}
    [] OTHER -> {Mixed}

pull_root(d) == IF d.op = "field_root" THEN d.a ELSE d

(* A common root of the operands moves above the operation; that of the    *)
(* first operand alone if the second one has another.  With limit, not     *)
(* above && and ||, and the other operands keep theirs.                    *)
RootHere(n, limit) ==
  LET a == RootOf(n.a)
      b == RootOf(n.b)
      c == RootOf(n.c)
      other  == b = {Mixed} \/ (a # {} /\ ~(b \subseteq a))
      common == IF other THEN a ELSE a \cup b \cup c
      keep   == limit \/ other
  IN  IF Mixed \in a \cup common \/ Cardinality(common) # 1 \/ (limit /\ n.op \in Logical) THEN n
      ELSE Node("field_root",
                Node3(n.op, pull_root(n.a), IF keep THEN n.b ELSE pull_root(n.b),
                      IF keep THEN n.c ELSE pull_root(n.c)),
                Root(CHOOSE r \in common : TRUE))

RECURSIVE bubble_roots(_, _)
bubble_roots(d, limit) ==
  CASE d.op = "root" -> Node("field_root", None, d)
    [] ~HasOp(d) /\ d.op # "root" -> d
    [] OTHER -> RootHere(Walk(LAMBDA x : bubble_roots(x, limit), d), limit)

(* A root that already applies is dropped.                                 *)
RECURSIVE trim_roots(_, _)
trim_roots(d, root) ==
  CASE ~HasOp(d) -> d
    [] d.op = "field_root" /\ d.b.v = root -> trim_roots(d.a, root)
    [] OTHER -> LET r == IF d.op = "field_root" THEN d.b.v ELSE root
                IN  Walk(LAMBDA x : trim_roots(x, r), d)

-----------------------------------------------------------------------------
(* Common offsets *)

RECURSIVE offset_in_sum(_, _)
offset_in_sum(d, offset) ==
  CASE d = offset -> 1
    [] d # offset /\ d.op = "+" -> offset_in_sum(d.a, offset) + offset_in_sum(d.b, offset)
    [] OTHER -> 0

(* All branches have the offset, or need none.                             *)
RECURSIVE have_common_offset(_, _)
have_common_offset(d, offset) ==
  CASE ~HasOp(d) \/ d = offset -> TRUE
    [] HasOp(d) /\ d # offset /\ d.op \in {"access", "field_root"} -> FALSE
    [] HasOp(d) /\ d # offset /\ d.op = "offset" ->
         LET terms == offset_in_sum(d.b, offset)
         IN  /\ have_common_offset(d.b, offset)
             /\ terms = 1 \/ (terms > 1 /\ ~have_offset(offset))
    [] OTHER -> /\ have_common_offset(d.a, offset)
                /\ have_common_offset(d.b, offset)
                /\ have_common_offset(d.c, offset)

(* The first term of the sum that is the offset is dropped.                *)
RECURSIVE remove_offset_from_sum(_, _)
remove_offset_from_sum(d, offset) ==
  CASE d.op # "+"    -> d
    [] d.op = "+" /\ d.a = offset -> d.b
    [] d.op = "+" /\ d.a # offset /\ d.b = offset -> d.a
    [] OTHER -> LET a == remove_offset_from_sum(d.a, offset)
                IN  IF a # d.a THEN Node("+", a, d.b)
                    ELSE Node("+", d.a, remove_offset_from_sum(d.b, offset))

RECURSIVE remove_offset(_, _)
remove_offset(d, offset) ==
  CASE ~HasOp(d) \/ d.op = "access" -> d
    [] d.op = "offset" /\ d.b = offset -> d.a
    [] OTHER ->
         LET n == IF d.op = "offset" THEN Node("offset", d.a, remove_offset_from_sum(d.b, offset)) ELSE d
         IN  Walk(LAMBDA x : remove_offset(x, offset), n)

RECURSIVE look_for_offset_in_sum(_, _)
look_for_offset_in_sum(d, root) ==
  LET a == look_for_offset_in_sum(d.a, root)
      b == look_for_offset_in_sum(d.b, root)
  IN  CASE ~HasOp(d) -> None
        [] d.op = "+" /\ a # None -> a
        [] d.op = "+" /\ a = None /\ b # None -> b
        [] OTHER -> IF have_common_offset(root, d) THEN d ELSE None

RECURSIVE look_for_offset_to_pull(_, _)
look_for_offset_to_pull(d, root) ==
  LET a == look_for_offset_to_pull(d.a, root)
      b == look_for_offset_to_pull(d.b, root)
      c == look_for_offset_to_pull(d.c, root)
  IN  CASE ~HasOp(d) \/ d.op = "access" -> None
        [] OTHER -> CASE a # None -> a
                      [] a = None /\ b # None -> b
                      [] a = None /\ b = None /\ c # None -> c
                      [] OTHER -> IF d.op = "offset" THEN look_for_offset_in_sum(d.b, root) ELSE None

RECURSIVE pull_offset(_)
pull_offset(d) ==
  LET found == IF d.op = "offset" THEN None ELSE look_for_offset_to_pull(d, d)
      n     == IF found = None THEN d ELSE Node("offset", remove_offset(d, found), found)
  IN  IF HasOp(n) THEN Walk(pull_offset, n) ELSE n

-----------------------------------------------------------------------------
(* Constant offsets go into the accesses. *)

ConstOf(x) == IF x.op = "unum" THEN x.v ELSE 0

SlipExtractSum(d) == [d |-> d, sum |-> 0]

(* The sum without its constants, and their sum.                           *)
RECURSIVE extract_sum(_)
extract_sum(d) ==
  CASE d.op = "offset" ->
         LET r == extract_sum(d.a) IN [d |-> Node("offset", r.d, d.b), sum |-> r.sum]
    [] d.op = "+" ->
         LET a == extract_sum(d.a)
             b == extract_sum(d.b)
         IN  [sum |-> a.sum + b.sum + ConstOf(a.d) + ConstOf(b.d),
              d   |-> CASE a.d.op = "unum" /\ b.d.op = "unum" -> Unum(0)
                        [] a.d.op = "unum" /\ b.d.op # "unum" -> b.d
                        [] a.d.op # "unum" /\ b.d.op = "unum" -> a.d
                        [] OTHER -> Node("+", a.d, b.d)]
    [] OTHER -> [d |-> d, sum |-> 0]

RECURSIVE push_offset(_, _)
push_offset(d, base) ==
  LET r == extract_sum(d.b)
  IN  CASE ~HasOp(d) -> d
        [] d.op = "access" -> Access(d.a, Unum(d.b.v + base), d.c.v)
        [] d.op = "offset" /\ r.d.op = "unum" -> push_offset(d.a, base + r.sum + r.d.v)
        [] d.op = "offset" /\ r.d.op # "unum" ->
             Node("offset", push_offset(d.a, base + r.sum), push_offset(r.d, base))
        [] OTHER -> Walk(LAMBDA x : push_offset(x, base), d)

=============================================================================
