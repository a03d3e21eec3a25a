------------------------------- MODULE BitTree -------------------------------
(***************************************************************************)
(* Bit trees: an expression as a graph of tests of single bits, meters and *)
(* decisions, and the way of tcc/iflib_bit.c from there to rules.          *)
(*                                                                         *)
(* The code keeps reference counts and shares nodes; here a node is the    *)
(* value of what is below it, so nodes that merge_common finds to be the   *)
(* same are the same from the beginning.                                   *)
(***************************************************************************)
EXTENDS DecTree, SequencesExt

(* One test per bit of the mask, the most significant bit first.           *)
value_fsm(acc, value, mask, yes, no, g) ==
  LET len == acc.c.v
      bit(i) == len - i - 1 + acc.b.v * ByteBits
      test(last, i) ==
        CASE i \notin Bits(mask, len) -> last
          [] i \in Bits(value, len)   -> Data(g, bit(i), last, no)
          [] OTHER                    -> Data(g, bit(i), no, last)
  IN  FoldLeft(test, yes, [i \in 1..len |-> i - 1])

(* A comparison: masks and offsets around the access.  A constant with     *)
(* bits that the mask does not have is never equal.  (The other two        *)
(* algorithms also accept shifts and roots, of which iflib_arith and       *)
(* iflib_offset leave none.)                                               *)
RECURSIVE eq_fsm(_, _, _, _, _, _, _)
eq_fsm(x, value, mask, yes, no, g, table) ==
  CASE x.op = "offset" ->
         eq_fsm(x.a, value, mask, yes, no, get_offset_group(x, g, table).g, table)
    [] x.op = "&" /\ x.a.op = "unum" ->
         eq_fsm(x.b, value, BitAnd(mask, x.a.v), yes, no, g, table)
    [] x.op = "&" /\ x.a.op # "unum" /\ x.b.op = "unum" ->
         eq_fsm(x.a, value, BitAnd(mask, x.b.v), yes, no, g, table)
    [] x.op = "access" -> IF BitAnd(value, mask) # value THEN no
                          ELSE value_fsm(x, value, mask, yes, no, g)
    [] OTHER -> Leaf(Error)

RECURSIVE bit_tree(_, _, _, _, _)
bit_tree(d, yes, no, g, table) ==
  CASE d.op = "||" -> bit_tree(d.a, yes, bit_tree(d.b, yes, no, g, table), g, table)
    [] d.op = "&&" -> bit_tree(d.a, bit_tree(d.b, yes, no, g, table), no, g, table)
    [] d.op = "!"  -> bit_tree(d.a, no, yes, g, table)
    [] d.op = "==" /\ d.b.op = "unum" -> eq_fsm(d.a, d.b.v, Base - 1, yes, no, g, table)
    [] d.op = "field_root" -> bit_tree(d.a, yes, no, d.b.v, table)
    [] d.op = "offset"   -> bit_tree(d.a, yes, no, get_offset_group(d, g, table).g, table)
    [] d.op = "conform"  -> IfConform(d.a.p, yes, no)
    [] d.op = "count"    -> ThenCount(d.a.p, yes)
    [] d.op = "unum"     -> IF d.v # 0 THEN yes ELSE no
    [] d.op = "decision" -> Leaf(d)
    [] OTHER -> Leaf(Error)

-----------------------------------------------------------------------------
(* Optimization *)

SlipKept(known, n) == known

(* The results that are still known behind n: a count may change what      *)
(* conforms.                                                               *)
Kept(known, n) == IF n.t = "count" THEN {k \in known : k[1] # <<"conform", n.p>>} ELSE known

(* What two nodes have in common that bit_equal calls the same.            *)
Test(n) ==
  CASE n.t = "data"     -> <<"data", n.group, n.bit>>
    [] n.t = "decision" -> <<"decision", n.d>>
    [] OTHER            -> <<n.t, n.p>>

(* Tests whose result is known from further up are left out.               *)
RECURSIVE remove_duplicates(_, _)
remove_duplicates(n, known) ==
  LET child(v) == IF v THEN n.yes ELSE n.no
  IN  CASE ~Inner(n) -> n
        [] n.t = "count" -> With2(n, remove_duplicates(n.yes, Kept(known, n)), Null)
        [] n.t # "count" /\ (\E v \in BOOLEAN : <<Test(n), v>> \in known) ->
             remove_duplicates(child(<<Test(n), TRUE>> \in known), known)
        [] OTHER -> With2(n, remove_duplicates(n.yes, known \cup {<<Test(n), TRUE>>}),
                             remove_duplicates(n.no, known \cup {<<Test(n), FALSE>>}))

(* A test of packet data below n comes to be above it.                     *)
swap_bits(n, v) ==
  LET old == IF v THEN n.yes ELSE n.no
  IN  IF v THEN With2(old, With2(n, old.yes, n.no), With2(n, old.no, n.no))
      ELSE With2(old, With2(n, n.yes, old.yes), With2(n, n.yes, old.no))

RECURSIVE bubble_static(_)
bubble_static(n) ==
  LET m == With2(n, bubble_static(n.yes), bubble_static(n.no))
  IN  CASE ~Inner(n) -> n
        [] n.t = "conform" /\ m.no.t = "data" -> bubble_static(swap_bits(m, FALSE))
        [] \/ n.t = "conform" /\ m.no.t # "data" /\ m.yes.t = "data"
           \/ n.t = "count" /\ m.yes.t = "data" -> bubble_static(swap_bits(m, TRUE))
        [] OTHER -> m

(* merge_common: a node whose branches are the same is not needed.         *)
RECURSIVE unique_state(_)
unique_state(n) ==
  LET m == With2(n, unique_state(n.yes), unique_state(n.no))
  IN  IF ~Inner(n) THEN n ELSE IF m.yes = m.no THEN m.yes ELSE m

(* The states that all ways from n go through, up to a count or a decision.*)
RECURSIVE gather_common(_, _)
gather_common(n, all) ==
  CASE n.t = "null"  -> all
    [] n.t \in {"data", "conform"} ->
         {n} \cup (gather_common(n.yes, all) \cap gather_common(n.no, all))
    [] OTHER -> {n}

RECURSIVE collapse_common(_)
collapse_common(n) ==
  LET common  == gather_common(n.yes, Below(n)) \cap gather_common(n.no, Below(n))
      deepest == CHOOSE c \in common : Below(c) \cap common = {c}
      m       == IF n.t # "count" /\ common # {} THEN deepest ELSE n
  IN  IF ~Inner(n) THEN n
      ELSE IF Inner(m) THEN With2(m, collapse_common(m.yes), collapse_common(m.no)) ELSE m

-----------------------------------------------------------------------------
(* Smart dumping *)

(* Ways from n to x through tests of packet data.                          *)
RECURSIVE count_paths(_, _)
count_paths(n, x) ==
  CASE n = x        -> 1
    [] n # x /\ n.t = "data" -> count_paths(n.yes, x) + count_paths(n.no, x)
    [] OTHER        -> 0

Branch(n, v) == IF v THEN n.yes ELSE n.no

(* The branches to actions, in the order in which they are looked at.      *)
RECURSIVE Branches(_)
Branches(n) ==
  IF n.t # "data" THEN <<>>
  ELSE SelectSeq(<<<<n, FALSE>>, <<n, TRUE>>>>, LAMBDA b : Branch(b[1], b[2]).t # "data")
       \o Branches(n.yes) \o Branches(n.no)

(* The last one of those to the action that the fewest ways lead to, by    *)
(* the fewest ways.                                                        *)
find_least_common_branch(root) ==
  LET bs     == Branches(root)
      cost(i) == <<count_paths(root, Branch(bs[i][1], bs[i][2])), count_paths(root, bs[i][1])>>
      cheaper(x, y) == x[1] < y[1] \/ (x[1] = y[1] /\ x[2] < y[2])
      best   == {i \in DOMAIN bs : \A j \in DOMAIN bs : ~cheaper(cost(j), cost(i))}
  IN  bs[Max(best)]

(* The bits of a rule from the tests on the way, sorted by bit number.  If *)
(* two have the same number, the first is used; a run of bits gets the     *)
(* offset group of its first bit.                                          *)
RuleBits(path) ==
  LET first(b) == path[Min({i \in DOMAIN path : path[i][2] = b})]
      nums     == {path[i][2] : i \in DOMAIN path}
      start(b) == Min({s \in nums : \A k \in s..b : k \in nums})
  IN  {<<first(start(b))[1], b, first(b)[3]>> : b \in nums}

(* A rule for each way to the branch.                                      *)
RECURSIVE dump_all_paths_to(_, _, _, _)
dump_all_paths_to(n, end, v, path) ==
  LET step(w) == Append(path, <<n.group, n.bit, IF w THEN 1 ELSE 0>>)
  IN  CASE n = end -> <<Rule(RuleBits(step(v)), Branch(n, v))>>
        [] n # end /\ n.t = "data" -> dump_all_paths_to(n.yes, end, v, step(TRUE))
                                      \o dump_all_paths_to(n.no, end, v, step(FALSE))
        [] OTHER -> <<>>

SlipEliminate(n, end, v) == n

(* The branch is not needed any more.                                      *)
RECURSIVE eliminate_bundle(_, _, _)
eliminate_bundle(n, end, v) ==
  CASE n = end -> With2(n, Branch(n, ~v), Branch(n, ~v))
    [] n # end /\ Inner(n) -> With2(n, eliminate_bundle(n.yes, end, v), eliminate_bundle(n.no, end, v))
    [] OTHER -> n

=============================================================================
