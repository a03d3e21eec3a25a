-------------------------------- MODULE NewBit -------------------------------
(***************************************************************************)
(* The second bit tree algorithm of tcc, iflib_newbit.c: sort the tests by *)
(* offset group and bit number, merge what is the same, then take out the  *)
(* branch to an action that promises to shorten the rest most, one by one. *)
(***************************************************************************)
EXTENDS BitTree

(* make_dag: as bit_tree, but a test with nothing to decide is not made.   *)
RECURSIVE make_dag(_, _, _, _, _)
make_dag(d, yes, no, g, table) ==
  CASE d.op = "||" -> make_dag(d.a, yes, make_dag(d.b, yes, no, g, table), g, table)
    [] d.op = "&&" -> make_dag(d.a, make_dag(d.b, yes, no, g, table), no, g, table)
    [] d.op = "!"  -> make_dag(d.a, no, yes, g, table)
    [] d.op = "field_root" -> make_dag(d.a, yes, no, d.b.v, table)
    [] d.op = "offset" -> make_dag(d.a, yes, no, get_offset_group(d, g, table).g, table)
    [] d.op \in {"==", "conform"} /\ yes = no -> yes
    [] OTHER -> bit_tree(d, yes, no, g, table)

-----------------------------------------------------------------------------
(* Sorting *)

TestBefore(x, y) == x[2] < y[2] \/ (x[2] = y[2] /\ x[3] < y[3])

DataTests(n) == {Test(m) : m \in {x \in Below(n) : x.t = "data"}}

(* What is left of n if the bit is known.                                  *)
RECURSIVE reduce_dag(_, _, _)
reduce_dag(test, v, n) ==
  CASE ~Inner(n) -> n
    [] Inner(n) /\ n.t = "data" /\ Test(n) = test -> reduce_dag(test, v, Branch(n, v))
    [] OTHER -> With2(n, reduce_dag(test, v, n.yes), reduce_dag(test, v, n.no))

RECURSIVE sort_subdag(_)
sort_subdag(n) ==
  LET tests == DataTests(n)
      first == CHOOSE x \in tests : \A y \in tests \ {x} : TestBefore(x, y)
      yes   == reduce_dag(first, TRUE, n)
      no    == reduce_dag(first, FALSE, n)
      sy    == sort_subdag(yes)
      sn    == sort_subdag(no)
  IN  IF tests = {} THEN n
      ELSE IF yes = no THEN sy
      ELSE IF sy = sn THEN sy
      ELSE Data(first[2], first[3], sy, sn)

(* merge_tails: as merge_common.                                           *)
merge_tails(n) == unique_state(n)

(* The tests are in order, packet data is tested first, and each has       *)
(* something to decide (do_validate_structure).                            *)
Rank(n) == CASE n.t = "data" -> 0 [] n.t = "conform" -> 1 [] n.t = "count" -> 2 [] OTHER -> 3

compare_bit(n, m) ==
  \/ Rank(n) < Rank(m)
  \/ Rank(n) = Rank(m) /\ n.t = "data" /\ TestBefore(Test(n), Test(m))
  \/ Rank(n) = Rank(m) /\ n.t \in {"conform", "count"} /\ n.p < m.p

validate_structure(root) ==
  \A n \in Below(root) : Inner(n) =>
    /\ \A m \in {n.yes, n.no} : m # Null => compare_bit(n, m)
    /\ n.yes # n.no

-----------------------------------------------------------------------------
(* Extraction of paths *)

Once(s) == SelectSeq([i \in DOMAIN s |-> <<i, s[i]>>], LAMBDA x : \A j \in 1..(x[1] - 1) : s[j] # x[2])
First(s) == LET o == Once(s) IN [i \in DOMAIN o |-> o[i][2]]

RECURSIVE Down(_)
Down(n) == IF n.t # "data" THEN <<>> ELSE <<n>> \o Down(n.no) \o Down(n.yes)
RECURSIVE Up(_)
Up(n) == IF n.t # "data" THEN <<>> ELSE Up(n.no) \o Up(n.yes) \o <<n>>

number_leaf_edges(root) ==
  LET nodes == First(Down(root))
      edges == [i \in 1..(2 * Len(nodes)) |-> <<nodes[(i + 1) \div 2], i % 2 = 0>>]
  IN  SelectSeq(edges, LAMBDA e : Branch(e[1], e[2]).t # "data")

(* Ways from n to a leaf edge.                                             *)
out_frequency(n, e) == count_paths(n, e[1])

(* A leaf edge, seen from a node above it, is good if many ways lead to    *)
(* the node, and many from there to another action.                        *)
Quality(root, n, edges, i) ==
  LET bit(j)   == Test(Branch(edges[j][1], edges[j][2]))
      ways(j)  == MapThenSumSet(LAMBDA k : out_frequency(n, edges[k]),
                                {k \in DOMAIN edges : k # i /\ bit(k) = bit(j)})
      out      == Max({0} \cup {ways(j) : j \in DOMAIN edges})
  IN  count_paths(root, n) * (out - out_frequency(n, edges[i]) - 1)

(* do_select_path: the first of the best in the order of the visits.       *)
select_path(root) ==
  LET edges == number_leaf_edges(root)
      nodes == First(Up(root))
      cands == {<<k, i>> \in (DOMAIN nodes) \X (DOMAIN edges) : out_frequency(nodes[k], edges[i]) > 0}
      q     == [c \in cands |-> Quality(root, nodes[c[1]], edges, c[2])]
      best  == {c \in cands : \A d \in cands : q[d] <= q[c]}
      sel   == CHOOSE c \in best : \A d \in best : c[1] < d[1] \/ (c[1] = d[1] /\ c[2] <= d[2])
  IN  edges[sel[2]]

RECURSIVE do_print_with_edge(_, _, _, _)
do_print_with_edge(n, last, v, path) ==
  LET step(w) == path \cup {<<n.group, n.bit, IF w THEN 1 ELSE 0>>}
  IN  CASE n = last -> <<Rule(step(v), Branch(n, v))>>
        [] n # last /\ n.t = "data" -> do_print_with_edge(n.no, last, v, step(FALSE))
                                       \o do_print_with_edge(n.yes, last, v, step(TRUE))
        [] OTHER -> <<>>

remove_edge(n, last, v) == unique_state(eliminate_bundle(n, last, v))

=============================================================================
