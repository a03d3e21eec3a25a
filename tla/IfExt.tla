-------------------------------- MODULE IfExt --------------------------------
(***************************************************************************)
(* The external target of "if" (tcc/if_ext.c): from the expressions of the *)
(* filters, as the logical and arithmetic passes leave them (IfPasses,     *)
(* IfLower), to actions and rules, either directly or by one of the three  *)
(* bit tree algorithms.                                                    *)
(***************************************************************************)
EXTENDS FastBit, ActionDb, IfOffset

CONSTANTS
  Cases,     \* bound: filters and switches, [mode, parts, default]
  Buckets    \* policing elements

VARIABLES
  case,      \* what is being compiled; mode is "rules" or a bit tree algorithm
  stage,     \* where dump_if_ext_prepare and dump_if_ext_local are
  expr,      \* the expressions; one, unless no_combine keeps the filters apart
  table,     \* offset groups
  roots,     \* action database
  tree,      \* bit tree
  rules,     \* rules that have been written
  turn       \* next expression to register or write, or next bit to sort by

vars == <<case, stage, expr, table, roots, tree, rules, turn>>

Init ==
  /\ case \in Cases
  /\ stage = "prepare"
  /\ expr = case.parts
  /\ table = <<>> /\ roots = <<>> /\ tree = Null /\ rules = <<>> /\ turn = 1

-----------------------------------------------------------------------------
(* Preparation *)

Combined == Len(case.parts) = 1

(* A packet that no filter takes goes on, or to the default class.  If the *)
(* filters are kept apart, the default class is a filter of its own.       *)
RECURSIVE Else(_, _)
Else(d, e) == IF d.op = "||" THEN Or(d.a, Else(d.b, e)) ELSE Or(d, e)

Closed(parts) ==
  IF Combined THEN <<Else(parts[1], case.default)>>
  ELSE [i \in DOMAIN parts |-> Else(parts[i], Unspec)]
       \o (IF case.default = Unspec THEN <<>> ELSE <<case.default>>)

iflib_offset(d) == push_offset(trim_roots(bubble_roots(use_offset(d), FALSE), 0), 0)

dump_if_ext_prepare ==
  LET lowered == [i \in DOMAIN Closed(expr) |-> iflib_offset(Closed(expr)[i])]
  IN  /\ stage = "prepare"
      /\ expr' = lowered
      /\ table' = FoldLeft(LAMBDA t, d : scan_offsets(d, t), table, lowered)
      /\ stage' = case.mode
      /\ UNCHANGED <<case, roots, tree, rules, turn>>

-----------------------------------------------------------------------------
(* Rules from the expression *)

RECURSIVE dump_actions(_, _)
dump_actions(d, db) ==
  IF action_tree(d) THEN register_actions(d, db)
  ELSE IF ~HasOp(d) THEN db
  ELSE dump_actions(d.c, dump_actions(d.b, dump_actions(d.a, db)))

(* What has been collected of the current rule, the rules that are         *)
(* complete, and whether the last one can match.                           *)
Progress(bits, out, ok) == [bits |-> bits, out |-> out, ok |-> ok]

(* bit_match: a bit that has to be one and zero makes the rule useless.    *)
bit_match(st, g, n, v) ==
  IF ~st.ok THEN st
  ELSE IF \E b \in st.bits : b[1] = g /\ b[2] = n
  THEN [st EXCEPT !.ok = <<g, n, v>> \in st.bits]
  ELSE [st EXCEPT !.bits = @ \cup {<<g, n, v>>}]

decompose_match(g, acc, mask, value, st) ==
  LET len == acc.c.v
      bit(s, k) == IF len - k \in Bits(mask, len)
                   THEN bit_match(s, g, acc.b.v * ByteBits + k - 1,
                                  IF len - k \in Bits(value, len) THEN 1 ELSE 0)
                   ELSE s
  IN  IF BitAnd(value, mask) # value THEN [st EXCEPT !.ok = FALSE]
      ELSE FoldLeft(bit, st, [k \in 1..len |-> k])

RECURSIVE dump_match(_, _, _, _, _)
dump_match(a, value, mask, g, st) ==
  CASE a.op = "&"          -> dump_match(a.a, value, BitAnd(mask, Val(AsU128(a.b))), g, st)
    [] a.op = "field_root" -> dump_match(a.a, value, mask, a.b.v, st)
    [] a.op = "offset"     -> dump_match(a.a, value, mask, get_offset_group(a, g, table).g, st)
    [] a.op = "access"     -> decompose_match(g, a, mask, value, st)

dump_action(d, st) ==
  Progress({}, Append(st.out, Rule(st.bits, get_action(d))), TRUE)

RECURSIVE dump_or(_, _, _)
RECURSIVE dump_and(_, _, _)
RECURSIVE dump_other(_, _, _)
dump_other(d, g, st) ==
  CASE d.op = "==" -> dump_match(d.a, Val(AsU128(d.b)), Base^4 - 1, g, [st EXCEPT !.ok = TRUE])
    [] d.op # "==" /\ action_tree(d) -> dump_action(d, st)
    [] d.op = "field_root" -> dump_or(d.a, d.b.v, st)
    [] d.op = "offset" -> dump_or(d.a, get_offset_group(d, g, table).g, st)

dump_and(d, g, st) ==
  IF d.op # "&&" \/ action_tree(d) THEN dump_other(d, g, st)
  ELSE LET a == dump_other(d.a, g, st)
       IN  IF a.ok THEN dump_and(d.b, g, a) ELSE [a EXCEPT !.bits = {}]

(* Always "useful", even if none of the alternatives is.                   *)
dump_or(d, g, st) ==
  IF d.op = "||" /\ ~action_tree(d) THEN dump_or(d.b, g, dump_and(d.a, g, st))
  ELSE [dump_and(d, g, st) EXCEPT !.ok = TRUE]

dump_rules(d) == dump_or(d, 0, Progress({}, <<>>, TRUE)).out

RegisterActions ==
  /\ stage = "rules"
  /\ roots' = FoldLeft(LAMBDA db, d : dump_actions(d, db), roots, expr)
  /\ stage' = "write"
  /\ UNCHANGED <<case, expr, table, tree, rules, turn>>

(* The rules of the filters, with barriers between them.                   *)
DumpRules ==
  /\ stage = "write"
  /\ rules' = rules \o (IF turn > 1 THEN <<Barrier>> ELSE <<>>) \o dump_rules(expr[turn])
  /\ turn' = turn + 1
  /\ stage' = IF turn = Len(expr) THEN "done" ELSE "write"
  /\ UNCHANGED <<case, expr, table, roots, tree>>

-----------------------------------------------------------------------------
(* Rules from a bit tree *)

Step(from, to, next) ==
  /\ stage = from
  /\ tree' = next
  /\ stage' = to
  /\ UNCHANGED <<case, expr, table, roots, rules, turn>>

(* iflib_bit                                                               *)
BuildTree    == Step("bit", "bit_dup", bit_tree(expr[1], Null, Null, 0, table))
RemoveDup    == Step("bit_dup", "bit_bubble", remove_duplicates(tree, {}))
BubbleStatic == Step("bit_bubble", "bit_merge", bubble_static(tree))
MergeCommon  == Step("bit_merge", "bit_collapse", unique_state(tree))
Collapse     == Step("bit_collapse", "bit_dump", collapse_common(tree))

(* One round of smart_dump.                                                *)
SmartDump ==
  LET b == find_least_common_branch(tree)
  IN  /\ stage = "bit_dump"
      /\ tree.t = "data"
      /\ rules' = rules \o dump_all_paths_to(tree, b[1], b[2], <<>>)
      /\ tree' = collapse_common(unique_state(eliminate_bundle(tree, b[1], b[2])))
      /\ UNCHANGED <<case, stage, expr, table, roots, turn>>

(* The rule for all other packets.                                         *)
LastRule ==
  /\ stage \in {"bit_dump", "new_paths"}
  /\ tree.t # "data"
  /\ rules' = Append(rules, Rule({}, tree))
  /\ stage' = "done"
  /\ UNCHANGED <<case, expr, table, roots, tree, turn>>

(* iflib_newbit                                                            *)
MakeDag == Step("newbit", "new_sort", make_dag(expr[1], Null, Null, 0, table))
SortDag == Step("new_sort", "new_paths", sort_subdag(tree))

(* One round of extract_paths.                                             *)
ExtractPath ==
  LET merged == merge_tails(tree)
      e      == select_path(merged)
  IN  /\ stage = "new_paths"
      /\ tree.t = "data"
      /\ rules' = rules \o do_print_with_edge(merged, e[1], e[2], {})
      /\ tree' = remove_edge(merged, e[1], e[2])
      /\ UNCHANGED <<case, stage, expr, table, roots, turn>>

(* iflib_fastbit, with one round of its sort_dag per bit of the numbers.   *)
MakeFastDag == Step("fastbit", "fast_sort", make_dag(expr[1], Null, Null, 0, table))
QuickDag ==
  /\ stage = "fast_sort"
  /\ tree' = quick_dag(tree, TagBit + 1 - turn)
  /\ turn' = turn + 1
  /\ stage' = IF turn > TagBit THEN "done" ELSE "fast_sort"
  /\ UNCHANGED <<case, expr, table, roots, rules>>

Next ==
  \/ dump_if_ext_prepare \/ RegisterActions \/ DumpRules
  \/ BuildTree \/ RemoveDup \/ BubbleStatic \/ MergeCommon \/ Collapse \/ SmartDump \/ LastRule
  \/ MakeDag \/ SortDag \/ ExtractPath \/ MakeFastDag \/ QuickDag

Spec == Init /\ [][Next]_vars

-----------------------------------------------------------------------------
(* Properties *)

Accesses(e) == {n \in Nodes(e) : n.op = "access"}
UsedRoots  == UNION {{n.a.v : n \in Accesses(case.parts[i])} : i \in DOMAIN case.parts}
PacketsOf  == [Roots -> {{}}] \cup
  {[r \in Roots |-> IF r \in UsedRoots THEN p[r] ELSE {}] : p \in [UsedRoots -> SUBSET (0..(PacketBits - 1))]}

(* What the filters say: each in turn, until one decides.                  *)
RECURSIVE Wanted(_, _, _)
Wanted(parts, pkt, tokens) ==
  IF parts = <<>> THEN [dec |-> case.default, tokens |-> tokens]
  ELSE LET r == Outcome(Or(Head(parts), Unspec), pkt, tokens)
       IN  IF r.dec = Unspec THEN Wanted(Tail(parts), pkt, r.tokens)
           ELSE [dec |-> r.dec, tokens |-> r.tokens]

(* What has been compiled says: the rules, and the tree for what they      *)
(* leave.                                                                  *)
Compiled(pkt, tokens) ==
  IF case.mode = "rules" \/ Hits(rules, table, pkt) # {} THEN match(rules, table, pkt, tokens)
  ELSE action(tree, table, pkt, tokens)

(* At every point of the bit tree algorithms, and at the end, what has     *)
(* been written and what is left decide about every packet, and count for  *)
(* every bucket, as the filters do.                                        *)
Decides ==
  stage = "done" \/ tree # Null =>
    \A p \in PacketsOf, t \in [Buckets -> 0..MaxTokens] :
      Compiled(p, t) = Wanted(case.parts, p, t)

(* The actions that rules refer to have numbers of their own, and are      *)
(* defined after those that they refer to.                                 *)
ActionsDefined ==
  stage = "done" /\ case.mode = "rules" =>
    LET w == write_actions(roots)
    IN  /\ \A i \in DOMAIN rules : rules[i] # Barrier => rules[i].act \in DOMAIN w.number
        /\ \A x, y \in DOMAIN w.number : w.number[x] = w.number[y] => x = y
        /\ \A i \in DOMAIN w.lines : \A c \in Below(w.lines[i]) \ {w.lines[i], Null} :
             \E j \in 1..(i - 1) : w.lines[j] = c

(* The shapes without which the algorithms abort: no packet data below a   *)
(* meter once they are written, sorted tests at the end.                   *)
WellFormed ==
  /\ stage \in {"bit_merge", "bit_collapse", "bit_dump"} =>
       \A n \in Below(tree) : n.t \in {"conform", "count"} => {n.yes.t, n.no.t} \cap {"data"} = {}
  /\ stage = "new_paths" => validate_structure(merge_tails(tree))
  /\ stage = "done" /\ case.mode = "fastbit" => verify_dag(tree)

RECURSIVE AllWays(_)
AllWays(n) == IF n.t = "data" THEN AllWays(n.yes) + AllWays(n.no) ELSE 1

(* Each round of the extraction of rules leaves fewer ways through the     *)
(* tree, so it ends.                                                       *)
Shrinks == [][stage' = stage /\ stage \in {"bit_dump", "new_paths"} => AllWays(tree') < AllWays(tree)]_vars

=============================================================================
