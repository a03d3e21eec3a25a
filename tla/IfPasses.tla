------------------------------ MODULE IfPasses -----------------------------
(***************************************************************************)
(* How tcc turns the "if" expressions of a qdisc into the form that the    *)
(* u32 target dumps: iflib_combine (tcc/iflib_comb.c) puts them together,  *)
(* and dump_if_u32 (tcc/if_u32.c) sends the result through the passes of   *)
(* tcc/iflib_not.c, tcc/iflib_red.c and tcc/iflib_act.c.  Each action is   *)
(* one pass over the whole tree.                                           *)
(***************************************************************************)
EXTENDS IfExpr, SequencesExt

CONSTANTS
  Sources,     \* the lists of [expr, class] that a qdisc may have
  Cse          \* -Ocse, the default

ASSUME CseAssumption == Cse \in BOOLEAN

VARIABLES
  source,      \* the elements as written
  d,           \* the expression that is being changed
  todo         \* the passes that are still to be made

vars == <<source, d, todo>>

-----------------------------------------------------------------------------
(* iflib_combine *)

(* complement_decisions: the class of the element is selected where its    *)
(* expression is true.  The decisions inside of it keep their result, and  *)
(* in a drop element all of them become drop.                              *)
RECURSIVE complement_leaf_decisions(_, _)
complement_leaf_decisions(e, class) ==
  CASE e.op = "decision" -> IF class = "drop" THEN Decision("drop", class)
                                              ELSE Decision(e.result, class)
    [] e.op = "!"   -> [e EXCEPT !.a = complement_leaf_decisions(@, class)]
    [] IsLogical(e) -> [e EXCEPT !.a = complement_leaf_decisions(@, class),
                                 !.b = complement_leaf_decisions(@, class)]
    [] OTHER        -> e

complement_decisions(e, class) ==
  complement_leaf_decisions(
    And(e, Decision(IF class = "drop" THEN "drop" ELSE "class", class)), class)

iflib_combine(list) ==
  FoldLeft(LAMBDA root, el :
             IF root = DataNone THEN complement_decisions(el.expr, el.class)
                                ELSE Or(root, complement_decisions(el.expr, el.class)),
           DataNone, list)

Continue == Decision("continue", "none")

-----------------------------------------------------------------------------
(* iflib_not *)

(* A test of a single bit is inverted by changing the bit.                 *)
single_bit_test(e) == e.field \in BitFields /\ e.value \in {0, 1}

(* An expression has a continuation "next" and an alternative "otherwise": *)
(* !a becomes (a && otherwise) || next.                                    *)
RECURSIVE bubble_not(_, _, _)
bubble_not(e, next, otherwise) ==
  CASE e.op = "!=" ->
         IF single_bit_test(e) THEN Eq(e.field, 1 - e.value)
         ELSE bubble_not(Not(Eq(e.field, e.value)), next, otherwise)
    [] e.op = "!" ->
         CASE e.a.op = "!"  -> bubble_not(e.a.a, next, otherwise)
           [] e.a.op = "!=" -> Eq(e.a.field, e.a.value)
           [] OTHER -> Or(And(bubble_not(e.a, otherwise, next), otherwise), next)
    [] IsLogical(e) ->
         LET b   == bubble_not(e.b, next, otherwise)
             ext == Or(And(b, next), otherwise)
         IN  Node(e.op, IF e.op = "||" THEN bubble_not(e.a, next, ext)
                                       ELSE bubble_not(e.a, ext, otherwise), b)
    [] OTHER -> e

-----------------------------------------------------------------------------
(* iflib_reduce and iflib_normalize *)

(* (a || b) || c  ->  a || (b || c), and the same for &&.                  *)
RECURSIVE linearize(_)
linearize(e) ==
  CASE IsLogical(e) ->
         IF e.a.op = e.op
           THEN linearize(Node(e.op, e.a.a, Node(e.op, e.a.b, e.b)))
           ELSE Node(e.op, linearize(e.a), linearize(e.b))
    [] e.op = "!" -> [e EXCEPT !.a = linearize(@)]
    [] OTHER -> e

(* Dead branches: what follows a decision, and constant operands.          *)
PruneAnd(x, y) ==
  CASE x.op = "decision" -> x
    [] x = Unum(0) -> Unum(0)
    [] x = Unum(1) -> y
    [] y = Unum(0) /\ ~side_effect(x) -> Unum(0)
    [] y = Unum(1) -> x
    [] OTHER -> Node("&&", x, y)

PruneOr(x, y) ==
  CASE x.op = "decision" -> x
    [] x = Unum(1) -> Unum(1)
    [] x = Unum(0) -> y
    [] y = Unum(1) /\ ~side_effect(x) -> Unum(1)
    [] y = Unum(0) -> x
    [] OTHER -> Node("||", x, y)

RECURSIVE prune_shortcuts(_)
prune_shortcuts(e) ==
  CASE e.op = "&&" -> PruneAnd(prune_shortcuts(e.a), prune_shortcuts(e.b))
    [] e.op = "||" -> PruneOr(prune_shortcuts(e.a), prune_shortcuts(e.b))
    [] e.op = "!"  -> [e EXCEPT !.a = prune_shortcuts(@)]
    [] OTHER -> e

SlipMaySplitLeft(x, y) == x.op = "||"

(* (a || b) && c may be split into (a && c) || (b && c).                   *)
MaySplitLeft(x, y) ==
  /\ x.op = "||"
  /\ \/ ~side_effect(x.b)
     \/ self_contained(y) = "yes"
     \/ self_contained(x.a) \in {"yes", "no_true"}

(* a && (b || c) is split into (a && b) || (a && c), unless the right side *)
(* is an action tree that ends in a decision.                              *)
MaySplitRight(y) ==
  y.op = "||" /\ ~(action_tree(y) /\ self_contained(y) = "yes")

RECURSIVE bubble_or(_)
bubble_or(e) ==
  CASE e.op = "!"  -> [e EXCEPT !.a = bubble_or(@)]
    [] e.op = "||" -> Node("||", bubble_or(e.a), bubble_or(e.b))
    [] e.op = "&&" ->
         LET x == bubble_or(e.a)
             y == bubble_or(e.b)
         IN  CASE self_contained(x) \in {"yes", "no_false"} -> bubble_or(x)
               [] MaySplitLeft(x, y)  -> bubble_or(Or(And(x.a, y), And(x.b, y)))
               [] MaySplitRight(y)    -> bubble_or(Or(And(x, y.a), And(x, y.b)))
               [] OTHER -> Node("&&", x, y)
    [] OTHER -> e

(* A chain of operators o, as the sequence of its operands.                *)
RECURSIVE Chain(_, _)
Chain(o, e) == IF e.op = o THEN <<e.a>> \o Chain(o, e.b) ELSE <<e>>

Unchain(o, cells) ==
  IF cells = << >> THEN DataNone
  ELSE FoldRight(LAMBDA x, y : Node(o, x, y), Front(cells), Last(cells))

(* The walk along a chain of three or more looks for its first operand.    *)
(* One inside the chain is taken out, and the search starts again; one at  *)
(* the end of it is taken out as well, and ends the search.                *)
RECURSIVE DropRepeats(_)
DropRepeats(cells) ==
  LET dup == {i \in 2..Len(cells) : cells[i] = cells[1]}
  IN  IF dup = {} \/ Len(cells) < 3 THEN cells
      ELSE LET i == CHOOSE i \in dup : \A j \in dup : i <= j
           IN  IF i = Len(cells) THEN Front(cells) ELSE DropRepeats(RemoveAt(cells, i))

RECURSIVE common_subexpressions(_)
common_subexpressions(e) ==
  CASE e.op = "!" -> [e EXCEPT !.a = common_subexpressions(@)]
    [] IsLogical(e) ->
         LET new == Unchain(e.op, DropRepeats(Chain(e.op, e)))
         IN  Node(new.op, common_subexpressions(new.a), common_subexpressions(new.b))
    [] OTHER -> e

(* bundle_find_best: the rows of a || chain are chains of &&.  The best    *)
(* block of rows has the most cells in its common prefix; of several the   *)
(* first one is taken.                                                     *)
Blocks(rows) ==
  {b \in (1..Len(rows)) \X (2..Len(rows)) \X (1..Max({Len(r) : r \in Range(rows)})) :
     /\ b[1] + b[2] - 1 <= Len(rows)
     /\ \A i \in b[1]..(b[1] + b[2] - 1) :
          Len(rows[i]) >= b[3] /\ SubSeq(rows[i], 1, b[3]) = SubSeq(rows[b[1]], 1, b[3])}

Before(b, c) ==
  \/ b[2] * b[3] > c[2] * c[3]
  \/ /\ b[2] * b[3] = c[2] * c[3]
     /\ b[1] < c[1] \/ (b[1] = c[1] /\ b[2] <= c[2])

BestBlock(blocks) == CHOOSE b \in blocks : \A c \in blocks : Before(b, c)

(* bundle_rebuild: the block becomes prefix && (what remains of its rows). *)
(* If the last row is the prefix then nothing remains; if another one is,  *)
(* then op_binary gets an operand without a value.                         *)
Bundled(rows, b) ==
  LET last == b[1] + b[2] - 1
      rest == [i \in 1..b[2] |-> Unchain("&&", SubSeq(rows[b[1] + i - 1], b[3] + 1, Len(rows[b[1] + i - 1])))]
      pre  == SubSeq(rows[b[1]], 1, b[3])
      new  == IF rest[b[2]] = DataNone
                THEN Unchain("&&", pre)
                ELSE Unchain("&&", Append(pre, FoldRight(Or, Front(rest), rest[b[2]])))
  IN  Unchain("||",
        [i \in 1..(b[1] - 1) |-> Unchain("&&", rows[i])]
        \o <<new>>
        \o [i \in 1..(Len(rows) - last) |-> Unchain("&&", rows[last + i])])

RECURSIVE bundle(_)
bundle(e) ==
  CASE e.op = "!"  -> [e EXCEPT !.a = bundle(@)]
    [] e.op = "&&" -> Node("&&", bundle(e.a), bundle(e.b))
    [] e.op = "||" ->
         LET chain  == Chain("||", e)
             rows   == [i \in 1..Len(chain) |-> Chain("&&", chain[i])]
             blocks == Blocks(rows)
         IN  IF blocks = {} THEN Node("||", bundle(e.a), bundle(e.b))
             ELSE bundle(Bundled(rows, BestBlock(blocks)))
    [] OTHER -> e

-----------------------------------------------------------------------------
(* iflib_actions *)

RECURSIVE trim_self_contained(_)
trim_self_contained(e) ==
  CASE e.op = "!" -> [e EXCEPT !.a = trim_self_contained(@)]
    [] IsLogical(e) ->
         LET x == trim_self_contained(e.a)
         IN  IF self_contained(x) = "yes" THEN x
             ELSE Node(e.op, x, trim_self_contained(e.b))
    [] OTHER -> e

SlipBubbleAnd(x, y) == Node("&&", x, y)

(* bubble_and: action && match -> match && action, which is refused when   *)
(* either side has a side-effect (a decision in the action is one).        *)
bubble_and(x, y) ==
  IF ~action_tree(x) \/ action_tree(y) THEN Node("&&", x, y)
  ELSE IF side_effect(x) \/ side_effect(y) THEN Error
  ELSE Node("&&", y, x)

(* An && chain splits into matches and the first action tree in it, or its *)
(* last operand.                                                           *)
RECURSIVE Cut(_)
Cut(e) == IF e.op = "&&" /\ ~action_tree(e) THEN Cut(e.b) ELSE e

RECURSIVE AtCut(_, _)
AtCut(e, new) ==
  IF e.op = "&&" /\ ~action_tree(e) THEN Node("&&", e.a, AtCut(e.b, new)) ELSE new

(* precondition_or: each alternative of x gets the matches of cond.        *)
RECURSIVE precondition_or(_, _)
precondition_or(x, cond) ==
  IF x.op = "||" /\ ~action_tree(x)
    THEN Node("||", AtCut(cond, x.a), precondition_or(x.b, cond))
    ELSE AtCut(cond, x)

(* Each action tree is tried after the policing p.                         *)
RECURSIVE attach_prev(_, _)
attach_prev(e, p) ==
  CASE action_tree(e) -> IF self_contained(p) = "yes" THEN p ELSE Or(p, e)
    [] ~action_tree(e) /\ e.op = "!" -> [e EXCEPT !.a = attach_prev(@, p)]
    [] ~action_tree(e) /\ IsLogical(e) ->
         Node(e.op, attach_prev(e.a, p), attach_prev(e.b, p))
    [] OTHER -> e

RECURSIVE AddDefault(_, _)
AddDefault(e, x) ==
  IF e.op = "||" THEN Node("||", e.a, AddDefault(e.b, x)) ELSE Or(e, x)

(* bubble_or of iflib_act.c: (M && P) || X, where P is policing that may   *)
(* not reach a decision, becomes M && (P || X) and, failing that, X.       *)
act_bubble_or(x, y) ==
  LET p   == Cut(x)
      new == attach_prev(precondition_or(y, x), p)
  IN  IF self_contained(p) = "yes" THEN Node("||", x, y)
      ELSE IF self_contained(new) = "yes" THEN new
      ELSE AddDefault(new, y)

RECURSIVE push_action(_)
push_action(e) ==
  CASE e.op = "!"  -> [e EXCEPT !.a = push_action(@)]
    [] e.op = "&&" -> bubble_and(push_action(e.a), push_action(e.b))
    [] e.op = "||" -> act_bubble_or(push_action(e.a), push_action(e.b))
    [] OTHER -> e

-----------------------------------------------------------------------------
(* dump_if_u32 *)

iflib_normalize == <<"bubble_or", "linearize">>

iflib_reduce ==
  <<"linearize", "prune_shortcuts">> \o
  (IF Cse THEN <<"bundle">> \o iflib_normalize \o
                 <<"common_subexpressions", "bundle", "prune_shortcuts">>
          ELSE iflib_normalize)

iflib_actions ==
  <<"trim_self_contained", "push_action">> \o iflib_reduce \o iflib_normalize \o
  <<"push_action">>

Init ==
  /\ source \in Sources
  /\ d = Or(iflib_combine(source), Continue)
  /\ todo = <<"bubble_not">> \o iflib_reduce \o iflib_normalize \o iflib_actions

(* A pass; tcc exits when it fails.                                        *)
Pass(name, new) ==
  /\ todo # << >>
  /\ Head(todo) = name
  /\ d' = new
  /\ todo' = IF Failed(new) THEN << >> ELSE Tail(todo)
  /\ UNCHANGED source

IflibNot             == Pass("bubble_not", bubble_not(d, Unum(1), Unum(0)))
Linearize            == Pass("linearize", linearize(d))
PruneShortcuts       == Pass("prune_shortcuts", prune_shortcuts(d))
Bundle               == Pass("bundle", bundle(d))
BubbleOr             == Pass("bubble_or", bubble_or(d))
CommonSubexpressions == Pass("common_subexpressions", common_subexpressions(d))
TrimSelfContained    == Pass("trim_self_contained", trim_self_contained(d))
PushAction           == Pass("push_action", push_action(d))

Next ==
  \/ IflibNot \/ Linearize \/ PruneShortcuts \/ Bundle \/ BubbleOr
  \/ CommonSubexpressions \/ TrimSelfContained \/ PushAction

Spec == Init /\ [][Next]_vars

-----------------------------------------------------------------------------
(* Properties *)

Original == Or(iflib_combine(source), Continue)

(* No pass changes what happens to a packet: the expression decides the    *)
(* same and takes the same tokens as what the user wrote.  This is stated  *)
(* for the packets with which no test fails after a bucket has been        *)
(* counted, because the targets meter behind all matches.                  *)
Preserved ==
  ~Failed(d) =>
    \A env \in Env : Clean(Original, env) => Outcome(d, env) = Outcome(Original, env)

(* The same of the result only: what tcc is going to dump is what the user *)
(* wrote.                                                                  *)
Compiled == todo = << >> => Preserved

(* The result has the canonical form of iflib_act.c: policing and          *)
(* decisions come behind all matches of an && chain, and no negation is    *)
(* left.  Later passes never undo what an earlier one has established.     *)
Canonical ==
  todo = << >> /\ ~Failed(d) =>
    \A n \in Nodes(d) :
      /\ n.op \notin {"!", "!="}
      /\ n.op = "&&" /\ action_tree(n.a) => action_tree(n.b)

=============================================================================
