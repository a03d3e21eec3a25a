------------------------------- MODULE IfExpr ------------------------------
(***************************************************************************)
(* The expressions of the "if" pseudo-filter of tcc: typed data containers *)
(* with operators (tcc/data.h, tcc/op.c), the predicates that the          *)
(* optimizer asks of them (tcc/iflib_act.c), and what an expression means. *)
(*                                                                         *)
(* An expression is a tree.  Its leaves are comparisons of a packet field  *)
(* with a constant, the metering primitives conform and count, decisions   *)
(* and the constants 0 and 1.  Arithmetic inside of a comparison, field    *)
(* offsets and field roots are left out.                                   *)
(***************************************************************************)
EXTENDS Integers, Sequences, FiniteSets

CONSTANTS
  Fields,      \* packet fields
  Values,      \* what a field can hold
  BitFields,   \* fields that are one bit: the only values are 0 and 1
  Buckets,     \* token buckets
  MaxTokens    \* bound: packets that a bucket has tokens for

ASSUME ValuesAssumption == {0, 1} \subseteq Values /\ BitFields \subseteq Fields
ASSUME MaxTokensAssumption == MaxTokens \in Nat

Eq(f, v)       == [op |-> "==", field |-> f, value |-> v]
Ne(f, v)       == [op |-> "!=", field |-> f, value |-> v]
Conform(b)     == [op |-> "conform", bucket |-> b]
Count(b)       == [op |-> "count", bucket |-> b]
Decision(r, c) == [op |-> "decision", result |-> r, class |-> IF r = "class" THEN c ELSE "none"]
Unum(n)        == [op |-> "unum", unum |-> n]
DataNone       == [op |-> "none"]

(* What an error exit of tcc leaves behind.                                *)
Error          == [op |-> "error"]

IsLogical(d) == d.op \in {"&&", "||"}

(* A node that is changed in place, and a node made by op_binary, which    *)
(* computes what is constant and refuses what has no value.                *)
Node(o, x, y) == [op |-> o, a |-> x, b |-> y]

op_binary(o, x, y) ==
  IF x.op \in {"none", "error"} \/ y.op \in {"none", "error"} THEN Error
  ELSE IF x.op = "unum" /\ y.op = "unum"
    THEN Unum(IF o = "&&" THEN x.unum * y.unum ELSE IF x.unum + y.unum > 0 THEN 1 ELSE 0)
  ELSE Node(o, x, y)

And(x, y) == op_binary("&&", x, y)
Or(x, y)  == op_binary("||", x, y)

(* op_unary(&op_logical_not,...)                                           *)
Not(x) == IF x.op = "unum" THEN Unum(1 - x.unum) ELSE [op |-> "!", a |-> x]

(* All nodes of a tree.                                                    *)
RECURSIVE Nodes(_)
Nodes(d) ==
  {d} \cup (CASE IsLogical(d) -> Nodes(d.a) \cup Nodes(d.b)
              [] d.op = "!"   -> Nodes(d.a)
              [] OTHER        -> {})

Failed(d) == \E n \in Nodes(d) : n.op = "error"

-----------------------------------------------------------------------------
(* Predicates of the optimizer *)

side_effect(d) == \E n \in Nodes(d) : n.op \in {"decision", "count"}

(* An expression reaches a decision ("yes"), or if it does not, then its   *)
(* value is known to be false or true, or nothing is known ("no").         *)
RECURSIVE self_contained(_)
self_contained(d) ==
  CASE d.op = "unum"     -> IF d.unum = 1 THEN "no_true" ELSE "no_false"
    [] d.op = "decision" -> "yes"
    [] d.op = "count"    -> "no_true"
    [] d.op = "!" ->
         LET sc == self_contained(d.a)
         IN  CASE sc = "no_true"  -> "no_false"
               [] sc = "no_false" -> "no_true"
               [] OTHER           -> sc
    [] d.op = "&&" ->
         LET sa == self_contained(d.a)
         IN  CASE sa \in {"yes", "no_false"} -> sa
               [] sa = "no_true"             -> self_contained(d.b)
               [] OTHER -> IF self_contained(d.b) \in {"yes", "no_false"}
                             THEN "no_false" ELSE "no"
    [] d.op = "||" ->
         LET sa == self_contained(d.a)
         IN  CASE sa \in {"yes", "no_true"} -> sa
               [] sa = "no_false"           -> self_contained(d.b)
               [] OTHER -> IF self_contained(d.b) \in {"yes", "no_true"}
                             THEN "no_true" ELSE "no"
    [] OTHER -> "no"

(* Only policing, decisions and logical operators.                         *)
RECURSIVE action_tree(_)
action_tree(d) ==
  \/ d.op \in {"decision", "conform", "count"}
  \/ /\ IsLogical(d)
     /\ action_tree(d.a)
     /\ self_contained(d.a) = "yes" \/ action_tree(d.b)

-----------------------------------------------------------------------------
(* Meaning *)

(* A packet meets the buckets in some state.                               *)
Env ==
  [fields : {fv \in [Fields -> Values] : \A f \in BitFields : fv[f] \in {0, 1}},
   tokens : [Buckets -> 0..MaxTokens]]

(* Evaluation from left to right with shortcuts.  The state is what the    *)
(* buckets hold, the value of the last operand or the decision that ends   *)
(* the evaluation, and whether something went wrong after a bucket was     *)
(* counted: from then on a test failed or a bucket was counted again.      *)
Start(env) == [val |-> TRUE, dec |-> DataNone, tokens |-> env.tokens,
               counted |-> {}, clean |-> TRUE]

Tested(st, v) ==
  [st EXCEPT !.val = v, !.clean = @ /\ (v \/ st.counted = {})]

RECURSIVE Eval(_, _, _)
Eval(d, env, st) ==
  CASE d.op = "unum"     -> Tested(st, d.unum = 1)
    [] d.op = "=="       -> Tested(st, env.fields[d.field] = d.value)
    [] d.op = "!="       -> Tested(st, env.fields[d.field] # d.value)
    [] d.op = "conform"  -> Tested(st, st.tokens[d.bucket] > 0)
    [] d.op = "decision" -> [st EXCEPT !.dec = d]
    [] d.op = "count"    ->
         [st EXCEPT !.val = TRUE,
                    !.tokens[d.bucket] = IF @ > 0 THEN @ - 1 ELSE 0,
                    !.counted = @ \cup {d.bucket},
                    !.clean = @ /\ d.bucket \notin st.counted]
    [] d.op = "!" ->
         LET r == Eval(d.a, env, st)
         IN  IF r.dec # DataNone THEN r ELSE [r EXCEPT !.val = ~@]
    [] OTHER ->
         LET r == Eval(d.a, env, st)
         IN  IF r.dec # DataNone \/ r.val = (d.op = "||") THEN r
             ELSE Eval(d.b, env, r)

(* What happens to the packet and to the buckets.                          *)
Outcome(d, env) ==
  LET r == Eval(d, env, Start(env)) IN [dec |-> r.dec, tokens |-> r.tokens]

Clean(d, env) == Eval(d, env, Start(env)).clean

=============================================================================
