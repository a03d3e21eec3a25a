------------------------------- MODULE PktExpr ------------------------------
(***************************************************************************)
(* Expressions over packet data as tcc builds them: the operators of       *)
(* tcc/op.c, each of which computes what is constant when it is made, the  *)
(* containers of tcc/data.c, and what an expression means for a packet.    *)
(*                                                                         *)
(* Numbers are of type unum or ipv6; IPv4 addresses behave as unum, and    *)
(* floating point numbers, units and strings do not occur in an "if".      *)
(***************************************************************************)
EXTENDS U128, Sequences

CONSTANTS
  ByteBits,    \* bits that an offset counts, 8
  PacketBits,  \* bound: bits of packet data behind each field root
  Roots,       \* field roots (offset groups that are fixed)
  MaxTokens    \* bound: packets that a bucket has tokens for

ASSUME ByteBitsAssumption == ByteBits \in Nat \ {0} /\ PacketBits \in Nat /\ MaxTokens \in Nat
ASSUME RootsAssumption == 0 \in Roots

None           == [op |-> "none"]
Unum(n)        == [op |-> "unum", v |-> n]
Ipv6(n)        == [op |-> "ipv6", u |-> n]
Root(r)        == [op |-> "root", v |-> r]
Police(p)      == [op |-> "police", p |-> p]
Decision(r, c) == [op |-> "decision", d |-> <<r, c>>]

(* What an error exit, or a division by zero, leaves behind.               *)
Error          == [op |-> "error"]

Leaves     == {"none", "unum", "ipv6", "root", "police", "decision", "error"}
HasOp(d)   == d.op \notin Leaves
IsConst(d) == d.op \in {"unum", "ipv6"}

Node3(o, x, y, z) == [op |-> o, a |-> x, b |-> y, c |-> z]
Node(o, x, y)     == Node3(o, x, y, None)
Access(x, b, len) == Node3("access", x, b, Unum(len))

(* Every pass goes through the operands in this way.                       *)
Walk(f(_), d) == Node3(d.op, f(d.a), f(d.b), f(d.c))

Relational == {"==", "!=", ">", ">=", "<", "<="}
Logical    == {"&&", "||"}

RECURSIVE Nodes(_)
Nodes(d) == {d} \cup (IF HasOp(d) THEN Nodes(d.a) \cup Nodes(d.b) \cup Nodes(d.c) ELSE {})

Failed(d) == \E n \in Nodes(d) : n.op = "error"

(* data_convert to an IPv6 address.                                        *)
AsU128(d) == IF d.op = "unum" THEN u128_from_32(d.v) ELSE d.u
OfU128(u) == IF u128_is_32(u) THEN Unum(u[0]) ELSE Ipv6(u)

-----------------------------------------------------------------------------
(* Construction of operators *)

Bool(p) == Unum(IF p THEN 1 ELSE 0)

(* The type of the result if it is constant: IPv6 wins.                    *)
mix_types(x, y) == IF "ipv6" \in {x.op, y.op} THEN "ipv6" ELSE "unum"

additive_eval(o, x, y) ==
  CASE y = Unum(0)              -> x
    [] o = "+" /\ x = Unum(0)   -> y
    [] ~IsConst(x) \/ ~IsConst(y) -> Node(o, x, y)
    [] mix_types(x, y) = "ipv6" ->
         Ipv6(IF o = "+" THEN u128_add(AsU128(x), AsU128(y)) ELSE u128_sub(AsU128(x), AsU128(y)))
    [] OTHER -> Unum((IF o = "+" THEN x.v + y.v ELSE x.v - y.v) % Base)

(* A product that is too large, and a division of a constant by 0 - also   *)
(* in the test whether the product is too large - end the program.         *)
mult_eval(x, y) ==
  CASE "ipv6" \in {x.op, y.op} -> Error
    [] ~IsConst(x) \/ ~IsConst(y) -> Node("*", x, y)
    [] x.v = 0 \/ x.v * y.v >= Base -> Error
    [] OTHER -> Unum(x.v * y.v)

div_eval(x, y) ==
  CASE "ipv6" \in {x.op, y.op} -> Error
    [] ~IsConst(x) \/ ~IsConst(y) -> Node("/", x, y)
    [] OTHER -> IF y.v = 0 THEN Error ELSE Unum(x.v \div y.v)

unum2_eval(o, x, y) ==
  CASE o = "%" /\ "ipv6" \in {x.op, y.op} -> Error
    [] ~IsConst(x) \/ ~IsConst(y) -> Node(o, x, y)
    [] mix_types(x, y) = "ipv6" ->
         Ipv6(CASE o = "&" -> u128_and(AsU128(x), AsU128(y))
                [] o = "|" -> u128_or(AsU128(x), AsU128(y))
                [] o = "^" -> u128_xor(AsU128(x), AsU128(y)))
    [] o = "%" -> IF y.v = 0 THEN Error ELSE Unum(x.v % y.v)
    [] OTHER   -> Unum(CASE o = "&" -> BitAnd(x.v, y.v)
                         [] o = "|" -> BitOr(x.v, y.v)
                         [] o = "^" -> BitXor(x.v, y.v))

shift_eval(o, x, y) ==
  CASE y.op = "ipv6" -> Error
    [] ~IsConst(x) \/ ~IsConst(y) -> Node(o, x, y)
    [] o = "<<" /\ x.op = "unum" ->
         IF x.v * 2^y.v >= Base THEN Error ELSE Unum(x.v * 2^y.v)
    [] o = "<<" /\ x.op = "ipv6" ->
         IF Val(x.u) * 2^y.v >= Base^4 THEN Error ELSE Ipv6(u128_shift_left(x.u, y.v))
    [] x.op = "unum" -> Unum(ShiftR(x.v, y.v))
    [] OTHER -> Ipv6(u128_shift_right(x.u, y.v))

NonZero(x) == IF x.op = "ipv6" THEN ~u128_is_zero(x.u) ELSE x.v # 0

and_or_eval(o, x, y) ==
  CASE {x.op, y.op} \cap {"none", "error", "root", "police"} # {} -> Error
    [] ~IsConst(x) \/ ~IsConst(y) -> Node(o, x, y)
    [] OTHER -> Bool(IF o = "&&" THEN NonZero(x) /\ NonZero(y) ELSE NonZero(x) \/ NonZero(y))

(* eval_cmp: what a comparison says of the sign of the difference.         *)
eval_cmp(o, cmp) ==
  CASE cmp < 0 -> o \in {"<", "<=", "!="}
    [] cmp > 0 -> o \in {">", ">=", "!="}
    [] OTHER   -> o \in {"==", ">=", "<="}

rel_eval(o, x, y) ==
  CASE ~IsConst(x) \/ ~IsConst(y) -> Node(o, x, y)
    [] mix_types(x, y) = "ipv6"   -> Bool(eval_cmp(o, u128_cmp(AsU128(x), AsU128(y))))
    [] OTHER                      -> Bool(eval_cmp(o, x.v - y.v))

op_binary(o, x, y) ==
  CASE Error \in {x, y}     -> Error
    [] o \in {"+", "-"}     -> additive_eval(o, x, y)
    [] o = "*"              -> mult_eval(x, y)
    [] o = "/"              -> div_eval(x, y)
    [] o \in {"%", "&", "|", "^"} -> unum2_eval(o, x, y)
    [] o \in {"<<", ">>"}   -> shift_eval(o, x, y)
    [] o \in Logical        -> and_or_eval(o, x, y)
    [] o \in Relational     -> rel_eval(o, x, y)
    [] OTHER                -> Node(o, x, y)

And(x, y)  == op_binary("&&", x, y)
Or(x, y)   == op_binary("||", x, y)
Conform(p) == Node("conform", Police(p), None)
Count(p)   == Node("count", Police(p), None)

(* data::from:to, a mask of "upper" bits that starts behind "lower" bits   *)
(* from the left if "lower" is given, and at the right otherwise.          *)
mask_eval(x, lower, upper) ==
  LET width == IF x.op = "ipv6" THEN 4 * W ELSE W
      bits  == (IF lower = None THEN 0 ELSE lower.v) + (IF upper = None THEN 0 ELSE upper.v)
      ones  == 2^(IF upper # None THEN upper.v ELSE lower.v) - 1
      mask  == IF lower # None THEN ones * 2^(width - bits) ELSE ones
  IN  IF bits > width THEN Error
      ELSE op_binary("&", x, IF x.op = "ipv6" THEN Ipv6(OfNat(mask)) ELSE Unum(mask))

-----------------------------------------------------------------------------
(* Meaning *)

(* A packet is the set of its bits that are one, behind each field root.   *)
TypeMax(width) == 2^width - 1

RECURSIVE Wide(_)
Wide(e) ==
  CASE e.op = "ipv6"   -> TRUE
    [] e.op = "access" -> e.c.v > W
    [] e.op \in {"&", "|", "^", "+", "-", "<<", ">>"} -> Wide(e.a) \/ Wide(e.b)
    [] e.op \in {"offset", "field_root"} -> Wide(e.a)
    [] OTHER -> FALSE

(* A number, or -1 where an operation leaves the range of its type.  The   *)
(* context has the field root and the byte offset that apply.              *)
Exact(e, n) == IF n \in 0..TypeMax(IF Wide(e) THEN 4 * W ELSE W) THEN n ELSE -1

BitsAt(pkt, root, first, len) ==
  OfBits({i \in 0..(len - 1) : first + len - 1 - i \in pkt[root]})

RECURSIVE Value(_, _, _)
Value(e, pkt, ctx) ==
  CASE e.op = "unum" -> e.v
    [] e.op = "ipv6" -> Val(e.u)
    [] e.op = "field_root" -> Value(e.a, pkt, [root |-> e.b.v, base |-> 0])
    [] e.op = "offset" ->
         LET off == Value(e.b, pkt, ctx)
         IN  IF off = -1 THEN -1 ELSE Value(e.a, pkt, [ctx EXCEPT !.base = @ + off])
    [] e.op = "access" ->
         LET off == Value(e.b, pkt, ctx)
             own == e.a.op = "root"
         IN  IF off = -1 THEN -1
             ELSE BitsAt(pkt, IF own THEN e.a.v ELSE ctx.root, (ctx.base + off) * ByteBits, e.c.v)
    [] OTHER ->
         LET x == Value(e.a, pkt, ctx)
             y == Value(e.b, pkt, ctx)
         IN  IF -1 \in {x, y} \/ (e.op \in {"/", "%"} /\ y = 0) THEN -1
             ELSE CASE e.op = "+"  -> Exact(e, x + y)
                    [] e.op = "-"  -> Exact(e, x - y)
                    [] e.op = "*"  -> Exact(e, x * y)
                    [] e.op = "/"  -> x \div y
                    [] e.op = "%"  -> x % y
                    [] e.op = "&"  -> BitAnd(x, y)
                    [] e.op = "|"  -> BitOr(x, y)
                    [] e.op = "^"  -> BitXor(x, y)
                    [] e.op = "<<" -> Exact(e, x * 2^y)
                    [] e.op = ">>" -> x \div 2^y
                    [] e.op \in Relational -> IF eval_cmp(e.op, x - y) THEN 1 ELSE 0

(* Evaluation from left to right with shortcuts: the value of the last     *)
(* operand, the decision that ends it, and what the buckets hold.          *)
Begin(tokens) == [val |-> TRUE, dec |-> None, tokens |-> tokens, exact |-> TRUE]

RECURSIVE Eval(_, _, _, _)
Eval(e, pkt, ctx, st) ==
  CASE e.op = "decision" -> [st EXCEPT !.dec = e]
    [] e.op = "conform"  -> [st EXCEPT !.val = st.tokens[e.a.p] > 0]
    [] e.op = "count"    -> [st EXCEPT !.val = TRUE, !.tokens[e.a.p] = IF @ > 0 THEN @ - 1 ELSE 0]
    [] e.op = "!"        ->
         LET r == Eval(e.a, pkt, ctx, st)
         IN  IF r.dec # None THEN r ELSE [r EXCEPT !.val = ~@]
    [] e.op \in Logical  ->
         LET r == Eval(e.a, pkt, ctx, st)
         IN  IF r.dec # None \/ r.val = (e.op = "||") THEN r ELSE Eval(e.b, pkt, ctx, r)
    [] e.op = "field_root" -> Eval(e.a, pkt, [root |-> e.b.v, base |-> 0], st)
    [] e.op = "offset" ->
         LET off == Value(e.b, pkt, ctx)
         IN  IF off = -1 THEN [st EXCEPT !.exact = FALSE]
             ELSE Eval(e.a, pkt, [ctx EXCEPT !.base = @ + off], st)
    [] OTHER ->
         LET v == Value(e, pkt, ctx)
         IN  [st EXCEPT !.val = v # 0, !.exact = @ /\ v # -1]

Outcome(e, pkt, tokens) == Eval(e, pkt, [root |-> 0, base |-> 0], Begin(tokens))

=============================================================================
