------------------------------ MODULE IfArith -------------------------------
(***************************************************************************)
(* tcc/iflib_arith.c: the passes that turn arithmetic and comparisons in   *)
(* an "if" into bit matches "(access & mask) == constant".  Each operator  *)
(* is the pass of the same name, from the expression before to the one     *)
(* after it.                                                               *)
(***************************************************************************)
EXTENDS PktExpr

CONSTANT Narrow   \* bits of an uint8_t

ASSUME NarrowAssumption == Narrow \in 1..W

(* The n with v = 2^n, or -1.                                              *)
log_2(v) == IF \E n \in 0..(4 * W) : v = 2^n THEN CHOOSE n \in 0..(4 * W) : v = 2^n ELSE -1

log_2_any(d, increment) ==
  LET v == (IF d.op = "unum" THEN d.v ELSE Val(d.u)) + increment
  IN  IF d.op = "unum" \/ v # Base^4 THEN log_2(v) ELSE 4 * W

-----------------------------------------------------------------------------
(* *, / and %.  The value of the constant is passed on as an uint8_t.      *)

mul_opt(d, x, value) ==
  CASE value = 0         -> Unum(0)
    [] log_2(value) = -1 -> d
    [] value = 1         -> x
    [] OTHER             -> op_binary("<<", x, Unum(log_2(value)))

div_r_opt(d, value) ==
  CASE log_2(value) = -1 -> d
    [] value = 1         -> d.a
    [] OTHER             -> op_binary(">>", d.a, Unum(log_2(value)))

mod_opt(d, value) ==
  CASE value = 1         -> Unum(0)
    [] log_2(value) = -1 -> d
    [] OTHER             -> Node("&", d.a, Unum(d.b.v - 1))

MulDivModHere(d) ==
  LET u8(c) == c.v % 2^Narrow
  IN  CASE d.op = "*" /\ d.a.op = "unum" -> mul_opt(d, d.b, u8(d.a))
        [] d.op = "*" /\ d.a.op # "unum" /\ d.b.op = "unum" -> mul_opt(d, d.a, u8(d.b))
        [] d.op = "/" /\ d.a.op = "unum" -> IF u8(d.a) = 0 THEN Unum(0) ELSE d
        [] d.op = "/" /\ d.a.op # "unum" /\ d.b.op = "unum" -> div_r_opt(d, u8(d.b))
        [] d.op = "%" /\ d.b.op = "unum" -> mod_opt(d, u8(d.b))
        [] d.op \in {"/", "%"} /\ d.a.op # "unum" /\ d.a = d.b -> Unum(IF d.op = "/" THEN 1 ELSE 0)
        [] OTHER -> d

RECURSIVE mul_div_mod(_)
mul_div_mod(d) ==
  IF ~HasOp(d) THEN d
  ELSE LET n == Walk(mul_div_mod, d)
           s == MulDivModHere(n)
       IN  IF s = n THEN n ELSE mul_div_mod(s)

-----------------------------------------------------------------------------
(* Constants move to the right side of a comparison. *)

(* X + C1 rel C2 and C1 + X rel C2; X - C1 rel C2 and C1 - X rel C2.       *)
rel_plus(d) ==
  CASE IsConst(d.a.a) -> Node(d.op, d.a.b, additive_eval("-", d.b, d.a.a))
    [] ~IsConst(d.a.a) /\ IsConst(d.a.b) -> Node(d.op, d.a.a, additive_eval("-", d.b, d.a.b))
    [] OTHER -> d

rel_minus(d) ==
  CASE IsConst(d.a.a) -> Node(d.op, d.a.b, additive_eval("-", d.a.a, d.b))
    [] ~IsConst(d.a.a) /\ IsConst(d.a.b) -> Node(d.op, d.a.a, additive_eval("+", d.b, d.a.b))
    [] OTHER -> d

Exchanged(o) ==
  CASE o = ">" -> "<" [] o = "<" -> ">" [] o = ">=" -> "<=" [] o = "<=" -> ">=" [] OTHER -> o

RECURSIVE rel_math(_)
rel_math(d) ==
  LET r == IF IsConst(d.a) /\ HasOp(d.b) THEN Node(Exchanged(d.op), d.b, d.a) ELSE d
  IN  CASE ~HasOp(d) -> d
        [] HasOp(d) /\ d.op \notin Relational -> Walk(rel_math, d)
        [] OTHER ->
             CASE IsConst(d.a) /\ IsConst(d.b)    -> op_binary(d.op, d.a, d.b)
               [] r.a.op = "+" /\ IsConst(r.b)    -> rel_plus(r)
               [] r.a.op = "-" /\ IsConst(r.b)    -> rel_minus(r)
               [] OTHER                           -> Walk(rel_math, r)

-----------------------------------------------------------------------------
(* | and ^ in a comparison for equality. *)

RECURSIVE rel_eq_or(_)
rel_eq_or(d) ==
  IF ~HasOp(d) THEN d
  ELSE LET n    == Walk(rel_eq_or, d)
           c    == IF IsConst(n.a.a) THEN n.a.a ELSE n.a.b
           x    == IF IsConst(n.a.a) THEN n.a.b ELSE n.a.a
           not  == IF "ipv6" \in {c.op, n.b.op} THEN Ipv6(u128_not(AsU128(c))) ELSE Unum(BitNot(c.v))
           lost == IF "ipv6" \in {c.op, n.b.op}
                   THEN u128_and(AsU128(c), AsU128(n.b)) # AsU128(c)
                   ELSE BitAnd(c.v, n.b.v) # c.v
       IN  CASE n.op = "==" /\ n.a = n.b -> Unum(1)
             [] n.op # "==" \/ n.a = n.b \/ ~IsConst(n.b) \/ n.a.op \notin {"|", "^"} -> n
             [] OTHER ->
                  CASE ~IsConst(n.a.a) /\ ~IsConst(n.a.b) -> n
                    [] n.a.op = "^" -> Node("==", x, unum2_eval("^", n.b, c))
                    [] OTHER -> IF lost THEN Unum(0)
                                ELSE Node("==", Node("&", x, not), unum2_eval("&", n.b, not))

-----------------------------------------------------------------------------
(* Masks and shifts around an access are combined. *)

Ones == u128_not(u128_from_32(0))
LowOnes(n) == u128_sub_32(u128_shift_left(u128_from_32(1), n), 1)

(* What is left of x when constant masks and shifts are taken off, their   *)
(* mask, and by how much the constant has to be shifted to the left.       *)
RECURSIVE Stripped(_, _, _)
Stripped(x, mask, shift) ==
  LET left  == u128_shift_right(mask, x.b.v)
      right == u128_shift_left(mask, x.b.v)
  IN  CASE x.op = "&" /\ IsConst(x.a) -> Stripped(x.b, u128_and(mask, AsU128(x.a)), shift)
        [] x.op = "&" /\ ~IsConst(x.a) /\ IsConst(x.b) ->
             Stripped(x.a, u128_and(mask, AsU128(x.b)), shift)
        [] x.op = "<<" /\ x.b.op = "unum" ->
             IF u128_is_zero(left) THEN [x |-> x, mask |-> left, shift |-> shift - x.b.v]
             ELSE Stripped(x.a, left, shift - x.b.v)
        [] x.op = ">>" /\ x.b.op = "unum" ->
             IF u128_is_zero(right) THEN [x |-> x, mask |-> right, shift |-> shift + x.b.v]
             ELSE Stripped(x.a, right, shift + x.b.v)
        [] OTHER -> [x |-> x, mask |-> mask, shift |-> shift]

(* A constant of which bits are lost by the shift to the right.            *)
LostRel(o) == CASE o = "<" -> "<=" [] o = ">=" -> ">" [] OTHER -> o

RelAccessHere(d) ==
  LET s    == Stripped(d.a, Ones, 0)
      c0   == AsU128(d.b)
      over == s.shift > 0 /\ ~u128_is_zero(c0)
              /\ (s.shift >= 4 * W \/ ~u128_is_zero(u128_shift_right(c0, 4 * W - s.shift)))
      lost == s.shift < 0 /\ ~u128_is_zero(u128_and(c0, LowOnes(-s.shift)))
      o    == IF lost THEN LostRel(d.op) ELSE d.op
      c1   == IF s.shift >= 0 THEN u128_shift_left(c0, s.shift) ELSE u128_shift_right(c0, -s.shift)
      c    == IF lost /\ d.op = ">" THEN u128_add_32(c1, 1) ELSE c1
      mask == IF s.x.op = "access" /\ s.x.c.v # 0 THEN u128_and(s.mask, LowOnes(s.x.c.v)) ELSE s.mask
  IN  CASE over -> op_binary(d.op, Unum(0), Unum(1))
        [] ~over /\ lost /\ d.op \in {"==", "!="} -> Bool(d.op = "!=")
        [] OTHER ->
             CASE u128_cmp(mask, c) < 0 -> op_binary(o, Unum(0), Unum(1))
               [] u128_is_zero(u128_or(mask, c)) -> op_binary(o, Unum(0), Unum(0))
               [] o \in {"==", "!="} /\ ~u128_is_zero(u128_and(c, u128_not(mask))) -> Bool(o = "!=")
               [] OTHER -> op_binary(o, op_binary("&", s.x, OfU128(mask)), OfU128(c))

RECURSIVE rel_access(_)
rel_access(d) ==
  CASE ~HasOp(d) \/ d.op \in {"conform", "count"} -> d
    [] d.op \in Logical \cup {"!", "offset"} ->
         Node3(d.op, rel_access(d.a), rel_access(d.b), d.c)
    [] d.op \in Relational -> IF IsConst(d.b) THEN RelAccessHere(d) ELSE Error
    [] OTHER -> RelAccessHere(op_binary("!=", d, Unum(0)))

-----------------------------------------------------------------------------
(* Comparisons with a power of two. *)

RECURSIVE rel_to_eq(_)
rel_to_eq(d) ==
  IF ~HasOp(d) THEN d
  ELSE LET n     == Walk(rel_to_eq, d)
           below == n.op \in {"<", ">="}     \* the constant itself is not included
           c     == IF ~below THEN n.b
                    ELSE IF n.b.op = "unum" THEN Unum((n.b.v - 1) % Base) ELSE Ipv6(u128_sub_32(n.b.u, 1))
           mask  == IF c.op = "unum" THEN Unum(BitNot(c.v)) ELSE Ipv6(u128_minus(c.u))
       IN  CASE n.op \notin {"<", "<=", ">", ">="} \/ ~HasOp(n.a) \/ ~IsConst(n.b) -> n
             [] OTHER -> IF log_2_any(n.b, IF below THEN 0 ELSE 1) = -1 THEN n
                         ELSE Node(IF n.op \in {"<", "<="} THEN "==" ELSE "!=",
                                   op_binary("&", n.a, mask), Unum(0))

-----------------------------------------------------------------------------
(* All other comparisons, as matches of single bits or of prefixes. *)

get_bit(v, n)     == (v[n \div W] \div 2^(n % W)) % 2
set_nth_bit(n)    == IF n < W THEN Unum(2^n) ELSE Ipv6(u128_shift_left(u128_from_32(1), n))
bit_mask(n)       == Ipv6(u128_shift_left(Ones, n))
prefix_and_twist(v, n) ==
  Ipv6(u128_xor(u128_and(v, u128_shift_left(Ones, n)), u128_shift_left(u128_from_32(1), n)))

Match(acc, mask, c) == op_binary("==", op_binary("&", acc, mask), c)

(* The alternatives e(i) for the i in S, the lowest first.  No alternative *)
(* fails an assertion.                                                     *)
RECURSIVE AnyOf(_, _)
AnyOf(e(_), S) ==
  IF S = {} THEN Error
  ELSE LET i == CHOOSE j \in S : \A k \in S : j <= k
       IN  IF S = {i} THEN e(i) ELSE Or(e(i), AnyOf(e, S \ {i}))

SlipLeBit(acc, c, mask, invert) ==
  LET test(i) == IF get_bit(mask, i) = 0 THEN Unum(1 - invert)
                 ELSE Match(acc, set_nth_bit(i), IF invert = 1 THEN set_nth_bit(i) ELSE Unum(0))
      from[i \in 0..(4 * W - 1)] ==
        Node(IF get_bit(c, i) = invert THEN "&&" ELSE "||",
             test(i), IF i = 0 THEN Unum(invert) ELSE from[i-1])
  IN  from[4 * W - 1]

(* acc <= c, or acc > c if inverted, from the highest bit down.  A bit     *)
(* that is masked out has a constant instead of a match.                   *)
build_le_bit(acc, c, mask, invert) ==
  LET test(i) == IF get_bit(mask, i) = 0 THEN Unum(1 - invert)
                 ELSE Match(acc, set_nth_bit(i), IF invert = 1 THEN set_nth_bit(i) ELSE Unum(0))
      from[i \in 0..(4 * W - 1)] ==
        Node(IF get_bit(c, i) = invert THEN "&&" ELSE "||",
             test(i), IF i = 0 THEN Unum(1 - invert) ELSE from[i-1])
  IN  from[4 * W - 1]

(* acc < c, or acc > c if inverted.                                        *)
build_lt_prefix(acc, c, mask, invert) ==
  AnyOf(LAMBDA i : Match(acc, bit_mask(i), prefix_and_twist(c, i)),
        {i \in 0..(4 * W - 1) : get_bit(c, i) # invert /\ (get_bit(mask, i) = 1 \/ get_bit(c, i) = 1)})

MaskOf(x) == IF x.op = "&" /\ IsConst(x.b) THEN AsU128(x.b) ELSE Ones

build_rel(d, invert, const_res, const_if_zero, decrement, prefix) ==
  LET c == AsU128(d.b)
      p == CASE const_res = 0 -> c
             [] invert = 1    -> u128_sub_32(c, 1)
             [] OTHER         -> u128_add_32(c, 1)
  IN  CASE ~IsConst(d.b) -> d
        [] IsConst(d.b) /\ (IF const_if_zero THEN u128_is_zero(c) ELSE c = Ones) -> Unum(const_res)
        [] OTHER ->
             IF prefix THEN build_lt_prefix(d.a, p, MaskOf(d.a), invert)
             ELSE build_le_bit(d.a, IF decrement THEN u128_sub_32(c, 1) ELSE c, MaskOf(d.a), invert)

SlipRelGeneralHere(d, prefix) ==
  CASE d.op = "<=" -> build_rel(d, 0, 1, FALSE, FALSE, prefix)
    [] d.op = ">"  -> build_rel(d, 1, 0, FALSE, FALSE, prefix)
    [] d.op = "<"  -> build_rel(d, 0, 0, TRUE, TRUE, prefix)
    [] OTHER       -> d

RelGeneralHere(d, prefix) ==
  CASE d.op = "<=" -> build_rel(d, 0, 1, FALSE, FALSE, prefix)
    [] d.op = ">"  -> build_rel(d, 1, 0, FALSE, FALSE, prefix)
    [] d.op = "<"  -> build_rel(d, 0, 0, TRUE, TRUE, prefix)
    [] d.op = ">=" -> build_rel(d, 1, 1, TRUE, TRUE, prefix)
    [] OTHER       -> d

RECURSIVE rel_general(_, _)
rel_general(d, prefix) ==
  LET n == RelGeneralHere(d, prefix)
  IN  IF HasOp(n) THEN Walk(LAMBDA x : rel_general(x, prefix), n) ELSE n

-----------------------------------------------------------------------------
(* "!=" as alternatives of "==". *)

build_ne_bit(acc, c) ==
  AnyOf(LAMBDA i : Match(acc, set_nth_bit(i), IF get_bit(c, i) = 1 THEN Unum(0) ELSE set_nth_bit(i)),
        {i \in 0..(4 * W - 1) : get_bit(MaskOf(acc), i) = 1})

build_ne_prefix(acc, c) ==
  AnyOf(LAMBDA i : Match(acc, bit_mask(i), prefix_and_twist(c, i)),
        {i \in 0..(4 * W - 1) : get_bit(MaskOf(acc), i) = 1})

build_ne(d, prefix) ==
  CASE ~IsConst(d.b) -> d
    [] IsConst(d.b) /\ prefix -> build_ne_prefix(d.a, AsU128(d.b))
    [] OTHER                  -> build_ne_bit(d.a, AsU128(d.b))

RECURSIVE ne_to_eq(_, _)
ne_to_eq(d, prefix) ==
  LET n == IF d.op = "!=" THEN build_ne(d, prefix) ELSE d
  IN  IF HasOp(n) THEN Walk(LAMBDA x : ne_to_eq(x, prefix), n) ELSE n

=============================================================================
