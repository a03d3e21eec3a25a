------------------------------ MODULE IfLower -------------------------------
(***************************************************************************)
(* The way of an "if" expression from what the user wrote to bit matches:  *)
(* iflib_arith() and iflib_offset() with all their passes, one per step.   *)
(* The logical passes between the two are in IfPasses.                     *)
(***************************************************************************)
EXTENDS IfArith, IfOffset

CONSTANTS
  Sources,   \* bound: the expressions that the user may write, with the switches
  Buckets    \* policing elements

VARIABLES
  source,    \* the expression as it was written
  expr,      \* the expression now
  done,      \* passes that it has been through
  opt        \* [u32: the target is if_u32, prefix and ne: optimization switches]

vars == <<source, expr, done, opt>>

Init ==
  /\ \E s \in Sources :
       /\ source = s.e
       /\ opt = s.opt
  /\ expr = source
  /\ done = 0

(* iflib_arith                                                             *)
Arith(n, d) ==
  CASE n = 1 -> mul_div_mod(d)
    [] n = 2 -> rel_math(d)
    [] n = 3 -> rel_eq_or(d)
    [] n = 4 -> rel_access(d)
    [] n = 5 -> rel_to_eq(d)
    [] n = 6 -> rel_general(d, opt.prefix)
    [] n = 7 -> IF opt.ne THEN ne_to_eq(d, opt.prefix) ELSE d

(* iflib_offset                                                            *)
Offset(n, d) ==
  CASE n = 8  -> use_offset(d)
    [] n = 9  -> bubble_roots(d, opt.u32)
    [] n = 10 -> trim_roots(d, 0)
    [] n = 11 -> IF opt.u32 THEN pull_offset(d) ELSE d
    [] n = 12 -> push_offset(d, 0)

iflib_arith ==
  /\ done < 7
  /\ expr' = Arith(done + 1, expr)
  /\ done' = done + 1
  /\ UNCHANGED <<source, opt>>

iflib_offset ==
  /\ done \in 7..11
  /\ expr' = Offset(done + 1, expr)
  /\ done' = done + 1
  /\ UNCHANGED <<source, opt>>

Next == iflib_arith \/ iflib_offset

Spec == Init /\ [][Next]_vars

-----------------------------------------------------------------------------

Accesses(e) == {n \in Nodes(e) : n.op = "access"}

(* The packets that the accesses of an expression, which start at a byte,  *)
(* can tell apart.                                                         *)
UsedRoots(e) == {n.a.v : n \in Accesses(e)}
UsedBits(e)  == {i \in 0..(PacketBits - 1) : \E n \in Accesses(e) : i % ByteBits < n.c.v}
PacketsFor(e) ==
  {[r \in Roots |-> IF r \in UsedRoots(e) THEN p[r] ELSE {}] :
     p \in [Roots \cap UsedRoots(e) -> SUBSET UsedBits(e)]}

UsedBuckets(e) == {n.p : n \in {x \in Nodes(e) : x.op = "police"}}
TokensFor(e)   == {t \in [Buckets -> 0..MaxTokens] : \A b \in Buckets \ UsedBuckets(e) : t[b] = 0}

(* Lowering never changes what happens to a packet: for every packet and   *)
(* fill level, each pass leaves an expression that makes the decision, and *)
(* counts what, the source does - wherever the source itself stays within  *)
(* its integers.                                                           *)
MeaningKept ==
  expr # source => \A p \in PacketsFor(source), t \in TokensFor(source) :
    LET before == Outcome(source, p, t)
        after  == Outcome(expr, p, t)
    IN  before.exact => after = before

IsMatch(e) ==
  /\ e.op \in {"==", "!="}
  /\ e.a.op = "&" /\ IsConst(e.a.b) /\ IsConst(e.b)
  /\ u128_and(AsU128(e.b), u128_not(AsU128(e.a.b))) = u128_from_32(0)

(* After iflib_arith, all that is compared are bits that the mask selects  *)
(* with a constant that has no others - no other comparison is left, and   *)
(* with "ne" no "!=" either.                                               *)
OnlyMatches ==
  done >= 7 =>
    \A n \in Nodes(expr) : n.op \in Relational =>
      IsMatch(n) /\ (opt.ne => n.op = "==")

(* After iflib_offset, every access has a constant offset, and no offset() *)
(* adds a constant: what the targets can generate matches for.             *)
OffsetsConstant ==
  done = 12 =>
    /\ \A n \in Accesses(expr) : n.b.op = "unum" /\ n.a = None
    /\ \A n \in Nodes(expr) : n.op = "offset" =>
         n.b.op # "unum" /\ ~(n.b.op = "+" /\ {n.b.a.op, n.b.b.op} \cap {"unum"} # {})

=============================================================================
