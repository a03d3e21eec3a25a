------------------------------- MODULE FastBit -------------------------------
(***************************************************************************)
(* The third bit tree algorithm of tcc, iflib_fastbit.c: every node has a  *)
(* number, and the graph is sorted by these as in a radix exchange sort,   *)
(* from the most significant bit of the numbers to the least.  The code    *)
(* exchanges nodes in place, and compares pointers where fix_edge and      *)
(* make_dag look for a branch that is shared; here a tree is a value, and  *)
(* equal trees are shared.                                                 *)
(***************************************************************************)
EXTENDS NewBit

CONSTANTS
  OffsetBits,  \* bits of a number for the position of a bit in its group, 16
  TagBit       \* bit of a number that only decisions have, 31

(* Three bits below the tag tell the results apart; meters are not         *)
(* supported.                                                              *)
Result == [drop |-> 0, class |-> 1, reclassify |-> 2, continue |-> 3]

Number(n) ==
  CASE n.t = "data"     -> n.group * 2^OffsetBits + n.bit
    [] n.t = "decision" -> 2^TagBit + Result[n.d.d[1]] * 2^(TagBit - 3) + n.d.d[2]

SetBranch(n, v, m) == IF v THEN [n EXCEPT !.yes = m] ELSE [n EXCEPT !.no = m]

(* The same test on the next node: its result is known.                    *)
RECURSIVE SkipSame(_, _)
SkipSame(n, v) ==
  LET m == Branch(n, v)
  IN  IF m.t = "data" /\ Number(m) = Number(n) THEN SkipSame(SetBranch(n, v, Branch(m, v)), v) ELSE n

SamePart(n, m, i) == Number(n) \div 2^(i + 1) = Number(m) \div 2^(i + 1)
High(n, i)        == (Number(n) \div 2^i) % 2 = 1

SlipFixEdge(n, v, i) == SkipSame(n, v)

(* If n is in the upper half of a part that is being sorted and the next   *)
(* node in the lower half, they are exchanged, and what this breaks is     *)
(* fixed.                                                                  *)
RECURSIVE fix_edge(_, _, _)
fix_edge(bit, v, i) ==
  LET n     == SkipSame(bit, v)
      next  == Branch(n, v)
      other == Branch(n, ~v)
      clone(w) == IF Branch(next, w) = other THEN other ELSE SetBranch(n, v, Branch(next, w))
      broken(c, w) == Inner(c) /\ SamePart(n, c, i) /\ SamePart(n, Branch(c, w), i)
      fix(c, w)    == IF broken(c, w) THEN fix_edge(c, w, i) ELSE c
      fixed(w)     == fix(fix(clone(w), FALSE), TRUE)
  IN  IF ~SamePart(n, next, i) \/ ~High(n, i) \/ High(next, i) THEN n
      ELSE SkipSame(SkipSame(With2(next, fixed(TRUE), fixed(FALSE)), FALSE), TRUE)

RECURSIVE quick_dag(_, _)
quick_dag(n, i) ==
  LET m == With2(n, quick_dag(n.yes, i), quick_dag(n.no, i))
  IN  IF ~Inner(n) THEN n ELSE fix_edge(fix_edge(m, FALSE, i), TRUE, i)

(* verify_dag                                                              *)
verify_dag(root) ==
  \A n \in Below(root) : Inner(n) => \A m \in {n.yes, n.no} : Number(n) <= Number(m)

=============================================================================
