----------------------------- MODULE MCIfPasses ----------------------------
EXTENDS IfPasses

CONSTANT MaxSize   \* bound: leaves of the expressions of a single element

(* Trees of && and || with n of the given leaves, and with up to n.        *)
RECURSIVE Trees(_, _)
Trees(n, leaves) ==
  IF n = 1 THEN leaves
  ELSE UNION {{Node(o, x, y) : o \in {"&&", "||"}, x \in Trees(k, leaves), y \in Trees(n - k, leaves)} :
                k \in 1..(n - 1)}

Exprs(n, leaves) == UNION {Trees(k, leaves) : k \in 1..n}

(* The macros of tcc for a single bucket: SLB_ok and SLB_else_drop.        *)
Meter  == And(Conform("p"), Count("p"))
Police == Or(Meter, Decision("drop", "none"))

Tests    == {Eq("f", 1), Eq("g", 1)}
Negative == {Eq("f", 1), Ne("g", 1), Ne("b", 1), Not(And(Eq("f", 1), Eq("h", 1)))}

(* In an || chain no alternative is the beginning of an earlier one.       *)
Rows(e) == LET c == Chain("||", e) IN [i \in 1..Len(c) |-> Chain("&&", c[i])]

NoBarePrefix(e) ==
  \A n \in Nodes(linearize(e)) : n.op = "||" =>
    \A i, j \in 1..Len(Rows(n)) : i < j => ~IsStrictPrefix(Rows(n)[j], Rows(n)[i])

Element(e, c) == [expr |-> e, class |-> c]

(* Matches with negations, alone or with policing behind them; matches and *)
(* meters in any order; and two classes of them.                           *)
Supported ==
  {<<Element(e, "c1")>> : e \in Exprs(MaxSize, Negative)}
  \cup {<<Element(And(e, Police), "c1")>> : e \in Exprs(MaxSize, Negative)}
  \cup {<<Element(e, "c1")>> :
          e \in {x \in Exprs(MaxSize, Tests \cup {Meter}) \cup Exprs(MaxSize, Tests \cup {Police}) :
                  NoBarePrefix(x)}}
  \cup {<<Element(e, "c1"), Element(f, "c2")>> :
          e \in Exprs(2, Tests \cup {Meter}), f \in Exprs(2, Tests \cup {Meter})}

(* A negation as an alternative, before a test of a bucket.                *)
NegatedThenMetered ==
  {<<Element(And(e, Conform("p")), "c1")>> : e \in Exprs(2, {Eq("f", 1), Ne("g", 1)})}
=============================================================================
