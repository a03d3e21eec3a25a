------------------------------ MODULE DecTree -------------------------------
(***************************************************************************)
(* Decision trees over packet bits and buckets: what the bit trees of tcc, *)
(* the actions of the external interface, and the rules that its programs  *)
(* interpret have in common.  Nodes that the code merges are equal values  *)
(* here.                                                                   *)
(***************************************************************************)
EXTENDS OffsetGroup

Null              == [t |-> "null"]
Data(g, n, y, f)  == [t |-> "data", group |-> g, bit |-> n, yes |-> y, no |-> f]
IfConform(p, y, f) == [t |-> "conform", p |-> p, yes |-> y, no |-> f]
ThenCount(p, y)   == [t |-> "count", p |-> p, yes |-> y, no |-> Null]
Leaf(d)           == [t |-> "decision", d |-> d]

Unspec == Decision("continue", 0)

Inner(n)   == n.t \in {"data", "conform", "count"}
With2(n, y, f) == [n EXCEPT !.yes = y, !.no = f]

RECURSIVE Below(_)
Below(n) == {n} \cup (IF Inner(n) THEN Below(n.yes) \cup Below(n.no) ELSE {})

(* action() of ext/match.c, with a test of packet bits: a packet is one    *)
(* token.                                                                  *)
RECURSIVE action(_, _, _, _)
action(a, table, pkt, tokens) ==
  CASE a.t = "decision" -> [dec |-> a.d, tokens |-> tokens]
    [] a.t = "null"     -> [dec |-> None, tokens |-> tokens]
    [] a.t = "data"     -> action(IF extract_bit(a.group, a.bit, table, pkt) THEN a.yes ELSE a.no,
                                  table, pkt, tokens)
    [] a.t = "conform"  -> action(IF tokens[a.p] > 0 THEN a.yes ELSE a.no, table, pkt, tokens)
    [] a.t = "count"    -> action(a.yes, table, pkt,
                                  [tokens EXCEPT ![a.p] = IF @ > 0 THEN @ - 1 ELSE 0])

-----------------------------------------------------------------------------
(* Rules: a set of bits <<group, bit, value>> that have to match, and the  *)
(* action then taken.  A barrier separates the rules of several filters.   *)

Rule(ms, a) == [matches |-> ms, act |-> a]
Barrier == Rule({}, Null)

match_1(m, table, pkt) == extract_bit(m[1], m[2], table, pkt) = (m[3] = 1)

Hits(rules, table, pkt) ==
  {i \in DOMAIN rules : rules[i] # Barrier /\ \A m \in rules[i].matches : match_1(m, table, pkt)}

(* The first rule that matches decides; if its action is "unspec", the     *)
(* rules behind the next barrier are tried.                                *)
RECURSIVE match(_, _, _, _)
match(rules, table, pkt, tokens) ==
  LET hits == Hits(rules, table, pkt)
      r    == action(rules[Min(hits)].act, table, pkt, tokens)
      bars == {j \in DOMAIN rules : j > Min(hits) /\ rules[j] = Barrier}
  IN  CASE hits = {} -> [dec |-> Unspec, tokens |-> tokens]
        [] hits # {} /\ (r.dec # Unspec \/ bars = {}) -> r
        [] OTHER -> match(SubSeq(rules, Min(bars) + 1, Len(rules)), table, pkt, r.tokens)

=============================================================================
