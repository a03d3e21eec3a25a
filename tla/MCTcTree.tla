------------------------------ MODULE MCTcTree ------------------------------
(***************************************************************************)
(* Configurations for QdiscDump: families of nested qdiscs whose numbers,  *)
(* parameters, filters and policers vary.                                  *)
(***************************************************************************)
EXTENDS QdiscDump

No == NoParams
One(n, v) == [x \in {n} |-> v]

Q(dsc, number, params)  == <<[what |-> "qdisc", dsc |-> dsc, number |-> number, params |-> params]>>
C(number, params)       == <<[what |-> "class", number |-> number, params |-> params]>>
F(kind, number, params) == <<[what |-> "filter", kind |-> kind, number |-> number, params |-> params]>>
El(f, number, police)   == <<[what |-> "element", f |-> f, number |-> number, police |-> police]>>
Pol(number, params)     == <<[what |-> "police", number |-> number, params |-> params, in |-> "ok", out |-> "drop"]>>
P(number)               == Pol(number, [rate |-> 1, burst |-> 2])
If(police)              == <<[what |-> "if", police |-> police]>>
E                       == <<[what |-> "end"]>>

Fifo == Q("fifo", Undef, No) \o E
Red  == Q("red", Undef, [n \in {"limit", "min", "max", "burst", "avpkt", "bandwidth"} |-> 1]) \o E
Sfq  == Q("sfq", Undef, One("quantum", 1)) \o E
Tbf(in) == Q("tbf", Undef, [rate |-> 1, burst |-> 2, limit |-> 4]) \o in \o E
Numbers == {Undef, 1, 2, 4}

(* prio: numbers, bands, a priomap, what is in the classes.                *)
PrioParams ==
  {No} \cup {One("bands", b) : b \in 2..4} \cup {One("priomap", <<1, 2>>), [bands |-> 2, priomap |-> [i \in 1..16 |-> 1]]}

PrioScripts ==
  {Q("prio", n, ps) \o C(a, No) \o in \o E \o C(b, No) \o E \o C(x, No) \o E \o E :
     n \in {Undef, 2}, ps \in PrioParams, a \in {Undef, 2}, b \in Numbers, x \in Numbers, in \in {<<>>, Fifo}}
  \cup {Q("prio", n, No) \o Tbf(in) \o Q("prio", m, No) \o C(2, No) \o Tbf(<<>>) \o E \o E \o E :
     n \in {Undef, 1, 3}, m \in {Undef, 1, MaxId}, in \in {<<>>, Fifo, Q("fifo", 2, One("limit", 3)) \o E, Red}}

(* A prio with "bands" in another one that has "bands" itself, that needs  *)
(* no more bands than the default, or in which other parameters are read   *)
(* after those of the inner one.                                           *)
Banded(in) == Q("prio", Undef, One("bands", 4)) \o C(4, No) \o in \o E \o E
Index(m)   == F("tcindex", Undef, m) \o C(Undef, No) \o El(1, 1, 0) \o E

NestedPrio(ps, a, in, b, last) ==
  Q("prio", Undef, ps) \o C(a, No) \o in \o E \o C(b, No) \o last \o E \o E

NestedPrioScripts ==
  {NestedPrio(One("bands", 4), a, Banded(in), b, last) :
     a \in {Undef, 3}, in \in {<<>>, Red}, b \in {Undef, 4}, last \in {<<>>, Fifo, Banded(<<>>)}}
  \cup {NestedPrio(No, Undef, Banded(in), b, last) :
     in \in {<<>>, Red}, b \in {Undef, 3}, last \in {<<>>, Fifo, Banded(Red)}}
  \cup {NestedPrio(No, a, Banded(in), b, last) :
     a \in {Undef, 4}, in \in {<<>>, Red}, b \in {3, 4},
     last \in {Fifo, Q("prio", Undef, One("bands", 4)) \o Index(No) \o E}}

(* The last parameters are those of an inner prio with "bands".            *)
BandedLast ==
  {NestedPrio(No, a, <<>>, 4, Banded(in)) : a \in {Undef, 2}, in \in {<<>>, Red}} \X BOOLEAN

(* Filters and policers: shared ones, numbers given and found, "if".       *)
FilterScripts ==
  {P(i) \o P(j) \o Q("prio", Undef, No) \o F("tcindex", a, m) \o F("fw", b, No) \o
   C(Undef, No) \o El(1, x, 1) \o El(2, 2, y) \o E \o C(Undef, No) \o El(2, 1, 2) \o E \o E :
     i \in {Undef, 1, 2}, j \in {Undef, 1}, a \in {Undef, 2}, b \in {Undef, 2}, m \in {No, One("mask", 3)},
     x \in {2, 4}, y \in {0, 1}}
  \cup {P(i) \o Q("prio", Undef, No) \o F(k, a, One("hash", 4)) \o F("route", b, No) \o
        C(Undef, No) \o El(1, 1, 1) \o E \o C(Undef, No) \o El(2, x, 1) \o E \o E :
     i \in {Undef, 2}, k \in {"fw", "tcindex"}, a \in {Undef, 2}, b \in {Undef, 1}, x \in {Undef, 1}}
  \cup {P(i) \o P(Undef) \o Q("ingress", Undef, No) \o C(a, No) \o If(1) \o E \o C(2, No) \o If(x) \o If(y) \o E \o E \o
        Q("prio", Undef, No) \o C(b, No) \o P(Undef) \o If(3) \o E \o C(2, No) \o If(y) \o E \o E :
     i \in {Undef, 1, 2, 3}, a \in {Undef, 1}, b \in {Undef, 3}, x \in {1, 2}, y \in {0, 1, 2}}

(* htb: parameters at all levels, an explicit root class, filters inside.  *)
HtbScripts ==
  {Q("htb", Undef, ps) \o C(a, cs) \o C(Undef, ds) \o in \o E \o E \o C(b, One("rate", 2)) \o E \o E :
     ps \in {One("rate", 1), [rate |-> 1, quantum |-> 4], [ceil |-> 2, tquantum |-> 2, rate |-> 2]},
     cs \in {No, One("ceil", 3), [prio |-> 1, quantum |-> 3], One("tquantum", 1), One("rate", 2)},
     ds \in {No, One("default", 1), [rate |-> 3, ceil |-> 3], One("quantum", 5)},
     in \in {<<>>, Sfq}, a \in {Undef, 2}, b \in {Undef, 1}}

HtbRootScripts ==
  {Q("htb", 1, No) \o C(0, ps) \o F("fw", Undef, No) \o C(Undef, One("rate", 1)) \o El(1, 1, 0) \o g \o
        C(Undef, cs) \o h \o E \o E \o C(a, One("rate", 1)) \o El(1, 2, 0) \o E \o E \o E :
     ps \in {No, [ceil |-> 2, prio |-> 2], One("tquantum", 2)}, cs \in {No, One("ceil", 2), One("tquantum", 3)},
     a \in {Undef, 1, 4}, g \in {<<>>, F("tcindex", 2, No)}, h \in {<<>>, Q("prio", Undef, No) \o C(Undef, No) \o E \o E}}

(* cbq: like htb, with priomaps, and class 0 selected.                     *)
CbqScripts ==
  LET qs(more) == [bandwidth |-> 4, allot |-> 1, avpkt |-> 1, maxburst |-> 2] @@ more
  IN  {Q("cbq", Undef, qs(ps)) \o C(a, One("rate", 2) @@ cs) \o C(Undef, One("rate", 1)) \o g \o in \o E \o E \o
       C(Undef, One("rate", 1) @@ ds) \o If(0) \o E \o E :
         ps \in {No, One("prio", 2), One("priomap", <<2, 1>>)}, cs \in {No, One("maxburst", 1), One("priomap", <<2>>)},
         ds \in {No, One("minburst", 2), One("priomap", <<1>>)}, a \in {Undef, 0, 2}, g \in {<<>>, If(0)}, in \in {<<>>, Fifo}}
      \cup {Q("cbq", Undef, qs(No)) \o F(k, Undef, No) \o C(0, One("rate", 4)) \o El(1, 1, 0) \o g \o
            C(Undef, One("rate", 2)) \o C(Undef, One("rate", 2)) \o E \o E \o E \o E :
         k \in {"fw", "if"}, g \in {<<>>, F("fw", Undef, No)}}

(* dsmark and egress: numbers, marks and paths into the inner qdisc, which *)
(* nests another one.  Paths that lead to gred have enough bits.           *)
Gred       == Q("gred", Undef, [bandwidth |-> 1, avpkt |-> 1]) \o C(Undef, One("limit", 1)) \o E \o
              C(Undef, [default |-> 1, limit |-> 2]) \o E \o E
Grio(n, m) == Q("gred", Undef, [bandwidth |-> 1, avpkt |-> 1, limit |-> 3, grio |-> 1]) \o
              C(n, [default |-> 1, prio |-> 1]) \o E \o C(m, [limit |-> 2, prio |-> 2]) \o E \o E
InnerPrio  == Q("prio", Undef, No) \o C(Undef, No) \o E \o C(Undef, No) \o E \o E
Path(p)    == One("class_sel_path", p)

PathScript(k, ps, a, in, p, r, cs, last) ==
  Q(k, Undef, ps) \o Q("prio", Undef, No) \o C(a, No) \o E \o C(Undef, No) \o in \o E \o E \o
  C(Undef, Path(p)) \o E \o C(Undef, Path(r) @@ cs) \o E \o last \o E

Marked    == C(1, One("value", 1)) \o E
ThirdPath == C(Undef, Path(<<2>>)) \o E

DsmarkScripts ==
  {PathScript(k, ps, a, InnerPrio, p, r, cs, last) :
     k \in {"dsmark", "egress"}, ps \in {No, [indices |-> 8, mask |-> 3]}, a \in {Undef, 3},
     p \in {<<>>, <<2>>, <<3, 5>>, <<4>>}, r \in {<<2>>, <<3>>, <<5>>, <<5, 3>>}, cs \in {No, One("value", 2)},
     last \in {<<>>, Marked, ThirdPath}}
  \cup {PathScript(k, ps, a, Gred, p, r, cs, last) :
     k \in {"dsmark", "egress"}, ps \in {No, [indices |-> 8, mask |-> 3]}, a \in {Undef, 3},
     p \in {<<>>, <<4>>}, r \in {<<2>>, <<3>>, <<5>>, <<5, 3>>}, cs \in {No, One("value", 2)},
     last \in {<<>>, Marked}}
  \cup {Q("dsmark", Undef, ps) \o C(a, cs) \o E \o in \o C(b, One("mask", 4)) \o If(0) \o E \o E :
     ps \in {No, One("indices", 4), One("value", 1), One("indices", 3)}, a \in {Undef, 0, 2, 4}, b \in {0, 1, 5},
     cs \in {No, One("value", 2)}, in \in {<<>>, Fifo, C(1, No) \o Fifo \o E, Grio(1, 0), Grio(Undef, 1), InnerPrio}}

(* The default FIFO of an explicit class 0 of htb goes where the kernel    *)
(* has no class.                                                           *)
MCConfigs ==
  (PrioScripts \cup NestedPrioScripts \cup FilterScripts \cup HtbScripts \cup CbqScripts \cup DsmarkScripts) \X BOOLEAN
  \cup HtbRootScripts \X {FALSE}
=============================================================================
