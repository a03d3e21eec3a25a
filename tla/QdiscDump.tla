----------------------------- MODULE QdiscDump ------------------------------
(***************************************************************************)
(* tcc from the end of the parser to its output: check_devices and         *)
(* dump_devices (tcc/device.c) and the dump functions of qdiscs, classes,  *)
(* filters and policers for the target "tc" (q_*.c, f_*.c, police.c,       *)
(* tc.c), with the traffic control of the kernel that gets the commands.   *)
(***************************************************************************)
EXTENDS QdiscCheck

CONSTANT Configs   \* <<what the parser finds in a configuration, add_fifos>>

VARIABLES script, fifos, stage, t, out

vars == <<script, fifos, stage, t, out>>

RECURSIVE dump_qdisc(_, _)

-----------------------------------------------------------------------------
(* Commands *)

(* A command for qdisc h; x is what it says more.                          *)
Cmd(op, h, x) == [op |-> op, h |-> h] @@ x

Put(s, cmd) == [s EXCEPT !.out = Append(@, cmd)]

NumberOf(tr, c) == IF c = 0 THEN 0 ELSE tr.c[c].number

tc_qdisc_add(s, q, kind, ps) ==
  LET up == s.t.q[q].up
      at == IF up.q = 0 THEN <<>> ELSE <<s.t.q[up.q].number, NumberOf(s.t, up.c)>>
  IN  Put(s, Cmd("qdisc", s.t.q[q].number, [kind |-> kind, at |-> at, ps |-> ps]))

tc_class_op(s, op, c, ps) ==
  Put(s, Cmd(op, s.t.q[s.t.c[c].q].number,
             [n |-> s.t.c[c].number, up |-> NumberOf(s.t, s.t.c[c].parent), c |-> c, ps |-> ps]))

Shown(prm, names) == [n \in names \cap prm.on |-> prm.v[n]]

Refused == -2   \* no number: an error

(* Class 0 of cbq must not be selected; cls_u32 can take a number that no  *)
(* class has instead.                                                      *)
cbq_sanitize_classid_tc(tr, c, accept_invalid) ==
  LET used == {tr.c[x].number : x \in Range(recurse_class(tr, tr.q[tr.c[c].q].classes))}
  IN  CASE tr.c[c].number # 0 \/ tr.q[tr.c[c].q].dsc # "cbq" -> tr.c[c].number
        [] accept_invalid -> Max(0..MaxId \ used)
        [] OTHER -> Refused

-----------------------------------------------------------------------------
(* Filters and policers *)

(* The policer a filter uses; its parameters are given only once.          *)
dump_police(s, i) == [index |-> s.t.p[i].number, pol |-> IF s.t.p[i].created THEN 0 ELSE i]

DumpElement(s, f, e) ==
  LET fl  == s.t.f[f]
      to  == cbq_sanitize_classid_tc(s.t, e.c, fl.kind = "if")
      pol == IF e.police = 0 THEN [index |-> 0, pol |-> 0] ELSE dump_police(s, e.police)
      s1  == Put(s, Cmd("element", s.t.q[fl.q].number,
                        [at |-> NumberOf(s.t, fl.c), prio |-> fl.number, kind |-> fl.kind, n |-> e.number,
                         f |-> f, to |-> to, police |-> pol]))
  IN  IF to = Refused THEN [s EXCEPT !.t.err = TRUE]
      ELSE IF e.police = 0 THEN s1 ELSE [s1 EXCEPT !.t.p[e.police].created = TRUE]

EachCmd(Do(_, _), s, list) == FoldLeft(LAMBDA r, x : IF r.t.err THEN r ELSE Do(r, x), s, list)

dump_elements(s, f) == EachCmd(LAMBDA r, e : DumpElement(r, f, e), s, s.t.f[f].elements)

tc_filter_add(s, f) ==
  LET fl == s.t.f[f]
  IN  Put(s, Cmd("filter", s.t.q[fl.q].number, [at |-> NumberOf(s.t, fl.c), prio |-> fl.number, f |-> f]))

tcindex_dump_tc(s, f) == dump_elements(tc_filter_add(s, f), f)
route_dump_tc(s, f)   == dump_elements(tc_filter_add(s, f), f)
fw_dump_tc(s, f)      == dump_elements(s, f)
if_dump_tc(s, f)      == dump_elements(s, f)

DumpFilter(s, f) ==
  LET kind == s.t.f[f].kind
  IN  CASE kind = "tcindex" -> tcindex_dump_tc(s, f)
        [] kind = "route"   -> route_dump_tc(s, f)
        [] kind = "fw"      -> fw_dump_tc(s, f)
        [] kind = "if"      -> if_dump_tc(s, f)

dump_filters(s, list) == EachCmd(DumpFilter, s, list)

-----------------------------------------------------------------------------
(* Qdiscs *)

prio_dump_tc(s, q) ==
  LET ps  == s.t.q[q].params
      map == IF "priomap" \notin DOMAIN ps THEN <<>> ELSE [i \in DOMAIN ps["priomap"] |-> s.t.c[ps["priomap"][i]].number - 1]
      s1  == tc_qdisc_add(s, q, "prio", [bands |-> IF "bands" \in DOMAIN ps THEN ps["bands"] ELSE DefaultBands, map |-> map])
  IN  EachCmd(LAMBDA r, c : dump_qdisc(r, r.t.c[c].inner), s1, s.t.q[q].classes)

get_indices(tr, q) ==
  LET max == Max({0} \cup {tr.c[c].number : c \in Range(tr.q[q].classes)})
  IN  IF "indices" \in DOMAIN tr.q[q].params THEN tr.q[q].params["indices"]
      ELSE Min({2^i : i \in 0..max} \ 0..max)

dsmark_dump_tc(s, q) ==
  LET dflt == param_get(s.t.prm, s.t.q[q].params)
      each(r, c) ==
        LET prm == DEFAULT_GET(param_get(r.t.prm, r.t.c[c].params), dflt, {"mask", "value"})
            ps  == Shown(prm, {"mask", "value"})
            r1  == IF DOMAIN ps = {} THEN r ELSE tc_class_op(r, "change", c, ps)
        IN  dump_qdisc(r1, r.t.c[c].inner)
      s1   == tc_qdisc_add(s, q, "dsmark", [indices |-> get_indices(s.t, q)])
  IN  EachCmd(each, s1, s.t.q[q].classes)

ingress_dump_tc(s, q) ==
  IF \E c \in Range(s.t.q[q].classes) : s.t.c[c].inner # 0 THEN [s EXCEPT !.t.err = TRUE]
  ELSE tc_qdisc_add(s, q, "ingress", NoParams)

HtbNames == {"rate", "ceil", "prio", "quantum"}
CbqNames == {"bandwidth", "rate", "allot", "avpkt", "maxburst", "minburst", "prio"}

(* The priomap of the qdisc and of the classes around a class.             *)
RECURSIVE Around(_, _)
Around(tr, c) == IF c = 0 THEN <<>> ELSE <<c>> \o Around(tr, tr.c[c].parent)

cbq_dump_defmaps_tc(s, c) ==
  LET split(r, ps, n) ==
        LET mask == Having(ps["priomap"], LAMBDA x : x = c)
        IN  IF "priomap" \notin DOMAIN ps \/ mask = {} THEN r
            ELSE tc_class_op(r, "defmap", c, [split |-> n, mask |-> mask])
      s1 == split(s, s.t.q[s.t.c[c].q].params, 0)
  IN  FoldLeft(LAMBDA r, x : split(r, r.t.c[x].params, r.t.c[x].number), s1, Around(s.t, s.t.c[c].parent))

SlipInherit(prm, saved) == prm
Inherit(prm, saved) == saved   \* DEFAULT_PASS_SAVED: what nested classes get

RECURSIVE dump_classes_tc(_, _, _)
dump_classes_tc(s, list, dflt) ==
  LET each(r, c) ==
        LET kind == r.t.q[r.t.c[c].q].dsc
            prm  == DEFAULT_GET(param_get(r.t.prm, r.t.c[c].params), dflt, Def(r.t, c).dflt)
            r1   == tc_class_op(r, "class", c, Shown(prm, IF kind = "htb" THEN HtbNames ELSE CbqNames))
            r2   == dump_qdisc(IF kind = "cbq" THEN cbq_dump_defmaps_tc(r1, c) ELSE r1, r.t.c[c].inner)
            r3   == dump_classes_tc(r2, r.t.c[c].child, Inherit(dflt, prm))
        IN  dump_filters(r3, r.t.c[c].filters)
  IN  EachCmd(each, s, list)

(* The root class is the qdisc itself.                                     *)
DumpRoot(s, q) ==
  LET root == s.t.c[s.t.q[q].classes[1]]
      set  == param_get(s.t.prm, s.t.q[q].params)
      prm  == DEFAULT_GET(param_get(set, root.params), set, Def(s.t, s.t.q[q].classes[1]).dflt)
      s1   == dump_classes_tc(tc_qdisc_add(s, q, s.t.q[q].dsc, NoParams), root.child, prm)
  IN  dump_qdisc(s1, root.inner)

htb_dump_tc(s, q) == DumpRoot(s, q)
cbq_dump_tc(s, q) == DumpRoot(s, q)

gred_dump_tc(s, q) ==
  LET list == s.t.q[q].classes
      dflt == param_get(s.t.prm, s.t.q[q].params)
      is   == SelectSeq(list, LAMBDA c : "default" \in DOMAIN s.t.c[c].params)
      each(r, c) ==
        tc_class_op(r, "dp", c, Shown(DEFAULT_GET(param_get(r.t.prm, r.t.c[c].params), dflt, Def(r.t, c).dflt),
                                      {"prio", "limit", "avpkt"}))
  IN  EachCmd(each, tc_qdisc_add(s, q, "gred", [DPs |-> NumberOf(s.t, Last(list)) + 1,
                                                default |-> NumberOf(s.t, Last(is))]), list)

tbf_dump_tc(s, q) ==
  EachCmd(LAMBDA r, c : dump_qdisc(r, r.t.c[c].inner), tc_qdisc_add(s, q, "tbf", NoParams), s.t.q[q].classes)

fifo_dump_tc(s, q) == tc_qdisc_add(s, q, IF "limit" \in DOMAIN s.t.q[q].params THEN "bfifo" ELSE "pfifo", NoParams)

red_dump_tc(s, q) == tc_qdisc_add(s, q, "red", NoParams)
sfq_dump_tc(s, q) == tc_qdisc_add(s, q, "sfq", NoParams)

DumpKind(s, q) ==
  LET dsc == s.t.q[q].dsc
  IN  CASE dsc = "prio" -> prio_dump_tc(s, q)
        [] dsc \in {"dsmark", "egress"} -> dsmark_dump_tc(s, q)
        [] dsc = "ingress" -> ingress_dump_tc(s, q)
        [] dsc = "htb"  -> htb_dump_tc(s, q)
        [] dsc = "cbq"  -> cbq_dump_tc(s, q)
        [] dsc = "gred" -> gred_dump_tc(s, q)
        [] dsc = "tbf"  -> tbf_dump_tc(s, q)
        [] dsc = "fifo" -> fifo_dump_tc(s, q)
        [] dsc = "red"  -> red_dump_tc(s, q)
        [] dsc = "sfq"  -> sfq_dump_tc(s, q)

(* All qdiscs write their filters last.                                    *)
dump_qdisc(s, q) ==
  IF q = 0 \/ s.t.err THEN s ELSE dump_filters(DumpKind(s, q), s.t.q[q].filters)

-----------------------------------------------------------------------------
(* tcc *)

Init ==
  /\ \E c \in Configs : script = c[1] /\ fifos = c[2]
  /\ stage = "parse"
  /\ t = Empty
  /\ out = <<>>

(* An error ends tcc.                                                      *)
To(tree, next) == /\ t' = tree
                  /\ stage' = IF tree.err THEN "error" ELSE next

Parse(what, tree(_)) ==
  /\ stage = "parse"
  /\ script # <<>>
  /\ Head(script).what = what
  /\ script' = Tail(script)
  /\ To(tree(Head(script)), "parse")
  /\ UNCHANGED <<fifos, out>>

ParseQdisc   == Parse("qdisc", LAMBDA e : qdisc_spec(t, e.dsc, e.number, e.params))
ParseClass   == Parse("class", LAMBDA e : begin_class(t, e.number, e.params, FALSE))
ParseFilter  == Parse("filter", LAMBDA e : add_filter(t, e.kind, e.number, e.params))
ParseElement == Parse("element", LAMBDA e : add_element(t, e.f, e.number, t.parent.c, e.police))
ParsePolice  == Parse("police", LAMBDA e : add_police(t, e.number, e.params, e.in, e.out))
ParseIf      == Parse("if", LAMBDA e : add_if(t, e.police))
ParseEnd     == Parse("end", LAMBDA e : EndScope(t))

CheckIngress ==
  LET t1 == assign_qdisc_ids([t EXCEPT !.q[t.ingress].number = MaxId], t.ingress)
  IN  /\ stage = "parse" /\ script = <<>>
      /\ To(IF t.ingress = 0 THEN t ELSE IF t1.err THEN t1 ELSE check_qdisc(t1, t.ingress), "egress")
      /\ UNCHANGED <<script, fifos, out>>

CheckEgress ==
  LET t1 == assign_qdisc_ids(IF fifos THEN add_default_fifos(t, t.egress) ELSE t, t.egress)
  IN  /\ stage = "egress"
      /\ To(IF t.egress = 0 THEN t ELSE IF t1.err THEN t1 ELSE check_qdisc(t1, t.egress), "dump")
      /\ UNCHANGED <<script, fifos, out>>

Dump(from, q, next) ==
  LET s == dump_qdisc([t |-> t, out |-> out], q)
  IN  /\ stage = from
      /\ To(s.t, next)
      /\ out' = s.out
      /\ UNCHANGED <<script, fifos>>

DumpIngress == Dump("dump", t.ingress, "dump_egress")
DumpEgress  == Dump("dump_egress", t.egress, "done")

Next ==
  \/ ParseQdisc \/ ParseClass \/ ParseFilter \/ ParseElement \/ ParsePolice \/ ParseIf \/ ParseEnd
  \/ CheckIngress \/ CheckEgress \/ DumpIngress \/ DumpEgress

Spec == Init /\ [][Next]_vars

-----------------------------------------------------------------------------
(* The kernel *)

NoKernel == [qdiscs |-> NoParams, policers |-> NoParams, filters |-> NoParams, ok |-> TRUE]

(* The classes that exist in a qdisc.                                      *)
HasClass(d, n) ==
  CASE d.kind = "prio" -> n \in 1..d.ps.bands
    [] d.kind \in {"dsmark", "tbf", "ingress"} -> TRUE
    [] d.kind = "cbq" -> n = 0 \/ n \in d.classes
    [] OTHER -> n \in d.classes

(* Filters of a class only in the qdiscs with a hierarchy of classes.      *)
HasChain(d, n) == IF d.kind \in {"htb", "cbq"} THEN n = 0 \/ n \in d.classes
                  ELSE n = 0 /\ d.kind \in {"prio", "dsmark", "ingress"}

GoodParams(kind, ps) ==
  CASE kind = "prio"   -> ps.bands \in 2..MaxBands /\ \A i \in DOMAIN ps.map : ps.map[i] \in 0..(ps.bands - 1)
    [] kind = "dsmark" -> ps.indices \in PowersOfTwo(ps.indices)
    [] kind = "gred"   -> ps.DPs \in 1..MaxDPs /\ ps.default \in 0..(ps.DPs - 1)
    [] OTHER           -> TRUE

KnownPolicer(k, p) ==
  IF p.pol # 0 THEN p.index \notin DOMAIN k.policers ELSE p.index = 0 \/ p.index \in DOMAIN k.policers

Accepts(k, cmd) ==
  LET has == cmd.h \in DOMAIN k.qdiscs
      d   == k.qdiscs[cmd.h]
  IN  CASE cmd.op = "qdisc" ->
             /\ ~has
             /\ GoodParams(cmd.kind, cmd.ps)
             /\ IF cmd.at = <<>> THEN \A h \in DOMAIN k.qdiscs : (k.qdiscs[h].kind = "ingress") # (cmd.kind = "ingress")
                                                                 \/ k.qdiscs[h].at # <<>>
                ELSE cmd.at[1] \in DOMAIN k.qdiscs /\ HasClass(k.qdiscs[cmd.at[1]], cmd.at[2])
        [] cmd.op = "class" ->
             has /\ cmd.n \notin d.classes \cup {0} /\ (cmd.up = 0 \/ cmd.up \in d.classes)
        [] cmd.op = "change" -> has /\ cmd.n < d.ps.indices
        [] cmd.op = "dp"     -> has /\ cmd.n < d.ps.DPs
        [] cmd.op = "defmap" -> has /\ cmd.n \in d.classes /\ HasClass(d, cmd.ps.split)
        [] OTHER ->
             /\ has /\ HasChain(d, cmd.at) /\ cmd.prio \in 1..MaxId
             /\ LET at == <<cmd.h, cmd.at, cmd.prio>>
                IN  at \in DOMAIN k.filters => k.filters[at] = cmd.f
             /\ cmd.op = "element" => cmd.to \in 0..MaxId /\ KnownPolicer(k, cmd.police)

Execute(k, cmd) ==
  CASE ~k.ok \/ ~Accepts(k, cmd) -> [k EXCEPT !.ok = FALSE]
    [] cmd.op = "qdisc" -> [k EXCEPT !.qdiscs = (cmd.h :> [kind |-> cmd.kind, at |-> cmd.at, ps |-> cmd.ps, classes |-> {}]) @@ @]
    [] cmd.op = "class" -> [k EXCEPT !.qdiscs[cmd.h].classes = @ \cup {cmd.n}]
    [] cmd.op = "filter" -> [k EXCEPT !.filters = (<<cmd.h, cmd.at, cmd.prio>> :> cmd.f) @@ @]
    [] cmd.op = "element" ->
         [k EXCEPT !.filters = (<<cmd.h, cmd.at, cmd.prio>> :> cmd.f) @@ @,
                   !.policers = IF cmd.police.pol = 0 THEN @ ELSE (cmd.police.index :> cmd.police.pol) @@ @]
    [] OTHER -> k

Kernel == FoldLeft(Execute, NoKernel, out)

-----------------------------------------------------------------------------
(* Properties *)

(* The kernel takes every command tcc has written, in this order: handles  *)
(* and class numbers are not in use, parents exist, numbers lie within     *)
(* what their qdisc was set up for, a policer is defined when it is first  *)
(* used and only then, no two filters share a priority.                    *)
Accepted == Kernel.ok

(* prio: "bands" is raised if necessary: a prio is written with as many    *)
(* bands as the largest number of its classes.                             *)
BandsRaised ==
  stage = "done" =>
    \A cmd \in Range(out) : cmd.op = "qdisc" /\ cmd.kind = "prio" =>
      \A c \in DOMAIN t.c : t.q[t.c[c].q].number = cmd.h => t.c[c].number <= cmd.ps.bands

Roots == {t.ingress, t.egress} \ {0}
Tree  == UNION {Range(recurse_qdisc(t, r)) : r \in Roots}

(* Nothing gets lost when classes are merged, moved below a root class or  *)
(* sorted: at the end each qdisc and each class of a hierarchy is there    *)
(* once, each element of each filter of the configuration selects a class  *)
(* that its qdisc has, and each policer that is used is the one known by   *)
(* its index.                                                              *)
Complete ==
  stage = "done" =>
    /\ \A q \in DOMAIN t.q : Cardinality(Having(out, LAMBDA c : c.op = "qdisc" /\ c.h = t.q[q].number)) = 1
    /\ \A c \in DOMAIN t.c : t.q[t.c[c].q].dsc \in {"htb", "cbq"} /\ t.c[c].number # 0 =>
         Cardinality(Having(out, LAMBDA x : x.op = "class" /\ x.c = c)) = 1
    /\ \A f \in DOMAIN t.f :
         LET got == SelectSeq(out, LAMBDA x : x.op = "element" /\ x.f = f)
         IN  /\ Len(got) = Len(t.f[f].elements)
             /\ \A i \in DOMAIN got :
                  LET e == t.f[f].elements[i]
                      d == Kernel.qdiscs[got[i].h]
                  IN  /\ \/ HasClass(d, got[i].to) /\ got[i].to = t.c[e.c].number
                         \/ d.kind \in {"htb", "cbq"} /\ t.c[e.c].number = 0 /\ got[i].to \notin d.classes \cup
                              IF d.kind = "htb" THEN {} ELSE {0}
                      /\ e.police # 0 => Kernel.policers[got[i].police.index] = e.police

(* What a class and the classes and the qdisc around it say themselves,    *)
(* the nearest first.                                                      *)
Sources(c) == [i \in DOMAIN Around(t, c) |-> t.c[Around(t, c)[i]].params] \o <<t.q[t.c[c].q].params>>

(* A class is written with the value of each parameter that stands nearest *)
(* to it, in itself, a class around it or the qdisc.                       *)
Inherited ==
  \A cmd \in Range(out) :
    cmd.op \in {"class", "change", "dp"} =>
      LET src  == Sources(cmd.c)
          dsc  == qdisc_dsc[t.q[t.c[cmd.c].q].dsc]
          from(n) == {i \in DOMAIN src : n \in DOMAIN src[i] /\ (i = 1 \/ n \in dsc.dflt)}
          names == (dsc.creq \cup dsc.copt) \ ({"default", "tquantum"} \cup Lists)
          shown == {n \in names : from(n) # {}}
      IN  /\ shown = DOMAIN cmd.ps
          /\ \A n \in shown : cmd.ps[n] = src[Min(from(n))][n]

(* What the tcindex filters and gred make of a packet with this tc_index,  *)
(* from a qdisc inwards: the classes it goes through.                      *)
RECURSIVE Way(_, _)
Way(q, index) ==
  LET fs   == IF q = 0 THEN <<>> ELSE t.q[q].filters
      ps   == t.f[fs[1]].params
      hits == {e \in Range(t.f[fs[1]].elements) : e.number = (index \div 2^ps["shift"]) % (ps["mask"] \div 2^ps["shift"] + 1)}
      dp   == {c \in Range(t.q[q].classes) : t.c[c].number = index % MaxDPs}
      sel  == IF q = 0 THEN {}
              ELSE IF t.q[q].dsc = "gred" THEN dp
              ELSE IF fs = <<>> \/ "shift" \notin DOMAIN ps THEN {} ELSE {e.c : e \in hits}
      c    == CHOOSE x \in sel : TRUE
  IN  IF sel = {} THEN <<>> ELSE <<c>> \o Way(t.c[c].inner, index)

(* The number that a class with a class selection path gets takes a packet *)
(* through all classes that the path names to the last of them, and not    *)
(* beyond, also when the bits do not suffice and paths are just counted;   *)
(* and no two of these classes get the same number, even for equal paths.  *)
PathsSelect ==
  stage \in {"dump", "dump_egress", "done"} =>
    \A q \in Tree :
      LET with  == {c \in Range(t.q[q].classes) : "class_sel_path" \in DOMAIN t.c[c].params}
          inner == FoldLeft(LAMBDA n, c : IF t.c[c].inner # 0 THEN t.c[c].inner ELSE n, 0, t.q[q].classes)
      IN  \A c \in with :
            LET way  == Way(inner, t.c[c].number)
                path == t.c[c].params["class_sel_path"]
            IN  /\ Range(path) \subseteq Range(way)
                /\ path # <<>> => LET end == Last(way)
                                  IN  \/ end \in Range(path)
                                      \/ t.q[t.c[end].q].dsc = "gred"
                /\ path = <<>> => \A x \in Range(way) : t.q[t.c[x].q].dsc = "gred"
                /\ \A o \in with \ {c} : t.c[o].number # t.c[c].number

=============================================================================
