----------------------------- MODULE QdiscCheck -----------------------------
(***************************************************************************)
(* The check functions of the qdiscs and filters (tcc/q_*.c, f_*.c,        *)
(* qdisc.c): they number the classes, complete and verify the tree.        *)
(***************************************************************************)
EXTENDS ClassPaths

RECURSIVE check_qdisc(_, _), add_default_fifos(_, _)

default_priomap == <<1, 2, 2, 2, 1, 2, 0, 0, 1, 1, 1, 1, 1, 1, 1, 1>>
DefaultBands    == 3   \* TCQ_PRIO_DEFAULT_BANDS
FullMask        == 255

FailIf(t, cond) == [t EXCEPT !.err = @ \/ cond]
Get(t, params)  == [t EXCEPT !.prm = param_get(@, params)]
On(t, n)        == n \in t.prm.on
Value(t, n)     == t.prm.v[n]

(* An error ends tcc.                                                      *)
Then(t, Do(_)) == IF t.err THEN t ELSE Do(t)

Each(Do(_, _), t, list) == FoldLeft(LAMBDA s, x : IF s.err THEN s ELSE Do(s, x), t, list)

-----------------------------------------------------------------------------
(* Default FIFOs *)

make_fifo(t, c) ==
  [t EXCEPT !.q = Append(@, [dsc |-> "fifo", number |-> Undef, params |-> NoParams, classes |-> <<>>,
                             filters |-> <<>>, up |-> [q |-> t.c[c].q, c |-> c]]),
            !.c[c].inner = Len(t.q) + 1]

(* make_pseudo_class, at the end of the list.                              *)
make_pseudo_class(t, q) == make_class(t, q, 0, TRUE)

get_any_class(t, q) == IF t.q[q].classes = <<>> THEN make_pseudo_class(t, q) ELSE t

adf_classes_add_to_unnumbered(t, q) ==
  LET free == Having(t.q[q].classes,
                     LAMBDA c : t.c[c].number = Undef /\ "class_sel_path" \notin DOMAIN t.c[c].params)
      last(s) == make_fifo(s, Last(s.q[q].classes))
  IN  IF free = {} THEN last(make_pseudo_class(t, q)) ELSE make_fifo(t, t.q[q].classes[Min(free)])

adf_classes_add_everywhere(t, list) == FoldLeft(LAMBDA s, c : IF s.c[c].inner = 0 THEN make_fifo(s, c) ELSE s, t, list)

add_default_fifos(t0, q) ==
  LET scan(t, c) == IF t.c[c].inner = 0 THEN t ELSE add_default_fifos(t, t.c[c].inner)
      add(t, all) ==
        IF ~Flag(t, q, "shared") THEN adf_classes_add_everywhere(FoldLeft(scan, t, all), all)
        ELSE IF \E c \in Range(all) : t.c[c].inner # 0 THEN FoldLeft(scan, t, all)
        ELSE adf_classes_add_to_unnumbered(t, q)
      with(t) == add(t, recurse_class(t, t.q[q].classes))
  IN  IF Flag(t0, q, "inner") THEN with(get_any_class(t0, q)) ELSE t0

-----------------------------------------------------------------------------
(* Filters *)

CheckElements(t, f, Wrong(_)) ==
  Each(LAMBDA s, e : IF Wrong(e) THEN Fail(s) ELSE check_police(s, e.police), t, t.f[f].elements)

tcindex_check(t0, f) ==
  LET t    == Get(t0, t0.f[f].params)
      mask == IF On(t, "mask") THEN Value(t, "mask") ELSE MaxId
      hash == IF On(t, "hash") THEN Value(t, "hash") ELSE mask + 1
      t1   == [t EXCEPT !.prm.v["mask"] = mask, !.prm.v["hash"] = hash]
  IN  CheckElements(FailIf(t1, hash < mask + 1), f, LAMBDA e : e.number = Undef \/ e.number > mask)

fw_check(t, f) == CheckElements(t, f, LAMBDA e : e.number \in {Undef, 0})

route_check(t, f) == CheckElements(t, f, LAMBDA e : e.number # Undef)

(* add_if has checked the policers.                                        *)
if_check(t, f) == FailIf(t, \E x \in Range(t.q[t.f[f].q].filters) : t.f[x].kind # "if")

CheckFilter(t, f) ==
  LET kind == t.f[f].kind
  IN  CASE kind = "tcindex" -> tcindex_check(t, f)
        [] kind = "fw"      -> fw_check(t, f)
        [] kind = "route"   -> route_check(t, f)
        [] kind = "if"      -> if_check(t, f)

check_filters(t, list) == Each(CheckFilter, assign_filter_ids(t, list), list)

-----------------------------------------------------------------------------
(* Help for several qdiscs *)

check_childless(t, c) == FailIf(t, t.c[c].child # <<>> \/ t.c[c].filters # <<>>)

Sorted(t, list) == SortSeq(list, LAMBDA a, b : t.c[a].number < t.c[b].number)

(* Also finds numbers that are not unique.                                 *)
Twice(t, list) == \E i, j \in DOMAIN list : i # j /\ t.c[list[i]].number = t.c[list[j]].number

sort_classes(t, q) == [t EXCEPT !.q[q].classes = Sorted(t, @), !.err = @ \/ Twice(t, t.q[q].classes)]
SortChildren(t, c) == [t EXCEPT !.c[c].child = Sorted(t, @), !.err = @ \/ Twice(t, t.c[c].child)]

(* The class of the inner qdisc becomes class 0; if there is one already,  *)
(* this gets the qdisc.                                                    *)
merge_shared(t, q) ==
  LET list == t.q[q].classes
      open == Having(list, LAMBDA c : t.c[c].inner # 0 /\ t.c[c].number = Undef)
      zero == Having(list, LAMBDA c : t.c[c].number = 0)
      from == list[Max(open)]
      to   == list[Max(zero)]
      in   == t.c[from].inner
      sel  == \E f \in Range(t.q[q].filters) :
                t.f[f].kind = "if" /\ \E e \in Range(t.f[f].elements) : e.c = from
  IN  CASE Len(list) = 1 /\ t.c[list[1]].number = Undef -> [t EXCEPT !.c[list[1]].number = 0]
        [] Len(list) # 1 /\ open # {} /\ zero = {} -> [t EXCEPT !.c[from].number = 0]
        [] Len(list) # 1 /\ open # {} /\ zero # {} ->
             [t EXCEPT !.c[to].inner = in, !.q[in].up.c = to, !.q[q].classes = RemoveAt(@, Max(open)),
                       !.err = @ \/ sel]
        [] OTHER -> t

require_class(t, q, number) ==
  IF \E c \in Range(t.q[q].classes) : t.c[c].number = number THEN t
  ELSE [make_class(t, q, 0, FALSE) EXCEPT !.c[Len(t.c) + 1].number = number]

(* All classes go into a new class 0, unless some class has this number.   *)
create_root_class(t, q) ==
  LET list == t.q[q].classes
      all  == recurse_class(t, list)
      n    == Len(t.c) + 1
      t1   == require_class([t EXCEPT !.q[q].classes = <<>>], q, 0)
      rate == IF t.q[q].dsc = "cbq" THEN [x \in {"rate"} |-> t.q[q].params["bandwidth"]] ELSE NoParams
  IN  IF Having(all, LAMBDA c : t.c[c].number = 0) # {} THEN t
      ELSE [t1 EXCEPT !.c = [c \in DOMAIN @ |-> CASE c = n -> [@[c] EXCEPT !.child = list, !.params = rate]
                                                  [] c \in Range(list) -> [@[c] EXCEPT !.parent = n]
                                                  [] OTHER -> @[c]]]

SlipRootClass(t, q) ==
  FailIf(t, Len(t.q[q].classes) # 1 \/ t.c[t.q[q].classes[1]].number # 0)

(* The root class gives its filters to the qdisc.                          *)
check_root_class(t, q) ==
  LET root == t.q[q].classes[1]
      own  == t.c[root].filters
      t1   == IF own = <<>> THEN t ELSE [t EXCEPT !.q[q].filters = own, !.c[root].filters = <<>>]
  IN  IF Len(t.q[q].classes) # 1 THEN Fail(t)
      ELSE FailIf(t1, \/ t.c[root].number # 0
                      \/ t.q[q].filters # <<>> /\ own # <<>>
                      \/ /\ t.q[q].dsc = "cbq"
                         /\ \/ t.c[root].params["rate"] # Value(t, "bandwidth")
                            \/ "priomap" \in DOMAIN t.q[q].params \cap DOMAIN t.c[root].params)

-----------------------------------------------------------------------------
(* Qdiscs *)

CheckInside(t, c) == Then(check_qdisc(t, t.c[c].inner), LAMBDA s : check_filters(s, s.c[c].filters))

CheckClassQdisc(t, c) == Then(check_childless(t, c), LAMBDA s : check_qdisc(s, s.c[c].inner))

(* Whether to add "bands" is asked of the parameters that were read last,  *)
(* which are those of a qdisc, filter or policer inside when there is one. *)
prio_check(t0, q) ==
  LET given(t) == On(t, "bands")
      bands(t) == IF given(t) THEN Value(t, "bands") ELSE DefaultBands
      max(t)   == IF given(t) THEN bands(t) ELSE MaxBands
      map(t)   == t.q[q].params["priomap"]
      short(t) == \E n \in (Len(map(t)) + 1)..Len(default_priomap) : default_priomap[n] >= bands(t)
      wrong(t) == IF On(t, "priomap") THEN Len(map(t)) > Len(default_priomap) \/ short(t) ELSE bands(t) < 3
      need(t, b) == Max({b} \cup {t.c[c].number : c \in Range(t.q[q].classes)})
      set(t, b) == [t EXCEPT !.q[q].params = [n \in DOMAIN @ \cup {"bands"} |-> IF n = "bands" THEN need(t, b) ELSE @[n]]]
      classes(t) ==
        Then(Each(LAMBDA s, c : IF s.c[c].number \in 1..max(t) THEN CheckClassQdisc(s, c) ELSE Fail(s),
                  FailIf(t, wrong(t)), t.q[q].classes),
             LAMBDA s : IF On(s, "bands") \/ need(s, bands(t)) = DefaultBands THEN s ELSE set(s, bands(t)))
  IN  Then(classes(Get(AssignClassIds(t0, t0.q[q].classes), t0.q[q].params)),
           LAMBDA t : sort_classes(t, q))

PowersOfTwo(max) == {2^i : i \in {j \in 0..max : 2^j <= max}}

(* The inner qdisc, then the paths into it, then the numbers.  For indices *)
(* 0 the search for the bit does not end; as after an error, nothing is    *)
(* written.                                                                *)
Passes(t1, q, with) ==
  LET dflt   == t1.prm
      dsmark == t1.q[q].dsc # "ingress"
      many   == "indices" \in dflt.on
      indices == dflt.v["indices"]
      params(t) == [t EXCEPT !.prm = DEFAULT_GET(@, dflt, {"mask", "value"})]
      used(t)   == (On(t, "mask") /\ Value(t, "mask") # FullMask) \/ (On(t, "value") /\ Value(t, "value") # 0)
      first(t, c) == Then(FailIf(t, \/ dsmark /\ On(t, "mask") /\ Value(t, "mask") > FullMask
                                    \/ t.c[c].inner # 0 /\ c # with[1]),
                          LAMBDA s : CheckClassQdisc(s, c))
      last(t, c) == FailIf(t, t.c[c].number = Undef \/ (dsmark /\ used(t) /\ many /\ t.c[c].number >= indices))
      each(do(_, _), t) == Each(LAMBDA s, c : do(params(Get(s, s.c[c].params)), c), t, t.q[q].classes)
  IN  Then(FailIf(t1, many /\ indices \notin PowersOfTwo(indices)), LAMBDA t :
      Then(each(first, t), LAMBDA t2 :
      Then(class_selection_paths(t2, q, IF with = <<>> THEN 0 ELSE t2.c[with[1]].inner), LAMBDA t3 :
      Then(merge_shared(t3, q), LAMBDA t4 :
      Then(each(last, t4), LAMBDA t5 : sort_classes(t5, q))))))

dsmark_check(t, q) == Passes(Get(t, t.q[q].params), q, SelectSeq(t.q[q].classes, LAMBDA c : t.c[c].inner # 0))

ingress_check(t, q) == dsmark_check(t, q)

(* Of quantum and tquantum (a time) that comes from outside, the one that  *)
(* the class has itself wins; a time becomes a size.                       *)
HtbParams(t, c, dflt) ==
  LET s   == Get(t, t.c[c].params)
      own == s.prm.on
      got == DEFAULT_GET(s.prm, dflt, Def(t, c).dflt)
      knock_out == IF "tquantum" \in own THEN {"quantum"} ELSE IF "quantum" \in own THEN {"tquantum"} ELSE {}
  IN  [s EXCEPT !.prm = [got EXCEPT !.on = @ \ knock_out],
                !.err = @ \/ {"quantum", "tquantum"} \subseteq own
                          \/ (t.c[c].number # 0 /\ ~(Def(t, c).must \subseteq got.on))]

RECURSIVE htb_check_classes(_, _, _, _)

HtbClass(s, c, depth) ==
  LET quantum == Value(s, "tquantum") * Value(s, "rate")
      makes == On(s, "tquantum") /\ s.c[c].number # 0
      bad == \/ s.c[c].number # 0 /\ Value(s, "rate") = 0
             \/ makes /\ quantum < 1
             \/ On(s, "ceil") /\ Value(s, "ceil") < Value(s, "rate")
             \/ On(s, "prio") /\ Value(s, "prio") > MaxPrio
             \/ On(s, "default") /\ \E x \in DOMAIN s.c : x # c /\ s.c[x].q = s.c[c].q /\ "default" \in DOMAIN s.c[x].params
      own  == [n \in DOMAIN s.c[c].params \cup {"quantum"} |-> IF n = "quantum" THEN quantum ELSE s.c[c].params[n]]
  IN  Then(FailIf(SortChildren(IF makes THEN [s EXCEPT !.c[c].params = own] ELSE s, c), bad), LAMBDA s2 :
      Then(htb_check_classes(s2, s2.c[c].child, s.prm, depth + 1), LAMBDA s3 :
      CheckInside(s3, c)))

htb_check_classes(t0, list, dflt, depth) ==
  IF list # <<>> /\ depth = MaxLevel THEN Fail(t0)
  ELSE Each(LAMBDA t, c : HtbClass(HtbParams(t, c, dflt), c, depth), t0, list)

Rooted(t, q) == Get(create_root_class(AssignClassIds(t, t.q[q].classes), q), t.q[q].params)

htb_check(t0, q) ==
  Then(check_root_class(Rooted(t0, q), q), LAMBDA t2 :
  Then(FailIf(t2, {"quantum", "tquantum"} \subseteq t2.prm.on), LAMBDA t3 :
  htb_check_classes(t3, t3.q[q].classes, t3.prm, 0)))

(* Of a qdisc, its classes may be named, of a class, those inside of it.   *)
cbq_check_priomap(t, q, c, map) ==
  LET inside == IF c = 0 THEN {x \in DOMAIN t.c : t.c[x].q = q} ELSE Range(recurse_class(t, t.c[c].child))
  IN  FailIf(t, Len(map) > Len(default_priomap) \/ ~(Range(map) \subseteq inside))

RECURSIVE cbq_check_classes(_, _, _, _)

CbqClass(s, c, depth) ==
  LET bad == \/ ~(Def(s, c).must \subseteq s.prm.on)
             \/ On(s, "minburst") /\ Value(s, "minburst") > Value(s, "maxburst")
             \/ On(s, "prio") /\ Value(s, "prio") \notin 1..MaxPrio
             \/ Value(s, "rate") = 0 \/ Value(s, "rate") > Value(s, "bandwidth")
      map(t) == IF On(s, "priomap") THEN cbq_check_priomap(t, s.c[c].q, c, s.c[c].params["priomap"]) ELSE t
  IN  Then(FailIf(SortChildren(s, c), bad), LAMBDA s2 :
      Then(cbq_check_classes(s2, s2.c[c].child, s.prm, depth + 1), LAMBDA s3 :
      Then(map(s3), LAMBDA s4 :
      CheckInside(s4, c))))

cbq_check_classes(t0, list, dflt, depth) ==
  LET params(t, c) == [t EXCEPT !.prm = DEFAULT_GET(@, dflt, Def(t, c).dflt)]
  IN  IF list # <<>> /\ depth = MaxLevel THEN Fail(t0)
      ELSE Each(LAMBDA t, c : CbqClass(params(Get(t, t.c[c].params), c), c, depth), t0, list)

cbq_check(t0, q) ==
  LET map(t) == IF "priomap" \in DOMAIN t.q[q].params THEN cbq_check_priomap(t, q, 0, t.q[q].params["priomap"]) ELSE t
  IN  Then(check_root_class(Rooted(t0, q), q), LAMBDA t2 :
      Then(cbq_check_classes(t2, t2.q[q].classes, t2.prm, 0), LAMBDA t3 :
      map(t3)))

tbf_check(t0, q) ==
  LET list == t0.q[q].classes
      mtu(t) == IF On(t, "mtu") THEN Value(t, "mtu") ELSE MTU
      bad(t) == \/ Value(t, "burst") < mtu(t)
                \/ On(t, "mpu") /\ Value(t, "mpu") < mtu(t)
                \/ Value(t, "rate") = 0
                \/ On(t, "peakrate") /\ Value(t, "rate") > Value(t, "peakrate")
                \/ Len(list) > 1
      inner(t) == IF list = <<>> THEN t ELSE check_qdisc([t EXCEPT !.c[list[1]].number = 0], t.c[list[1]].inner)
  IN  Then(Get(t0, t0.q[q].params), LAMBDA t : Then(FailIf(t, bad(t)), inner))

(* Classes without a number follow the one before them.                    *)
GredClasses(t1, q) ==
  LET dflt == t1.prm
      grio == "grio" \in dflt.on
      check(s, t, c, dp) ==
        [t  |-> FailIf([t EXCEPT !.c[c].number = dp],
                       \/ \E x \in Range(t.q[q].classes) : x # c /\ t.c[x].number = dp
                       \/ t.c[c].inner # 0 \/ t.c[c].number >= MaxDPs
                       \/ ~(Def(t, c).must \subseteq t.prm.on)
                       \/ On(t, "default") /\ (dp = 0 \/ s.default)
                       \/ grio # On(t, "prio")),
         dp |-> dp + 1, default |-> s.default \/ On(t, "default")]
      params(t, c) == [t EXCEPT !.prm = DEFAULT_GET(param_get(@, t.c[c].params), dflt, Def(t, c).dflt)]
      each(s, c) == IF s.t.err THEN s
                    ELSE check(s, params(check_childless(s.t, c), c), c,
                               IF s.t.c[c].number = Undef THEN s.dp ELSE s.t.c[c].number)
  IN  FoldLeft(each, [t |-> t1, dp |-> 0, default |-> FALSE], t1.q[q].classes)

gred_check(t0, q) ==
  LET prio(t, c, dps) == "prio" \in DOMAIN t.c[c].params /\ t.c[c].params["prio"] \notin 1..dps
      rest(r) == Then(FailIf(r.t, \E c \in Range(r.t.q[q].classes) : prio(r.t, c, r.dp)),
                      LAMBDA t : FailIf(sort_classes(t, q), ~r.default))
  IN  rest(GredClasses(Get(t0, t0.q[q].params), q))

fifo_check(t0, q) == LET t == Get(t0, t0.q[q].params) IN FailIf(t, {"limit", "plimit"} \subseteq t.prm.on)

red_check(t, q) == t

sfq_check(t, q) == Get(t, t.q[q].params)

CheckKind(t, q) ==
  LET dsc == t.q[q].dsc
  IN  CASE dsc = "prio" -> prio_check(t, q)
        [] dsc \in {"dsmark", "egress"} -> dsmark_check(t, q)
        [] dsc = "ingress" -> ingress_check(t, q)
        [] dsc = "htb"  -> htb_check(t, q)
        [] dsc = "cbq"  -> cbq_check(t, q)
        [] dsc = "tbf"  -> tbf_check(t, q)
        [] dsc = "gred" -> gred_check(t, q)
        [] dsc = "fifo" -> fifo_check(t, q)
        [] dsc = "red"  -> red_check(t, q)
        [] dsc = "sfq"  -> sfq_check(t, q)

(* All qdiscs check their filters last.                                    *)
check_qdisc(t, q) ==
  IF q = 0 THEN t ELSE Then(CheckKind(t, q), LAMBDA s : check_filters(s, s.q[q].filters))

=============================================================================
