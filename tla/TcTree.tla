------------------------------- MODULE TcTree -------------------------------
(***************************************************************************)
(* The tree of qdiscs, classes and filters that tcc builds while it parses *)
(* a configuration, with the parameters and numbers of its elements, and   *)
(* the list of policers (tcc/tcng.y, qdisc.c, filter.c, police.c, param.c).*)
(***************************************************************************)
EXTENDS Integers, Sequences, SequencesExt, FiniteSetsExt

CONSTANTS
  MaxId,     \* the largest number of a qdisc, class or filter: 0xffff
  MaxBands,  \* TCQ_PRIO_BANDS
  MaxDPs,    \* TCQ_GRED_MAX_DPs, a power of two
  MaxLevel,  \* TC_HTB_MAXLEVEL, TC_CBQ_MAXLEVEL
  MaxPrio,   \* TC_HTB_MAXPRIO, TC_CBQ_MAXPRIO
  MTU        \* guess_mtu

Undef == -1       \* UNDEF_U32
NoParams == [n \in {} |-> 0]

-----------------------------------------------------------------------------
(* Parameters *)

(* Descriptors: the flags of a qdisc, its parameters and those of its      *)
(* classes, which of them classes inherit and which these must have.       *)
Dsc(flags, req, opt, creq, copt, dflt, must) ==
  [flags |-> flags, req |-> req, opt |-> opt \cup dflt, creq |-> creq, copt |-> copt \cup dflt,
   dflt |-> dflt, must |-> must]

prio_dsc == Dsc({"classes", "filters", "inner"}, {}, {"bands", "priomap"}, {}, {}, {}, {})

SharedFlags == {"classes", "filters", "inner", "shared", "paths"}

dsmark_dsc == Dsc(SharedFlags, {}, {"default_index", "indices"}, {}, {"class_sel_path"}, {"mask", "value"}, {})

ingress_dsc == Dsc(SharedFlags, {}, {}, {}, {"class_sel_path"}, {}, {})

htb_dsc == Dsc({"classes", "filters", "inner"}, {}, {"r2q"}, {}, {"default"},
               {"ceil", "prio", "quantum", "rate", "tquantum"}, {"rate"})

cbq_dsc == Dsc({"classes", "filters", "inner"}, {"bandwidth"}, {"priomap"}, {"rate"}, {"priomap"},
               {"allot", "avpkt", "bandwidth", "maxburst", "minburst", "prio"},
               {"bandwidth", "maxburst", "rate", "avpkt", "allot"})

tbf_dsc == Dsc({"inner", "shared"}, {"rate", "burst", "limit"}, {"mpu", "peakrate", "mtu"}, {}, {}, {}, {})

gred_dsc == Dsc({"classes"}, {"bandwidth"}, {"grio"}, {}, {"default", "prio"}, {"avpkt", "limit"}, {"avpkt", "limit"})

fifo_dsc == Dsc({}, {}, {"limit", "plimit"}, {}, {}, {}, {})

red_dsc == Dsc({}, {"limit", "min", "max", "burst", "avpkt", "bandwidth"}, {"probability", "ecn"}, {}, {}, {}, {})

sfq_dsc == Dsc({}, {}, {"perturb", "quantum"}, {}, {}, {}, {})

qdisc_dsc ==
  [prio |-> prio_dsc, dsmark |-> dsmark_dsc, egress |-> dsmark_dsc, ingress |-> ingress_dsc,
   htb |-> htb_dsc, cbq |-> cbq_dsc, tbf |-> tbf_dsc, gred |-> gred_dsc,
   fifo |-> fifo_dsc, red |-> red_dsc, sfq |-> sfq_dsc]

police_rate_req == {"burst"}
police_opt      == {"burst", "mpu", "mtu", "peakrate", "rate"}

tcindex_opt == {"hash", "mask", "shift", "fall_through"}

Lists == {"priomap", "class_sel_path"}
Names == UNION {UNION {d.req, d.opt, d.creq, d.copt} : d \in {qdisc_dsc[k] : k \in DOMAIN qdisc_dsc}}
         \cup police_opt \cup tcindex_opt

(* The values that were read last stay in the descriptors of the           *)
(* parameters; only "present" is reset.                                    *)
NoValues == [on |-> {}, v |-> [n \in Names \ Lists |-> 0]]

param_get(prm, params) ==
  [on |-> DOMAIN params, v |-> [n \in Names \ Lists |-> IF n \in DOMAIN params THEN params[n] ELSE prm.v[n]]]

DEFAULT_GET(prm, dflt, names) ==
  [on |-> prm.on \cup (dflt.on \cap names),
   v  |-> [n \in DOMAIN prm.v |-> IF n \in names \ prm.on THEN dflt.v[n] ELSE prm.v[n]]]

check_params(params, req, opt) == req \subseteq DOMAIN params /\ DOMAIN params \subseteq req \cup opt

-----------------------------------------------------------------------------
(* Elements *)

(* References are places in these lists, 0 is NULL.                        *)
Empty ==
  [q |-> <<>>, c |-> <<>>, f |-> <<>>, p |-> <<>>,
   egress |-> 0, ingress |-> 0, parent |-> [q |-> 0, c |-> 0],
   prm |-> NoValues, curr_id |-> 1,
   assigned |-> [known |-> FALSE, ids |-> {}], ind |-> 1,
   err |-> FALSE]

Fail(t) == [t EXCEPT !.err = TRUE]

Flag(t, q, flag) == flag \in qdisc_dsc[t.q[q].dsc].flags
Def(t, c)        == qdisc_dsc[t.q[t.c[c].q].dsc]

make_class(t, q, parent, implicit) ==
  LET n  == Len(t.c) + 1
      t1 == [t EXCEPT !.c = Append(@, [q |-> q, parent |-> parent, number |-> Undef, params |-> NoParams,
                                       inner |-> 0, child |-> <<>>, filters |-> <<>>, implicit |-> implicit])]
  IN  IF ~Flag(t, q, "classes") /\ (~implicit \/ ~Flag(t, q, "inner")) THEN Fail(t)
      ELSE IF parent # 0 THEN [t1 EXCEPT !.c[parent].child = Append(@, n)]
      ELSE [t1 EXCEPT !.q[q].classes = Append(@, n)]

(* Classes of a list and those nested in them, in the order of             *)
(* recurse_class.                                                          *)
RECURSIVE recurse_class(_, _)
recurse_class(t, list) ==
  FoldLeft(LAMBDA s, c : s \o <<c>> \o recurse_class(t, t.c[c].child), <<>>, list)

RECURSIVE recurse_qdisc(_, _)
recurse_qdisc(t, q) ==
  FoldLeft(LAMBDA s, c : IF t.c[c].inner = 0 THEN s ELSE s \o recurse_qdisc(t, t.c[c].inner),
           <<q>>, recurse_class(t, t.q[q].classes))

Having(list, P(_)) == {i \in DOMAIN list : P(list[i])}

-----------------------------------------------------------------------------
(* Assignment of numbers *)

Unused(from, used) == Min((from..(from + Cardinality(used))) \ used)

SlipAssignClass(t, root, c) ==
  [t EXCEPT !.c[c].number = IF @ = Undef THEN t.curr_id ELSE @, !.curr_id = @ + 1]

assign_class_id(t, root, c) ==
  LET all   == recurse_class(t, root)
      n     == t.c[c].number
      id    == Unused(t.curr_id, {t.c[all[i]].number : i \in DOMAIN all})
      count == Cardinality(Having(all, LAMBDA x : t.c[x].number = n))
  IN  IF n = Undef
      THEN [t EXCEPT !.curr_id = id, !.c[c].number = id, !.err = @ \/ id > MaxId]
      ELSE [t EXCEPT !.err = @ \/ count > 1 \/ n > MaxId]

AssignClassIds(t, root) ==
  FoldLeft(LAMBDA s, c : assign_class_id(s, root, c), [t EXCEPT !.curr_id = 1], recurse_class(t, root))

assign_qdisc_ids(t, root) ==
  LET all == recurse_qdisc(t, root)
      assign(s, q) ==
        LET n     == s.q[q].number
            id    == Unused(s.curr_id, {s.q[all[i]].number : i \in DOMAIN all})
            count == Cardinality(Having(all, LAMBDA x : s.q[x].number = n))
        IN  IF n = Undef
            THEN [s EXCEPT !.curr_id = id, !.q[q].number = id, !.err = @ \/ id > MaxId]
            ELSE [s EXCEPT !.err = @ \/ count > 1 \/ n = 0 \/ n > MaxId]
  IN  FoldLeft(assign, [t EXCEPT !.curr_id = 1], all)

assign_filter_ids(t, list) ==
  LET assign(s, f) ==
        LET n == s.t.f[f].number
            m == IF n = Undef THEN s.prio ELSE n
        IN  [t |-> [s.t EXCEPT !.f[f].number = m, !.err = @ \/ m < s.prio \/ m > MaxId], prio |-> m + 1]
  IN  FoldLeft(assign, [t |-> t, prio |-> 1], list).t

-----------------------------------------------------------------------------
(* Policers *)

add_police(t, number, params, in, out) ==
  IF number = 0 \/ (number # Undef /\ \E i \in DOMAIN t.p : t.p[i].number = number) THEN Fail(t)
  ELSE [t EXCEPT !.p = Append(@, [number |-> number, params |-> params, in |-> in, out |-> out, used |-> FALSE, created |-> FALSE])]

(* The numbers that users have given are gathered once, at the first call. *)
assign_policer_ids(t) ==
  LET given   == {t.p[i].number : i \in DOMAIN t.p} \ {Undef}
      t1      == IF t.assigned.known THEN t ELSE [t EXCEPT !.assigned = [known |-> TRUE, ids |-> given]]
      step(s, i) == LET id == Unused(s.ind, s.assigned.ids)
                    IN  IF s.p[i].number # Undef THEN s ELSE [s EXCEPT !.p[i].number = id, !.ind = id + 1]
  IN  FoldLeft(step, t1, [i \in DOMAIN t.p |-> i])

(* Reads the parameters of the policer, which replace those that were read *)
(* before.                                                                 *)
check_police(t, i) ==
  LET ps   == t.p[i].params
      good == IF "rate" \in DOMAIN ps THEN check_params(ps, police_rate_req, police_opt)
              ELSE check_params(ps, {}, {})
  IN  IF i = 0 THEN t
      ELSE [assign_policer_ids(t) EXCEPT !.prm = param_get(@, ps), !.p[i].used = TRUE, !.err = @ \/ ~good]

-----------------------------------------------------------------------------
(* What the parser does at each construct *)

begin_class(t, number, params, implicit) ==
  LET n  == Len(t.c) + 1
      t1 == make_class(t, t.parent.q, t.parent.c, implicit)
      d  == qdisc_dsc[t.q[t.parent.q].dsc]
  IN  IF t1.err \/ (~implicit /\ ~check_params(params, d.creq, d.copt)) THEN Fail(t1)
      ELSE [t1 EXCEPT !.c[n].number = number, !.c[n].params = params, !.parent.c = n]

(* A qdisc in the body of another one gets a class of its own.             *)
qdisc_spec(t0, dsc, number, params) ==
  LET t  == IF t0.parent.q # 0 /\ t0.parent.c = 0 THEN begin_class(t0, Undef, NoParams, TRUE) ELSE t0
      n  == Len(t.q) + 1
      d  == qdisc_dsc[dsc]
      t1 == [t EXCEPT !.q = Append(@, [dsc |-> dsc, number |-> number, params |-> params, classes |-> <<>>,
                                       filters |-> <<>>, up |-> t.parent]),
                      !.parent = [q |-> n, c |-> 0]]
  IN  IF \/ t.err \/ ~check_params(params, d.req, d.opt)
         \/ dsc = "ingress" /\ number # Undef
         \/ t.parent.q # 0 /\ t.c[t.parent.c].inner # 0
         \/ t.parent.q = 0 /\ (IF dsc = "ingress" THEN t.ingress ELSE t.egress) # 0
      THEN Fail(t)
      ELSE IF t.parent.q # 0 THEN [t1 EXCEPT !.c[t.parent.c].inner = n]
      ELSE IF dsc = "ingress" THEN [t1 EXCEPT !.ingress = n] ELSE [t1 EXCEPT !.egress = n]

(* End of a class or qdisc; with it, of the class made for the qdisc.      *)
EndScope(t) ==
  LET up == t.q[t.parent.q].up
  IN  IF t.parent.c # 0 THEN [t EXCEPT !.parent.c = t.c[t.parent.c].parent]
      ELSE IF up.q # 0 /\ t.c[up.c].implicit THEN [t EXCEPT !.parent = [q |-> up.q, c |-> t.c[up.c].parent]]
      ELSE [t EXCEPT !.parent = up]

NewFilter(t, q, c, list, kind, number, params) ==
  LET n  == Len(t.f) + 1
      t1 == [t EXCEPT !.f = Append(@, [q |-> q, c |-> c, kind |-> kind, number |-> number, params |-> params,
                                       elements |-> <<>>])]
  IN  IF list # 0 THEN [t1 EXCEPT !.c[list].filters = Append(@, n)]
      ELSE [t1 EXCEPT !.q[q].filters = Append(@, n)]

add_filter(t, kind, number, params) ==
  IF ~Flag(t, t.parent.q, "filters") THEN Fail(t)
  ELSE NewFilter(t, t.parent.q, t.parent.c, t.parent.c, kind, number, params)

add_element(t, f, number, c, police) ==
  [t EXCEPT !.f[f].elements = Append(@, [number |-> number, c |-> c, police |-> police])]

(* An "if" uses the one pseudo-filter of its qdisc, and its policers are   *)
(* checked while parsing.  The filter is one of the class around the first *)
(* class that has an "if".                                                 *)
add_if(t0, police) ==
  LET t  == check_police(t0, police)
      fs == t.q[t.parent.q].filters
      is == Having(fs, LAMBDA f : t.f[f].kind = "if")
      t1 == NewFilter(t, t.parent.q, t.c[t.parent.c].parent, 0, "if", Undef, NoParams)
  IN  IF is # {} THEN add_element(t, fs[Min(is)], Undef, t.parent.c, police)
      ELSE add_element(t1, Len(t1.f), Undef, t.parent.c, police)

=============================================================================
