----------------------------- MODULE ClassPaths -----------------------------
(***************************************************************************)
(* Class selection paths (tcc/csp.c): a class of dsmark, egress or ingress *)
(* that names classes of the inner qdiscs gets a number from which tcindex *)
(* filters in these qdiscs choose the classes on the way to them.          *)
(***************************************************************************)
EXTENDS TcTree

CONSTANT PathBits   \* CSP_INDEX_BITS

RECURSIVE find_last_class(_, _, _, _, _, _), selection_bits(_, _, _)

(* New entries go to the front of all lists.                               *)
NoContext == [paths |-> <<>>, refs |-> <<>>, qdiscs |-> <<>>, last |-> 0, err |-> FALSE]

EntryOf(ctx, q)  == Having(ctx.qdiscs, LAMBDA e : e.q = q)
Number(ctx, t, c) ==
  LET e == ctx.qdiscs[Min(EntryOf(ctx, t.c[c].q))]
  IN  e.classes[Min(Having(e.classes, LAMBDA x : x.c = c))].n

(* gred numbers its classes itself.                                        *)
register_sel_class(ctx, t, c) ==
  LET q  == t.c[c].q
      gred == t.q[q].dsc = "gred"
      enter(e) == [e EXCEPT !.num = IF gred THEN @ ELSE @ + 1,
                            !.classes = <<[c |-> c, n |-> IF gred THEN t.c[c].number ELSE e.num + 1]>> \o @]
      known(e) == Having(e.classes, LAMBDA x : x.c = c) # {}
      old == EntryOf(ctx, q)
      i   == Min(old)
  IN  IF old = {} THEN [ctx EXCEPT !.qdiscs = <<enter([q |-> q, classes |-> <<>>, num |-> 0])>> \o @]
      ELSE IF known(ctx.qdiscs[i]) THEN ctx ELSE [ctx EXCEPT !.qdiscs[i] = enter(@)]

register_sel_classes(ctx, t, path) == FoldLeft(LAMBDA x, c : register_sel_class(x, t, c), ctx, Reverse(path))

(* Equal paths are told apart by an index.                                 *)
NewPath(ctx, path, same) ==
  [ctx EXCEPT !.paths = <<[path |-> path, equals |-> Cardinality(same) + 1, index |-> Cardinality(same)]>> \o
     [i \in DOMAIN @ |-> IF i \in same THEN [@[i] EXCEPT !.equals = @ + 1] ELSE @[i]]]

register_sel_path(ctx, t, path) ==
  IF \E i \in DOMAIN path : t.q[t.c[path[i]].q].filters # <<>> THEN [ctx EXCEPT !.err = TRUE]
  ELSE NewPath(register_sel_classes(ctx, t, path), path, Having(ctx.paths, LAMBDA p : p.path = path))

(* The way to the last class that is named, through all others.            *)
find_last_class(ctx, t, list, classes, left, prev) ==
  LET inner(x, c, n) == find_last_class(x, t, list, t.q[t.c[c].inner].classes, n, Append(prev, c))
      visit(x, c) == CASE c \notin Range(list) -> IF t.c[c].inner # 0 THEN inner(x, c, left) ELSE x
                       [] c \in Range(list) /\ left > 1 ->
                            IF t.c[c].inner = 0 THEN [x EXCEPT !.err = TRUE] ELSE inner(x, c, left - 1)
                       [] OTHER -> IF x.last \notin {0, c} THEN [x EXCEPT !.err = TRUE]
                                   ELSE register_sel_path([x EXCEPT !.last = c], t, Append(prev, c))
      nested(x, c) == IF x.err \/ (c \in Range(list) /\ left = 1) \/ t.c[c].child = <<>> THEN x
                      ELSE find_last_class(x, t, list, t.c[c].child, left, prev)
  IN  FoldLeft(LAMBDA x, c : IF x.err THEN x ELSE nested(visit(x, c), c), ctx, classes)

register_selection_path(ctx, t, c, inner) ==
  LET list == t.c[c].params["class_sel_path"]
      add(cx) == [cx EXCEPT !.refs = <<c>> \o @, !.err = @ \/ (list # <<>> /\ cx.last = 0)]
  IN  IF list # <<>> /\ inner = 0 THEN [ctx EXCEPT !.err = TRUE]
      ELSE IF list = <<>> THEN add(register_sel_path(ctx, t, <<>>))
      ELSE add(find_last_class([ctx EXCEPT !.last = 0], t, list, t.q[inner].classes, Cardinality(Range(list)), <<>>))

-----------------------------------------------------------------------------
(* Numbers and filters *)

BitsFor(n) == Min({b \in 0..n : 2^b > n})   \* values 0..n

OwnBits(ctx, t, q) ==
  IF t.q[q].dsc = "gred" THEN BitsFor(MaxDPs - 1) ELSE BitsFor(ctx.qdiscs[Min(EntryOf(ctx, q))].num)

SlipSelectionBits(ctx, t, q) == IF EntryOf(ctx, q) = {} THEN 0 ELSE OwnBits(ctx, t, q)

(* The bits of a qdisc are above those of all qdiscs inside of it.         *)
selection_bits(ctx, t, q) ==
  LET inner == {t.c[c].inner : c \in Range(recurse_class(t, t.q[q].classes))} \ {0}
  IN  IF EntryOf(ctx, q) = {} THEN 0
      ELSE OwnBits(ctx, t, q) + Max({0} \cup {selection_bits(ctx, t, i) : i \in inner})

Shift(ctx, t, q) == selection_bits(ctx, t, q) - OwnBits(ctx, t, q)

sel_add_tcindex(t, q, shift, bits) ==
  NewFilter(t, q, 0, 0, "tcindex", Len(t.q[q].filters) + 1, [shift |-> shift, mask |-> (2^bits - 1) * 2^shift])

NotGred(ctx, t) == SelectSeq(ctx.qdiscs, LAMBDA e : t.q[e.q].dsc # "gred")

sel_add_elements(t, classes) == FoldLeft(LAMBDA s, x : add_element(s, Len(t.f), x.n, x.c, 0), t, classes)

sel_add_hier_filters(t0, ctx) ==
  FoldLeft(LAMBDA t, e : sel_add_elements(sel_add_tcindex(t, e.q, Shift(ctx, t0, e.q), OwnBits(ctx, t0, e.q)), e.classes),
           t0, NotGred(ctx, t0))

sel_set_class_numbers(t, ctx, top_shift) ==
  LET number(p) == p.index * 2^top_shift +
                   FoldLeft(LAMBDA n, c : n + Number(ctx, t, c) * 2^Shift(ctx, t, t.c[c].q), 0, p.path)
  IN  FoldLeft(LAMBDA s, i : [s EXCEPT !.c[ctx.refs[i]].number = number(ctx.paths[i])], t,
               [i \in DOMAIN ctx.refs |-> i])

(* If there are not enough bits, one number for each path, that all qdiscs *)
(* look for.                                                               *)
set_number_refs(t, ctx) ==
  FoldLeft(LAMBDA s, i : [s EXCEPT !.c[ctx.refs[i]].number = i, !.err = @ \/ Len(ctx.refs) >= 2^PathBits], t,
           [i \in DOMAIN ctx.refs |-> i])

sel_add_seq_filters(t0, ctx) ==
  LET elem(n, t, c) == IF t.q[t.c[c].q].dsc = "gred" THEN t
                       ELSE add_element(t, t.q[t.c[c].q].filters[1], n, c, 0)
  IN  FoldLeft(LAMBDA t, i : FoldLeft(LAMBDA s, c : elem(i, s, c), t, ctx.paths[i].path),
               FoldLeft(LAMBDA t, e : sel_add_tcindex(t, e.q, 0, PathBits), t0, NotGred(ctx, t0)),
               [i \in DOMAIN ctx.paths |-> i])

end_selection_paths(t, ctx, inner) ==
  LET equals == Max({p.equals : p \in Range(ctx.paths)})
      top    == Min({b \in 0..equals : 2^b >= equals})
      set(bits) == IF top + bits <= PathBits
                   THEN sel_set_class_numbers(sel_add_hier_filters(t, ctx), ctx, bits)
                   ELSE sel_add_seq_filters(set_number_refs(t, ctx), ctx)
  IN  IF ctx.paths = <<>> THEN t ELSE set(IF inner = 0 THEN 0 ELSE selection_bits(ctx, t, inner))

class_selection_paths(t0, q, inner) ==
  LET t    == [t0 EXCEPT !.prm = FoldLeft(LAMBDA prm, c : param_get(prm, t0.c[c].params), @, t0.q[q].classes)]
      with == SelectSeq(t.q[q].classes, LAMBDA c : "class_sel_path" \in DOMAIN t.c[c].params)
      end(ctx) == IF ctx.err \/ \E c \in Range(with) : t.c[c].number # Undef THEN Fail(t)
                  ELSE end_selection_paths(t, ctx, inner)
  IN  end(FoldLeft(LAMBDA x, c : IF x.err THEN x ELSE register_selection_path(x, t, c, inner), NoContext, with))

=============================================================================
