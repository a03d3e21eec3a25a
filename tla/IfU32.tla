-------------------------------- MODULE IfU32 --------------------------------
(***************************************************************************)
(* The u32 target of "if" (tcc/if_u32.c): an expression, as the logical    *)
(* passes leave it (IfPasses), becomes a series of "tc filter" commands -  *)
(* filters of the u32 classifier in hash tables that are linked at offsets *)
(* into the packet, with policers for the meters.                          *)
(***************************************************************************)
EXTENDS ActionDb, IfOffset

CONSTANTS
  Cases,      \* bound: [expr: a normal form, with "continue" for what is left, default: the
              \* default class or None, vary: the bits at each field root that packets differ in]
  Buckets,    \* policing elements
  Full,       \* those that have a peak rate
  Overflows,  \* overflow of a bucket into another: function from the former to the latter
  MetaRoot,   \* META_FIELD_ROOT, whose fields are one byte (the mark: MarkSize) at these places
  ProtocolAt, MarkAt, IndexAt,
  MarkSize,   \* META_NFMARK_SIZE in bytes
  MaxKeys     \* MAX_U32_KEYS

VARIABLES
  case,       \* what is being compiled
  stage,      \* where dump_if_u32 is
  expr,       \* the expression that is dumped
  protocols,  \* protocols that it asks for, last one first
  gen         \* what the generator keeps in static variables, and its output

vars == <<case, stage, expr, protocols, gen>>

(* A handle is a hash table and a key in it; table 0 is TC_U32_ROOT.       *)
RootTable == 0
AllProtocols == -1
NoOffset == [plus |-> 0, mask |-> 0, at |-> 0, shift |-> 0]

Generator ==
  [proto |-> AllProtocols,   \* the protocol of this pass
   prio |-> 0, handle |-> 0, cached |-> 0, is_meta |-> 0, last_meta |-> 0, meta |-> <<>>,
   cur |-> [ht |-> RootTable, key |-> 0], keys |-> <<>>, stack |-> <<>>,
   policers |-> [p \in {} |-> <<>>], out |-> <<>>,
   useful |-> TRUE, err |-> FALSE]

Init ==
  /\ case \in Cases
  /\ stage = "continue"
  /\ expr = None /\ protocols = <<>> /\ gen = Generator

-----------------------------------------------------------------------------
(* Commands *)

new_handle(s) == [s EXCEPT !.handle = @ + 1]

Emit(s, cmd)   == [s EXCEPT !.out = Append(@, cmd)]
Complete(s, f, v) == [s EXCEPT !.out[Len(s.out)] = [@ EXCEPT ![f] = v]]

Filter(s, kind, h, matches, off, link) ==
  [kind |-> kind, prio |-> s.prio, proto |-> s.proto, ht |-> h.ht, key |-> h.key,
   matches |-> matches, off |-> off, link |-> link, class |-> None, police |-> <<>>]

EmitTable(s, ht) == Emit(s, Filter(s, "table", [ht |-> ht, key |-> 0], {}, NoOffset, 0))

SlipSyncMeta(s) == [s EXCEPT !.is_meta = IF @ = 0 THEN -1 ELSE @]

sync_meta(s) ==
  LET m == IF s.is_meta = 0 THEN -1 ELSE s.is_meta
  IN  [s EXCEPT !.is_meta = m, !.last_meta = m,
                !.prio = IF s.last_meta \notin {0, m} THEN @ + 1 ELSE @]

SlipCachedHash(s) == IF s.is_meta = 1 THEN [s EXCEPT !.err = TRUE] ELSE sync_meta(s)

(* The table behind the next link is written only when there is a link.    *)
next_hash(s) == [s EXCEPT !.cached = s.handle + 1]
cached_hash(s) ==
  CASE s.is_meta = 1 -> [s EXCEPT !.err = TRUE]
    [] s.is_meta # 1 /\ s.cached = 0 -> s
    [] OTHER -> [EmitTable(sync_meta(s), s.cached) EXCEPT !.cached = 0]

begin_match(s, h) == [s EXCEPT !.cur = h, !.keys = <<>>, !.is_meta = 0]

dump_rule(s, r, h) ==
  Emit(s, Filter(s, "u32", h, r.matches, r.off, IF r.link = 0 THEN 0 ELSE s.handle))

pop_rule(s) ==
  IF s.stack = <<>> THEN [s EXCEPT !.err = TRUE] ELSE [s EXCEPT !.stack = Front(@)]

(* All rules on the way to the present one once more, in tables of their   *)
(* own.                                                                    *)
RECURSIVE dump_stack(_, _)

NextTable(s) == EmitTable(s, s.handle)

RepeatRule(s, r, n) ==
  dump_rule(IF r.link = 0 THEN s ELSE NextTable(new_handle(s)), r,
            IF n > 1 THEN [ht |-> s.handle, key |-> r.handle.key] ELSE r.handle)

dump_stack(s, n) == RepeatRule(IF n > 1 THEN dump_stack(s, n - 1) ELSE s, s.stack[n], n)

dump_meta(s) == Emit(s, Filter(s, s.meta[1], [ht |-> RootTable, key |-> s.meta[2]], {}, NoOffset, 0))

dump_match_again(s) ==
  CASE s.is_meta = 1 -> dump_meta(s)
    [] s.is_meta # 1 /\ s.stack = <<>> -> [s EXCEPT !.err = TRUE]
    [] OTHER -> dump_stack(s, Len(s.stack))

(* Only the bits of the key itself are written; see add_key.               *)
KeyBits(k) ==
  {<<b, IF b \in k.ones THEN 1 ELSE 0>> :
     b \in k.mask \cap ((k.off * ByteBits)..((k.off + k.size) * ByteBits - 1))}

DumpSynced(s) ==
  LET r == [handle |-> s.cur, matches |-> UNION {KeyBits(s.keys[i]) : i \in DOMAIN s.keys},
            off |-> NoOffset, link |-> 0]
  IN  IF s.is_meta = 1 THEN dump_meta(s)
      ELSE dump_rule([s EXCEPT !.stack = Append(@, r)], r, s.cur)

dump_match(s) == DumpSynced(sync_meta(s))

-----------------------------------------------------------------------------
(* Matches *)

SlipAddKey(s, size, off, ones, mask) ==
  LET hits == {i \in DOMAIN s.keys : s.keys[i].size = size /\ s.keys[i].off = off}
  IN  IF hits = {} THEN [s EXCEPT !.keys = Append(@, [size |-> size, off |-> off, ones |-> ones, mask |-> mask])]
      ELSE [s EXCEPT !.keys[Min(hits)].ones = @ \cup ones, !.keys[Min(hits)].mask = @ \cup mask]

(* A key has one, two or four bytes.  It holds the masked bits up to the   *)
(* end of its word, and is compared with the other keys of this word.      *)
add_key(s, size, off, ones, mask) ==
  LET word  == off - (off % 4)
      upto  == (off * ByteBits)..((word + 4) * ByteBits - 1)
      k     == [size |-> size, off |-> off, ones |-> ones \cap upto, mask |-> mask \cap upto]
      differ(i) == \E b \in s.keys[i].mask \cap k.mask : (b \in s.keys[i].ones) # (b \in k.ones)
      same(i)   == s.keys[i].size = size /\ s.keys[i].off = off
      hits  == {i \in DOMAIN s.keys : s.keys[i].off - (s.keys[i].off % 4) = word /\ (differ(i) \/ same(i))}
  IN  CASE Len(s.keys) = MaxKeys -> [s EXCEPT !.err = TRUE]
        [] Len(s.keys) < MaxKeys /\ hits = {} -> [s EXCEPT !.keys = Append(@, k)]
        [] OTHER -> LET i == Min(hits)
                    IN  IF differ(i) THEN [s EXCEPT !.useful = FALSE]
                        ELSE [s EXCEPT !.keys[i].ones = @ \cup k.ones, !.keys[i].mask = @ \cup k.mask]

(* As many keys as it takes, each at a multiple of its size.               *)
tc_match(m, size) ==
  IF m.bytes < size \/ m.off % size # 0 THEN m
  ELSE [m EXCEPT !.s = add_key(m.s, size, m.off, m.ones, m.mask), !.bytes = @ - size, !.off = @ + size]

Four  == <<4, 4, 4, 4>>
Sizes == Four \o <<2>> \o Four \o <<2, 1>> \o Four \o <<2>> \o Four \o <<1>>

(* The bits of a packet where the field of acc has ones if it is n.        *)
FieldBits(acc, n) == {acc.b.v * ByteBits + acc.c.v - 1 - i : i \in Bits(n, acc.c.v)}

(* Bits of the value outside of the mask can never be met.                 *)
MatchKeys(s, acc, value, mask) ==
  LET m == FoldLeft(tc_match, [s |-> s, bytes |-> acc.c.v \div ByteBits, off |-> acc.b.v,
                               ones |-> FieldBits(acc, value), mask |-> FieldBits(acc, mask)], Sizes)
  IN  IF BitAnd(value, mask) # value THEN [s EXCEPT !.useful = FALSE]
      ELSE [m.s EXCEPT !.err = @ \/ m.bytes # 0]

RECURSIVE dump_eq(_, _, _, _)
dump_eq(s, var, value, mask) ==
  LET c == IF IsConst(var.a) THEN var.a ELSE var.b
      n == Val(AsU128(c))
  IN  CASE var.op = "&" /\ IsConst(c) ->
             dump_eq(s, IF c = var.a THEN var.b ELSE var.a, value, IF mask = -1 THEN n ELSE BitAnd(mask, n))
        [] var.op = "access" /\ var.b.op = "unum" ->
             MatchKeys(s, var, value, IF mask = -1 THEN 2^var.c.v - 1 ELSE mask)
        [] OTHER -> [s EXCEPT !.err = TRUE]

(* nfmark and tcindex have classifiers of their own.                       *)
set_meta(s, kind, value) ==
  CASE s.is_meta = -1 \/ s.stack # <<>> -> [s EXCEPT !.err = TRUE]
    [] s.is_meta = 1 -> [s EXCEPT !.err = kind # s.meta[1], !.useful = value = s.meta[2]]
    [] OTHER -> [s EXCEPT !.err = kind = "fw" /\ value = 0, !.is_meta = 1, !.meta = <<kind, value>>]

MetaEq(s, d) ==
  LET at == d.a.a.b.v
  IN  CASE at = ProtocolAt -> [s EXCEPT !.useful = s.proto = d.b.v]
        [] at = MarkAt     -> set_meta(s, "fw", d.b.v)
        [] at = IndexAt    -> set_meta(s, "tcindex", d.b.v)

-----------------------------------------------------------------------------
(* Actions *)

(* Patterns of actions.  The numbers are places where the buckets and      *)
(* classes found are kept; "any" buckets may have a peak rate.             *)
Cf(i, y, f)    == [t |-> "conform", i |-> i, any |-> FALSE, over |-> {}, yes |-> y, no |-> f]
CfAny(i, y, f)   == [Cf(i, y, f) EXCEPT !.any = TRUE]
CfOver(i, j, y, f) == [Cf(i, y, f) EXCEPT !.over = {j}]
Ct(i, y)       == [t |-> "count", i |-> i, any |-> FALSE, yes |-> y]
CtAny(i, y)      == [Ct(i, y) EXCEPT !.any = TRUE]
Cl(i)          == [t |-> "class", i |-> i]
Dr             == [t |-> "drop"]
Co             == [t |-> "continue"]

(* What is issued: filters with a class, or with a policer and what it     *)
(* does in and out of profile.  A policer has the burst of several         *)
(* buckets, and may have the rate and burst of one as its peak rate.       *)
Policer(i, plus, peak, clone, in, out) ==
  [t |-> "police", i |-> i, plus |-> plus, peak |-> peak, clone |-> clone, in |-> in, out |-> out]
Pl(i, in, out)     == Policer(i, {}, {}, FALSE, in, out)
PlPeak(i, j, in, out) == Policer(i, {}, {j}, FALSE, in, out)

(* "end" patterns apply only where nothing follows.                        *)
Map(in, out)    == [in |-> in, out |-> out, end |-> FALSE]
MapEnd(in, out) == [in |-> in, out |-> out, end |-> TRUE]

map ==
  <<Map(Cl(0), <<Cl(0)>>), Map(Dr, <<Dr>>), Map(Co, <<>>),
    MapEnd(CfAny(0, CtAny(0, Cl(1)), Co), <<Pl(0, Cl(1), Co)>>),
    Map(CfAny(0, CtAny(0, Cl(1)), Dr), <<Pl(0, Cl(1), Dr)>>),
    MapEnd(CfAny(0, CtAny(0, Dr), Co), <<Pl(0, Dr, Co)>>),
    Map(CfAny(0, CtAny(0, Dr), Dr), <<Pl(0, Dr, Dr)>>),
    Map(CfAny(0, CtAny(0, Dr), Cl(1)), <<Pl(0, Dr, Cl(1))>>),
    Map(CfAny(0, CtAny(0, Cl(1)), Cl(2)), <<Pl(0, Cl(1), Co), Cl(2)>>)>>
  \o FoldLeft(LAMBDA l, both :
       LET dlb(y, f) == Cf(0, Cf(1, IF both THEN Ct(0, Ct(1, y)) ELSE Ct(1, Ct(0, y)), f), f)
       IN  l \o <<MapEnd(dlb(Cl(2), Co), <<PlPeak(0, 1, Cl(2), Co)>>),
                  Map(dlb(Cl(2), Dr), <<PlPeak(0, 1, Cl(2), Dr)>>),
                  MapEnd(dlb(Dr, Co), <<PlPeak(0, 1, Dr, Co)>>),
                  Map(dlb(Dr, Cl(2)), <<PlPeak(0, 1, Dr, Cl(2))>>),
                  Map(dlb(Cl(2), Cl(3)), <<PlPeak(0, 1, Cl(2), Co), Cl(3)>>)>>, <<>>, <<TRUE, FALSE>>)
  \o LET green(red)   == CfOver(0, 1, Ct(0, Cl(2)), Cf(1, Ct(1, Cl(3)), red))
         trtcm(x, red) == Cf(0, Cf(1, Ct(0, Ct(1, Cl(2))), red), Cf(1, Ct(1, Cl(x)), red))
         other(red)   == Cf(0, Cf(1, Ct(1, Ct(0, Cl(2))), Ct(0, Cl(3))), red)
         srtcm(red)   == <<Policer(0, {1}, {}, FALSE, Co, red), Policer(0, {}, {}, TRUE, Cl(2), Co), Cl(3)>>
     IN  <<Map(green(Cl(4)), srtcm(Cl(4))), Map(green(Dr), srtcm(Dr)),
           Map(trtcm(4, Cl(3)), <<Pl(1, Co, Cl(3)), Pl(0, Cl(2), Co), Cl(4)>>),
           Map(other(Cl(4)), <<Pl(0, Co, Cl(4)), Pl(1, Cl(2), Co), Cl(3)>>),
           Map(trtcm(3, Dr), <<Pl(1, Co, Dr), Pl(0, Cl(2), Co), Cl(3)>>),
           Map(other(Dr), <<Pl(0, Co, Dr), Pl(1, Cl(2), Co), Cl(3)>>)>>

(* What has been found.                                                    *)
NoMatch == [k \in {-1} |-> 0]
store_value(mem, i, v) ==
  IF i \in DOMAIN mem /\ mem[i] # v THEN NoMatch
  ELSE [k \in DOMAIN mem \cup {i} |-> IF k = i THEN v ELSE mem[k]]

KindOf(a) == IF a.t = "decision" THEN a.d.d[1] ELSE a.t
OverOf(b) == IF b \in DOMAIN Overflows THEN {Overflows[b]} ELSE {}

Meets(a, pat) ==
  /\ KindOf(a) \in {"conform", "count"} => pat.any \/ a.p \notin Full
  /\ KindOf(a) = "conform" => ((pat.over = {}) = (OverOf(a.p) = {}))

(* What a node adds: its class, its bucket and the one behind it.          *)
StoreOver(mem, a, pat) ==
  IF pat.over = {} \/ mem = NoMatch THEN mem ELSE store_value(mem, CHOOSE j \in pat.over : TRUE, Overflows[a.p])

Store(mem, a, pat) ==
  CASE KindOf(a) = "class"   -> store_value(mem, pat.i, a.d)
    [] KindOf(a) = "count"   -> store_value(mem, pat.i, a.p)
    [] KindOf(a) = "conform" -> StoreOver(store_value(mem, pat.i, a.p), a, pat)
    [] OTHER                 -> mem

RECURSIVE walk_tree(_, _, _)

WalkBranches(a, pat, mem) ==
  CASE KindOf(a) = "conform" -> walk_tree(a.no, pat.no, walk_tree(a.yes, pat.yes, mem))
    [] KindOf(a) = "count"   -> walk_tree(a.yes, pat.yes, mem)
    [] OTHER                 -> mem

walk_tree(a, pat, mem) ==
  IF mem = NoMatch \/ KindOf(a) # pat.t \/ ~Meets(a, pat) THEN NoMatch
  ELSE WalkBranches(a, pat, Store(mem, a, pat))

Found(a, m, at_end) == (m.end => at_end) /\ walk_tree(a, m.in, [k \in {} |-> 0]) # NoMatch

map_actions(a, at_end) ==
  LET hits == {i \in DOMAIN map : Found(a, map[i], at_end)}
  IN  IF hits = {} THEN {}
      ELSE {[out |-> map[Min(hits)].out, mem |-> walk_tree(a, map[Min(hits)].in, [k \in {} |-> 0])]}

(* One policer per combination of buckets, which always decides the same.  *)
make_policer(s, m, o) ==
  LET id    == <<{m[o.i]}, {m[j] : j \in o.peak}>>
      did   == <<o.in.t, o.out.t>>
      other == \E x \in DOMAIN s.policers : x # id /\ (x[1] \cup x[2]) \cap (id[1] \cup id[2]) # {}
  IN  IF o.clone THEN s
      ELSE IF other \/ (id \in DOMAIN s.policers /\ s.policers[id] # did) THEN [s EXCEPT !.err = TRUE]
      ELSE [s EXCEPT !.policers = [x \in DOMAIN @ \cup {id} |-> IF x = id THEN did ELSE @[x]]]

Concrete(m, x) == IF x.t = "class" THEN m[x.i] ELSE Decision(x.t, 0)

Issue(s, m, o) ==
  LET pol == [plus |-> {m[o.i]} \cup {m[j] : j \in o.plus}, peak |-> {m[j] : j \in o.peak},
              clone |-> o.clone, in |-> Concrete(m, o.in), out |-> Concrete(m, o.out)]
  IN  IF o.t = "police" THEN Complete(s, "police", <<pol>>) ELSE Complete(s, "class", Concrete(m, o))

IssueAt(s, again) == IF again THEN dump_match_again(s) ELSE dump_match(s)

issue_actions(s, m, o, again) == Issue(IssueAt(IF o.t = "police" THEN make_policer(s, m, o) ELSE s, again), m, o)

(* The first filter is the one that is being built.                        *)
IssueAll(s, m, out) ==
  FoldLeft(LAMBDA x, i : issue_actions(IF i > 1 /\ x.is_meta = 1 THEN [x EXCEPT !.prio = @ + 1] ELSE x,
                                       m, out[i], i > 1),
           s, [i \in DOMAIN out |-> i])

EndMatch(s) == [(IF s.is_meta = -1 THEN pop_rule(s) ELSE s) EXCEPT !.useful = TRUE]

DumpFound(s, found) ==
  IF found = {} THEN [s EXCEPT !.err = TRUE]
  ELSE LET m == CHOOSE x \in found : TRUE IN EndMatch(IssueAll(s, m.mem, m.out))

dump_action(s, e, at_end) == DumpFound(s, map_actions(get_action(e), at_end))

-----------------------------------------------------------------------------
(* Expressions *)

(* Only the last shift counts.                                             *)
RECURSIVE Unshifted(_, _)
Unshifted(off, shift) ==
  CASE off.op = "<<" /\ off.b.op = "unum" -> Unshifted(off.a, off.b.v)
    [] off.op = ">>" /\ off.b.op = "unum" -> Unshifted(off.a, -off.b.v)
    [] OTHER -> [off |-> off, shift |-> shift]

(* An offset in a packet is the masked value of 16 bits, shifted to the    *)
(* right.                                                                  *)
FieldOffset(acc, mask, by) ==
  LET full  == 2^ByteBits - 1
      one   == acc.c.v \div ByteBits = 1
      m     == IF one THEN BitAnd(mask, full) * 2^ByteBits ELSE mask
      odd   == acc.b.v % 2
      shift == by - (IF one THEN ByteBits ELSE 0) + odd * ByteBits
  IN  IF acc.op # "access" \/ acc.b.op # "unum" \/ mask \notin 0..(2^(2 * ByteBits) - 1) THEN {}
      ELSE IF (odd = 1 /\ BitAnd(m, full) # 0) \/ shift \notin (1 - 2 * ByteBits)..0 THEN {}
      ELSE {[plus |-> 0, mask |-> IF odd = 1 THEN m \div 2^ByteBits ELSE m,
             at |-> acc.b.v - odd, shift |-> -shift]}

MaskedOffset(x) ==
  CASE x.off.op # "&" -> FieldOffset(x.off, 2^(2 * ByteBits) - 1, x.shift)
    [] x.off.op = "&" /\ x.off.a.op = "unum" -> FieldOffset(x.off.b, x.off.a.v, x.shift)
    [] x.off.op = "&" /\ x.off.a.op # "unum" /\ x.off.b.op = "unum" -> FieldOffset(x.off.a, x.off.b.v, x.shift)
    [] OTHER -> {}

OffsetOf(off) ==
  IF off.op # "unum" THEN MaskedOffset(Unshifted(off, 0))
  ELSE IF off.v % 4 # 0 THEN {} ELSE {[NoOffset EXCEPT !.plus = off.v]}

RECURSIVE dump_or(_, _, _, _, _)
RECURSIVE dump_and(_, _, _, _)

LinkTop(s) == next_hash(Complete([s EXCEPT !.stack[Len(s.stack)].link = s.handle], "link", s.handle))

InNext(s, e, at_end, root) == dump_or(s, e, [ht |-> s.handle, key |-> 0], at_end, root)

SlipDumpLink(s, e, at_end, root) == IF s.err THEN s ELSE InNext(LinkTop(new_handle(s)), e, at_end, root)

dump_link(s, e, at_end, root) == IF s.err THEN s ELSE pop_rule(InNext(LinkTop(new_handle(s)), e, at_end, root))

dump_offset(s, offs) ==
  LET off == CHOOSE o \in offs : TRUE
  IN  IF offs = {} \/ s.err THEN [s EXCEPT !.err = TRUE]
      ELSE Complete([s EXCEPT !.stack[Len(s.stack)].off = off], "off", off)

(* Alternatives inside of an alternative, and what is at another offset,   *)
(* are in a table of their own.                                            *)
LinkRule(s, e) == IF e.op = "offset" THEN dump_offset(s, OffsetOf(e.b)) ELSE s

EqRule(s, e, root) ==
  CASE root = MetaRoot -> MetaEq([s EXCEPT !.useful = TRUE], e)
    [] root # MetaRoot /\ (root # 0 \/ s.is_meta = 1) -> [s EXCEPT !.err = TRUE]
    [] OTHER -> LET const == IF IsConst(e.a) THEN e.a ELSE e.b
                IN  dump_eq([s EXCEPT !.is_meta = -1, !.useful = TRUE], IF const = e.a THEN e.b ELSE e.a,
                            Val(AsU128(const)), -1)

dump_other(s, e, at_end, root) ==
  CASE e.op = "unum" -> [s EXCEPT !.useful = e.v # 0]
    [] e.op \in {"||", "offset"} ->
         [dump_link(LinkRule(dump_match(cached_hash(s)), e), IF e.op = "||" THEN e ELSE e.a, at_end, root)
            EXCEPT !.useful = e.op = "offset"]
    [] e.op = "field_root" -> dump_and(s, e.a, at_end, e.b.v)
    [] e.op = "==" -> EqRule(s, e, root)
    [] OTHER -> [s EXCEPT !.err = TRUE]

(* The factors of a conjunction up to its action.                          *)
Factor(e) == IF e.op = "&&" /\ ~action_tree(e) THEN e.a ELSE e

AndRest(s, e, at_end, root) == IF Factor(e) # e /\ s.useful THEN dump_and(s, e.b, at_end, root) ELSE s

dump_and(s, e, at_end, root) ==
  CASE s.err \/ e.op = "error" -> s
    [] ~s.err /\ e.op # "error" /\ action_tree(Factor(e)) -> dump_action(s, Factor(e), at_end)
    [] ~s.err /\ e.op = "&&" /\ e.a.op = "offset" -> [s EXCEPT !.err = TRUE]
    [] OTHER -> AndRest(dump_other(s, Factor(e), at_end, root), e, at_end, root)

(* The alternatives have handles that follow h.                            *)
Alternative(e) == IF e.op = "||" /\ ~action_tree(e) THEN e.a ELSE e

OrRest(s, e, h, at_end, root) == IF Alternative(e) = e THEN s ELSE dump_or(s, e.b, h, at_end, root)

dump_or(s, e, h, at_end, root) ==
  LET next == [h EXCEPT !.key = @ + 1]
  IN  IF s.err THEN s
      ELSE OrRest(dump_and(begin_match(s, next), Alternative(e), at_end /\ Alternative(e) = e, root),
                  e, next, at_end, root)

-----------------------------------------------------------------------------
(* Default class *)

num_continues(e) ==
  LET RECURSIVE count(_)
      count(x) == IF x = Unspec THEN 1
                  ELSE IF HasOp(x) THEN count(x.a) + count(x.b) + count(x.c) ELSE 0
  IN  count(e)

RECURSIVE has_continue(_)
has_continue(e) ==
  CASE e.op = "offset" -> has_continue(e.a)
    [] e.op = "&&" -> IF e.a.op = "decision" THEN e.a = Unspec ELSE has_continue(e.b)
    [] OTHER -> e = Unspec

(* The alternatives that continue, all of them at the end.                 *)
RECURSIVE AtEnd(_, _, _)
AtEnd(e, in, left) ==
  LET this == has_continue(IF e.op = "||" THEN e.a ELSE e)
      less == IF this THEN left - 1 ELSE left
  IN  CASE e.op = "offset"            -> AtEnd(e.a, in, left)
        [] e.op # "offset" /\ in /\ ~this -> FALSE
        [] e.op = "||" /\ (this \/ ~in) -> AtEnd(e.b, this, less)
        [] OTHER                      -> less = 0

continue_at_end(e) == AtEnd(e, FALSE, num_continues(e))

(* The default class of the qdisc instead of "continue".                   *)
RECURSIVE WithDefault(_, _)
WithDefault(e, x) ==
  IF e = Unspec THEN x ELSE IF HasOp(e) THEN Walk(LAMBDA y : WithDefault(y, x), e) ELSE e

-----------------------------------------------------------------------------
(* dump_if_u32 *)

iflib_offset(e) == push_offset(pull_offset(trim_roots(bubble_roots(use_offset(e), TRUE), 0)), 0)

(* do_collect_protocols, which also refuses what cannot be said of meta    *)
(* fields.                                                                 *)
RECURSIVE MetaTests(_, _)
MetaTests(e, root) ==
  CASE e.op = "field_root" -> MetaTests(e.a, e.b.v)
    [] e.op = "=="         -> IF root = MetaRoot THEN <<e>> ELSE <<>>
    [] OTHER -> IF HasOp(e) THEN MetaTests(e.a, root) \o MetaTests(e.b, root) \o MetaTests(e.c, root) ELSE <<>>

ValidMeta(e) ==
  /\ e.a.op = "&" /\ e.b.op = "unum" /\ e.a.b.op = "unum"
  /\ LET acc  == e.a.a
         size == IF acc.b.v = MarkAt THEN MarkSize ELSE 1
     IN  /\ acc.op = "access" /\ acc.b.op = "unum" /\ acc.b.v \in {ProtocolAt, MarkAt, IndexAt}
         /\ size < 4 => e.a.b.v = 2^(size * ByteBits) - 1
         /\ acc.c.v = size * ByteBits

add_protocol(list, e) ==
  IF e.a.a.b.v # ProtocolAt \/ e.b.v \in Range(list) THEN list ELSE <<e.b.v>> \o list

(* Nothing is written for an expression that is never true.                *)
NeverTrue(e) == e.op = "unum" /\ e.v = 0

(* First with "continue" for what no filter takes, then, if this is not    *)
(* possible, with the default class.                                       *)
TryContinue ==
  /\ stage = "continue"
  /\ expr' = iflib_offset(case.expr)
  /\ stage' = IF NeverTrue(expr') THEN "done" ELSE IF continue_at_end(expr') THEN "collect" ELSE "default"
  /\ UNCHANGED <<case, protocols, gen>>

TryDefault ==
  /\ stage = "default"
  /\ IF case.default = None
     THEN gen' = [gen EXCEPT !.err = TRUE] /\ stage' = "done" /\ expr' = expr
     ELSE /\ expr' = iflib_offset(WithDefault(case.expr, case.default))
          /\ stage' = IF NeverTrue(expr') THEN "done" ELSE "collect"
          /\ gen' = gen
  /\ UNCHANGED <<case, protocols>>

collect_protocols ==
  LET tests == MetaTests(expr, 0)
      bad   == \E i \in DOMAIN tests : ~ValidMeta(tests[i])
  IN  /\ stage = "collect"
      /\ protocols' = IF bad THEN <<>> ELSE FoldLeft(add_protocol, <<>>, tests)
      /\ gen' = [gen EXCEPT !.err = bad]
      /\ stage' = IF bad THEN "done" ELSE "dump"
      /\ UNCHANGED <<case, expr>>

(* One pass for each protocol, and one for all.                            *)
EndPass(s, last) == IF last \/ s.err THEN s ELSE new_handle([s EXCEPT !.prio = @ + 1])

DumpPass ==
  LET last == protocols = <<>>
      s    == [gen EXCEPT !.proto = IF last THEN AllProtocols ELSE Head(protocols), !.last_meta = 0]
  IN  /\ stage = "dump"
      /\ gen' = EndPass(dump_or(next_hash(s), expr, [ht |-> RootTable, key |-> 0], TRUE, 0), last)
      /\ protocols' = IF last THEN <<>> ELSE Tail(protocols)
      /\ stage' = IF last \/ gen'.err THEN "done" ELSE "dump"
      /\ UNCHANGED <<case, expr>>

Next == TryContinue \/ TryDefault \/ collect_protocols \/ DumpPass

Spec == Init /\ [][Next]_vars

-----------------------------------------------------------------------------
(* What the kernel makes of the commands *)

Packets == {f \in [Roots -> SUBSET UNION {case.vary[r] : r \in Roots}] : \A r \in Roots : f[r] \subseteq case.vary[r]}

MetaOf(pkt, at) == BitsAt(pkt, MetaRoot, at * ByteBits, IF at = MarkAt THEN MarkSize * ByteBits ELSE ByteBits)

Applies(f, pkt, base) ==
  /\ f.proto \in {AllProtocols, MetaOf(pkt, ProtocolAt)}
  /\ CASE f.kind = "u32"     -> \A m \in f.matches : (base * ByteBits + m[1] \in pkt[0]) = (m[2] = 1)
       [] f.kind = "fw"      -> MetaOf(pkt, MarkAt) = f.key
       [] f.kind = "tcindex" -> MetaOf(pkt, IndexAt) = f.key
       [] OTHER              -> FALSE

BytesOf(off, pkt, base) ==
  off.plus + BitAnd(BitsAt(pkt, 0, (base + off.at) * ByteBits, 2 * ByteBits), off.mask) \div 2^off.shift

(* What a policer has left: its burst is that of all its buckets, its peak *)
(* rate has to be met too.                                                 *)
Level(pol, tokens) ==
  [sum |-> MapThenSumSet(LAMBDA b : tokens[b], pol.plus), peak |-> [b \in pol.peak |-> tokens[b]]]
Conforms(pol, tokens) == Level(pol, tokens).sum > 0 /\ \A b \in pol.peak : tokens[b] > 0

(* The first filter of a table that does not continue, in the tables that  *)
(* are linked too, and the policers to which the packet conformed.         *)
RECURSIVE classify(_, _, _, _, _)
classify(ht, from, base, pkt, tokens) ==
  LET hits == {i \in from..Len(gen.out) : gen.out[i].ht = ht /\ Applies(gen.out[i], pkt, base)}
      f    == gen.out[Min(hits)]
      pol  == f.police[1]
      good == f.police # <<>> /\ Conforms(pol, tokens)
      r    == IF f.link # 0 THEN classify(f.link, 1, base + BytesOf(f.off, pkt, base), pkt, tokens)
              ELSE [dec |-> IF f.police = <<>> THEN f.class ELSE IF good THEN pol.in ELSE pol.out,
                    took |-> IF good THEN {pol} ELSE {}]
      rest == classify(ht, Min(hits) + 1, base, pkt, tokens)
  IN  IF hits = {} THEN [dec |-> Unspec, took |-> {}]
      ELSE IF r.dec # Unspec THEN r
      ELSE [rest EXCEPT !.took = @ \cup r.took]

-----------------------------------------------------------------------------
(* Properties *)

Done == stage = "done" /\ ~gen.err

Policers == {gen.out[i].police[1] : i \in {j \in DOMAIN gen.out : gen.out[j].police # <<>>}}

Taken(pol, l) == [l EXCEPT !.sum = @ - 1, !.peak = [b \in pol.peak |-> l.peak[b] - 1]]

(* The filters decide about every packet as the expression does, and every *)
(* policer has left what the buckets it stands for have.                   *)
FiltersDecide ==
  Done => \A pkt \in Packets, tokens \in [Buckets -> 0..MaxTokens] :
    LET want == Outcome(IF continue_at_end(iflib_offset(case.expr)) THEN case.expr
                        ELSE WithDefault(case.expr, case.default), pkt, tokens)
        got  == classify(RootTable, 1, 0, pkt, tokens)
    IN  /\ got.dec = want.dec
        /\ \A pol \in Policers :
             Level(pol, want.tokens) =
               IF pol \in got.took THEN Taken(pol, Level(pol, tokens)) ELSE Level(pol, tokens)

IsTable(i, ht) == gen.out[i].kind = "table" /\ gen.out[i].ht = ht

(* A hash table is made once, and before there is a link to it or a filter *)
(* in it; a filter's handle is its own.                                    *)
TablesExist ==
  \A i \in DOMAIN gen.out :
    LET f == gen.out[i]
    IN  /\ f.link # 0 => \E j \in 1..(i - 1) : IsTable(j, f.link)
        /\ f.kind # "table" /\ f.ht # RootTable =>
             /\ \E j \in 1..(i - 1) : IsTable(j, f.ht)
             /\ \A j \in 1..(i - 1) : gen.out[j].kind # "table" => <<gen.out[j].ht, gen.out[j].key>> # <<f.ht, f.key>>
        /\ f.kind = "table" => \A j \in 1..(i - 1) : ~IsTable(j, f.ht)

(* Priorities never go back, and the filters of one are of one classifier  *)
(* and protocol.                                                           *)
PriosOrdered ==
  \A i, j \in DOMAIN gen.out : i < j =>
    LET f == gen.out[i]
        g == gen.out[j]
        kind(x) == IF x = "table" THEN "u32" ELSE x
    IN  f.prio < g.prio \/ (f.prio = g.prio /\ f.proto = g.proto /\ kind(f.kind) = kind(g.kind))

(* What has been put on the stack of rules has been taken off again.       *)
StackEmpty == ~gen.err => gen.stack = <<>>

=============================================================================
