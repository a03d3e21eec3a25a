---------------------------- MODULE OffsetGroup -----------------------------
(***************************************************************************)
(* Offset groups of the external interface (tcc/if_ext.c): an offset() of  *)
(* an expression becomes a number that stands for "base group plus a field *)
(* of the packet, shifted to the left", which the external program - here  *)
(* ext/match.c - evaluates for each packet.                                *)
(***************************************************************************)
EXTENDS PktExpr

CONSTANTS
  ByteShift,  \* 2^ByteShift bits are a byte, 3
  AutoBase    \* AUTO_OFFSET_GROUP_BASE; the offset group of a field root is the root

ASSUME ByteShiftAssumption == ByteBits = 2^ByteShift /\ AutoBase \in Nat

Entry(base, vbase, off, len, shift) ==
  [base |-> base, vbase |-> vbase, off |-> off, len |-> len, shift |-> shift]

(* The table has an entry per number; numbers that are taken by a field    *)
(* root are left out.                                                      *)
offset_group_taken(n) == n \in Roots
GroupNumber(i) ==
  CHOOSE n \in AutoBase..(AutoBase + i + Cardinality(Roots)) :
    /\ ~offset_group_taken(n)
    /\ Cardinality({k \in AutoBase..n : ~offset_group_taken(k)}) = i

lookup_offset_group(table, e) ==
  IF \E i \in DOMAIN table : table[i] = e
  THEN [g |-> GroupNumber(CHOOSE i \in DOMAIN table : table[i] = e), table |-> table]
  ELSE [g |-> GroupNumber(Len(table) + 1), table |-> Append(table, e)]

(* The field that a mask selects of an access: the bits below and above    *)
(* the mask are taken off.                                                 *)
Field(base, vbase, acc, mask, shift, table) ==
  LET bits == Bits(mask, acc.c.v)
      low  == Min(bits)
      high == Max(bits)
  IN  IF bits = {} THEN [g |-> base, table |-> table]
      ELSE lookup_offset_group(table,
             Entry(base, vbase, acc.b.v * ByteBits + acc.c.v - 1 - high, high - low + 1, shift + low))

RECURSIVE new_offset_group(_, _, _, _, _, _)
RECURSIVE build_offset_group(_, _, _, _)
new_offset_group(base, vbase, d, mask, shift, table) ==
  CASE d.op = "access" -> Field(base, vbase, d, mask, shift, table)
    [] d.op = "<<" /\ d.b.op = "unum" ->
         new_offset_group(base, vbase, d.a, ShiftR(mask, d.b.v), shift + d.b.v, table)
    [] d.op = ">>" /\ d.b.op = "unum" ->
         new_offset_group(base, vbase, d.a, ShiftL(mask, d.b.v), shift - d.b.v, table)
    [] d.op = "&" /\ d.a.op = "unum" ->
         new_offset_group(base, vbase, d.b, BitAnd(mask, d.a.v), shift, table)
    [] d.op = "&" /\ d.a.op # "unum" /\ d.b.op = "unum" ->
         new_offset_group(base, vbase, d.a, BitAnd(mask, d.b.v), shift, table)
    [] d.op = "field_root" -> new_offset_group(base, d.b.v, d.a, mask, shift, table)
    [] d.op = "offset" ->
         LET v == build_offset_group(vbase, vbase, d.b, table)
         IN  new_offset_group(base, v.g, d.a, mask, shift, v.table)

build_offset_group(base, vbase, d, table) ==
  IF d.op = "+"
  THEN LET a == build_offset_group(base, vbase, d.a, table)
       IN  build_offset_group(a.g, vbase, d.b, a.table)
  ELSE new_offset_group(base, vbase, d, Base - 1, ByteShift, table)

get_offset_group(d, base, table) == build_offset_group(base, base, d.b, table)

(* All offset() are entered before anything is written.                    *)
RECURSIVE do_scan_offsets(_, _, _)
do_scan_offsets(d, base, table) ==
  IF ~HasOp(d) THEN table
  ELSE LET g == CASE d.op = "field_root" -> [g |-> d.b.v, table |-> table]
                  [] d.op = "offset"     -> get_offset_group(d, base, table)
                  [] OTHER               -> [g |-> base, table |-> table]
           a == do_scan_offsets(d.a, g.g, g.table)
           b == do_scan_offsets(d.b, g.g, a)
       IN  do_scan_offsets(d.c, g.g, b)

scan_offsets(d, table) == do_scan_offsets(d, 0, table)

-----------------------------------------------------------------------------
(* Evaluation by ext/match.c *)

(* The field root of a group, and its distance from it in bits.            *)
RECURSIVE Place(_, _, _)
Place(g, table, pkt) ==
  IF g \in Roots THEN [root |-> g, bit |-> 0]
  ELSE LET e == table[CHOOSE i \in DOMAIN table : GroupNumber(i) = g]
           v == Place(e.vbase, table, pkt)
           b == Place(e.base, table, pkt)
       IN  [b EXCEPT !.bit = @ + BitsAt(pkt, v.root, v.bit + e.off, e.len) * 2^e.shift]

(* Bit n of group g.                                                       *)
extract_bit(g, n, table, pkt) ==
  LET p == Place(g, table, pkt) IN p.bit + n \in pkt[p.root]

=============================================================================
