------------------------------ MODULE MCIfU32 -------------------------------
EXTENDS IfU32

(* Bytes of two bits.  Fields of one to three bytes, one whose place is    *)
(* given by the first byte, and the meta fields.                           *)
Is(acc, mask, v) == Node("==", Node("&", acc, Unum(mask)), Unum(v))
Bytes(off, bytes) == Access(Root(0), Unum(off), bytes * ByteBits)
Meta(at, size, v) == Is(Access(Root(MetaRoot), Unum(at), size * ByteBits), 2^(size * ByteBits) - 1, v)

X1   == Is(Bytes(0, 1), 3, 1)
X2   == Is(Bytes(0, 1), 2, 2)
Y0   == Is(Bytes(1, 1), 3, 0)
XY   == Is(Bytes(0, 2), 13, 4)
YZ   == Is(Bytes(1, 3), 33, 32)
Never == Is(Bytes(0, 1), 1, 2)

(* A field four bytes further on for each unit of a byte of the header.    *)
Header(b, m) == Node("<<", Node("&", Bytes(b, 1), Unum(m)), Unum(2))
Behind(b, v) == Is(Access(Root(0), Header(b, 1), ByteBits), 3, v)
Fixed(v)     == Is(Bytes(4, 1), 3, v)

Proto(v) == Meta(ProtocolAt, 1, v)
Mark(v)  == Meta(MarkAt, MarkSize, v)
Index(v) == Meta(IndexAt, 1, v)

A == Decision("class", 1)
B == Decision("class", 2)
C == Decision("class", 3)
D == Decision("drop", 0)

AllOf(x, y) == Node("&&", x, y)
OneOf(x, y) == Node("||", x, y)

Meter(b, yes, no) == OneOf(AllOf(Conform(b), AllOf(Count(b), yes)), no)
Both(y, f)      == OneOf(AllOf(Conform(1), AllOf(Conform(2), AllOf(Count(1), AllOf(Count(2), y)))), f)
Reversed(y, f)  == OneOf(AllOf(Conform(1), AllOf(Conform(2), AllOf(Count(2), AllOf(Count(1), y)))), f)
ThreeColors(r)  == OneOf(AllOf(Conform(1), OneOf(AllOf(Conform(2), AllOf(Count(1), AllOf(Count(2), A))), r)),
                      Meter(2, B, r))
OtherColors(r)  == OneOf(AllOf(Conform(1), OneOf(AllOf(Conform(2), AllOf(Count(2), AllOf(Count(1), A))), AllOf(Count(1), B))), r)
Spill(r)        == OneOf(AllOf(Conform(3), AllOf(Count(3), A)), Meter(2, B, r))

Simple  == {A, D, Meter(1, A, B), Meter(1, D, B)}
Actions ==
  Simple \cup {Meter(1, A, D), Meter(1, D, D), Meter(1, A, Unspec), Meter(1, D, Unspec)}
  \cup {Both(A, B), Both(A, D), Both(D, B), Both(A, Unspec), Both(D, Unspec)}
  \cup {Reversed(A, B), Reversed(A, D), Reversed(D, B), Reversed(A, Unspec), Reversed(D, Unspec)}
  \cup {ThreeColors(B), ThreeColors(D), OtherColors(C), OtherColors(D), Spill(C), Spill(D)}

RECURSIVE AndAll(_, _)
AndAll(ms, act) == IF ms = <<>> THEN act ELSE AllOf(Head(ms), AndAll(Tail(ms), act))

Case(e, default, low, meta) ==
  [expr |-> e, default |-> default, vary |-> [r \in Roots |-> IF r = 0 THEN low ELSE meta]]

Matches == {<<X1>>, <<X2, Y0>>, <<X1, X2>>, <<XY>>, <<XY, X1>>, <<YZ, Y0>>, <<Never>>, <<X1, X1, YZ>>}

Flat ==
  {Case(OneOf(AndAll(m, x), OneOf(AndAll(o, y), Unspec)), C, {0, 1, 2, 3, 7}, {}) :
     m \in Matches, o \in {<<X1>>, <<Y0>>}, x \in Simple, y \in {B, D}}
  \cup {Case(OneOf(AllOf(X1, a), Unspec), q, 0..1, {}) : a \in Actions, q \in {B, None}}
  \cup {Case(a, C, {}, {}) : a \in Actions}
  \cup {Case(OneOf(AllOf(X1, A), a), B, 0..1, {}) : a \in Actions}

(* Tables: for a single offset, with matches before it, for two.  A meter  *)
(* that takes two filters is in the last rule of the last table only.      *)
Bits2 == {0, 1, 5, 8, 9}
Tabled ==
  {Case(OneOf(AndAll(m, AllOf(Behind(2, v), x)), OneOf(AndAll(o, y), Unspec)), C, Bits2, {}) :
     m \in {<<>>, <<X1>>, <<X2, X1>>}, v \in {0, 1}, x \in {A, D, Meter(1, A, D)},
     o \in {<<X1>>, <<Fixed(1)>>}, y \in {A, B}}
  \cup {Case(OneOf(AllOf(Behind(0, 1), A), OneOf(AllOf(Behind(2, 1), x), OneOf(AllOf(Behind(0, 2), B), Unspec))), C, Bits2, {}) :
     x \in {B, D, Meter(1, A, D)}}
  \cup {Case(OneOf(AllOf(Behind(0, 1), x), OneOf(AllOf(X1, AllOf(Behind(2, 1), Meter(1, A, B))), Unspec)), C, Bits2, {}) :
     x \in {A, B, D}}

(* The mark and the index are not both tested.                             *)
WithMeta ==
  {Case(OneOf(AllOf(m, x), OneOf(AndAll(o, y), Unspec)), C, 0..1, {1, 9}) :
     m \in {Mark(1), Proto(1)}, o \in {<<X1>>, <<Mark(2)>>, <<Proto(0), X1>>, <<Proto(1), Mark(1)>>},
     x \in Simple, y \in {B, Meter(2, A, D)}}
  \cup {Case(OneOf(AllOf(Index(1), x), OneOf(AndAll(o, B), Unspec)), C, 0..1, {1, 11}) :
     o \in {<<X1>>, <<Index(0)>>, <<Proto(1), Index(1)>>}, x \in Simple}

(* A meter that takes two filters, and a table after it.                   *)
MCAgain ==
  {Case(OneOf(AllOf(Behind(0, 1), Meter(1, A, B)), OneOf(AllOf(Behind(2, v), x), Unspec)), C, Bits2, {}) :
     v \in {1, 2}, x \in {A, C}}

MCOverflows == [b \in {3} |-> 2]

MCCases == Flat \cup Tabled \cup WithMeta

=============================================================================
