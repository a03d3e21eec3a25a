------------------------------ MODULE MCIfLower -----------------------------
EXTENDS IfLower

(* Words of three bits, bytes of two: a field of one word, one of two, and *)
(* the constants around the powers of two.                                 *)
F == Access(Root(0), Unum(0), 3)
G == Access(Root(0), Unum(1), 2)
H == Access(Root(0), Unum(0), 6)

Small  == 0..3          \* constants that an uint8_t holds
Limits == {0, 1, 3, 4, 6, 7}
Orders == {"<", "<=", ">", ">="}

Scaled ==
  {Node(r, Node(o, F, Unum(c)), Unum(d)) :
     o \in {"*", "/", "%"}, c \in Small, d \in {1, 2, 6}, r \in {"==", "<", ">="}}
  \cup {Node("==", Node("*", Unum(c), F), Unum(d)) : c \in Small, d \in {1, 6}}
  \cup {Node("==", Node(o, F, F), Unum(d)) : o \in {"/", "%"}, d \in {0, 1}}

(* Sums whose constants leave the comparison in range.                     *)
Summed ==
  {Node(r, Node("+", F, Unum(c)), Unum(d)) : r \in {"==", "!="}, c \in {1, 3}, d \in Limits}
  \cup {Node(r, Node("+", Unum(c), F), Unum(d)) : r \in Orders, c \in {1, 3}, d \in {3, 4, 6, 7}}
  \cup {Node(r, Node("-", F, Unum(c)), Unum(d)) : r \in Orders, c \in {1, 3}, d \in {0, 1, 3}}
  \cup {Node(r, Node("-", Unum(7), F), Unum(d)) : r \in {"==", "!="}, d \in Limits}
  \cup {Node(r, Unum(d), F) : r \in Orders, d \in Limits \ {7}}

Masked ==
  {Node(r, Node(">>", Node("&", F, Unum(m)), Unum(s)), Unum(d)) :
     m \in {3, 6}, s \in 0..2, d \in {1, 2}, r \in Relational \ {">"}}
  \cup {Node(r, Node("<<", Node("&", Unum(1), F), Unum(s)), Unum(d)) :
     s \in {1, 2}, d \in {1, 2, 4}, r \in Relational \ {">"}}
  \cup {Node("==", mask_eval(F, p[1], p[2]), Unum(d)) :
     p \in {<<None, Unum(2)>>, <<Unum(1), Unum(1)>>, <<Unum(2), None>>}, d \in {1, 2, 6}}
  \cup {Node("==", Node(o, F, Unum(c)), Unum(d)) : o \in {"|", "^"}, c \in {0, 2, 5}, d \in Limits}
  \cup {Node(o, F, Unum(c)) : o \in {"&", "|", "^"}, c \in {2, 5}}

(* The constants are words of their own and none is next to a power of     *)
(* two.                                                                    *)
WideConsts == {OfNat(n) : n \in {13, 26, 42}}
Wide2 ==
  {Node(r, H, Ipv6(c)) : r \in Relational, c \in WideConsts}
  \cup {Node("==", Node(o, H, Ipv6(c)), Ipv6(d)) : o \in {"&", "|", "^"}, c, d \in WideConsts}

Yes == Decision("class", 1)
Combined ==
  {Or(And(x, y), Yes) :
     x \in {Node("<=", F, Unum(5)), Node("==", Node("%", F, Unum(2)), Unum(1)), Conform("p")},
     y \in {Node("!=", G, Unum(1)), And(Conform("p"), Count("p")),
            Node("!", Node(">", Node("+", F, Unum(1)), Unum(2)), None)}}

(* Offsets that are constant, computed, sums, nested, and behind another   *)
(* root.                                                                   *)
Near == Access(Root(0), Unum(0), 1)
Third == Access(Root(0), Unum(1), 1)
Far == Access(Root(1), Unum(0), 1)
Offsets ==
  {Near, Node("*", Near, Unum(2)), Node("+", Near, Unum(1)), Node("+", Third, Node("+", Near, Unum(1))),
   Access(Root(0), Third, 1), Node("+", Access(Root(0), Third, 1), Unum(1)), Far}
At(r, off) == Node("==", Access(Root(r), off, 1), Unum(1))
Shifted ==
  {And(At(0, x), At(r, y)) : x, y \in Offsets, r \in Roots}
  \cup {Or(At(1, x), And(At(0, Node("+", x, y)), Yes)) : x \in Offsets \ {Far}, y \in {Unum(1), Third}}

With(E, O) == {[e |-> e, opt |-> o] : e \in E, o \in O}

MCSources ==
  With(Scaled \cup Summed \cup Masked \cup Wide2 \cup Combined,
       [u32 : {FALSE}, prefix : BOOLEAN, ne : BOOLEAN])
  \cup With(Shifted, [u32 : BOOLEAN, prefix : {FALSE}, ne : {FALSE}])

=============================================================================
