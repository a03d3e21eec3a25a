------------------------------- MODULE MCIfExt -------------------------------
EXTENDS IfExt

(* Fields of one and two bits at two roots, as iflib_arith leaves matches. *)
Is(acc, mask, v) == Node("==", Node("&", acc, Unum(mask)), Unum(v))
X == Access(Root(0), Unum(0), 2)
Y == Access(Root(0), Unum(1), 1)
Z == Access(Root(1), Unum(0), 1)
At(off) == Is(Access(Root(0), off, 1), 1, 1)

X1 == Is(X, 3, 1)
X2 == Is(X, 2, 2)
Y0 == Is(Y, 1, 0)
Z1 == Is(Z, 1, 1)

A == Decision("class", 1)
B == Decision("class", 5)
D == Decision("drop", 0)

(* A meter: what conforms is counted and gets one decision, the rest       *)
(* another, or is left for what follows.                                   *)
Meter(p, yes, no) == Or(And(Conform(p), And(Count(p), yes)), no)

Acts == {A, D, Meter(1, A, D), Meter(1, A, Meter(2, B, D)), And(Count(2), B)}

RECURSIVE AndAll(_, _)
AndAll(ms, act) == IF ms = <<>> THEN act ELSE And(Head(ms), AndAll(Tail(ms), act))

(* Matches that are compatible, the same, contradict each other, or can    *)
(* never be true, at computed offsets too.                                 *)
Matches ==
  {<<X1>>, <<X2, Y0>>, <<X1, X1>>, <<X1, X2>>, <<Is(X, 1, 2), Y0>>, <<Z1>>, <<Z1, X1>>,
   <<At(Y)>>, <<At(Y), X1>>}

Filters == {AndAll(m, a) : m \in Matches, a \in Acts}
Few     == {AndAll(m, a) : m \in {<<X1>>, <<X2, Y0>>, <<At(Y)>>}, a \in {B, Meter(1, A, D)}}

Case(mode, parts, default) == [mode |-> mode, parts |-> parts, default |-> default]

RuleCases ==
  {Case("rules", <<Or(e, f)>>, d) : e \in Filters, f \in Few, d \in {Unspec, B}}
  \cup {Case("rules", <<e, f>>, d) : e \in Few, f \in Few, d \in {Unspec, B}}

(* Bit trees take any nesting.  Only the first algorithm takes meters      *)
(* between tests; the tests on the ways from a meter are of different bits.*)
Nested ==
  {Or(And(c, Or(And(m, x), y)), And(n, z)) :
     c \in {X1, Or(X2, Y0), Node("!", X2, None)}, m \in {Y0, X2}, n \in {X1, Y0},
     x \in {A, D}, y \in {A, B}, z \in {A, D}}
Metered ==
  {Or(And(Conform(p), And(Count(q), Or(And(m, A), D))), And(n, Meter(1, x, y))) :
     p \in {1, 2}, q \in {1, 2}, m \in {X1, X2}, n \in {Y0}, x \in {A, B}, y \in {B, D}}
  \cup {Or(And(Conform(p), And(Count(q), Meter(1, A, B))), And(m, Meter(2, A, D))) :
     p \in {1, 2}, q \in {1, 2}, m \in {X1, X2}}
  \cup {Or(And(m, Meter(1, x, y)), And(n, And(Conform(1), And(Count(1), B)))) :
     m \in {X1, Or(X2, Y0)}, n \in {X2, Y0}, x \in {A, B}, y \in {B, D}}

MCCases ==
  RuleCases
  \cup {Case("bit", <<e>>, d) : e \in Nested \cup Metered \cup Few, d \in {Unspec, B}}
  \cup {Case("newbit", <<e>>, Unspec) : e \in Nested \cup Few}
  \cup {Case("fastbit", <<e>>, d) : e \in Nested, d \in {Unspec, B}}

=============================================================================
