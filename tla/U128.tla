-------------------------------- MODULE U128 --------------------------------
(***************************************************************************)
(* 128 bit integers of shared/u128.c: four words, the lowest first, with   *)
(* the carries and shifts between them.  The width of a word, 32 bits in   *)
(* the code, is a parameter.                                               *)
(***************************************************************************)
EXTENDS Integers, FiniteSetsExt

CONSTANT W     \* bits of a uint32_t

ASSUME WAssumption == W \in Nat \ {0}

Base  == 2^W
Word  == 0..(Base - 1)
Words == 0..3

(* The provers have no rules for powers.                                   *)
ASSUME BaseAssumption == Base \in Nat \ {0, 1}

(* The number that a U128 stands for, and the U128 of a number.            *)
Val(a)   == a[0] + Base * (a[1] + Base * (a[2] + Base * a[3]))
OfNat(n) == [i \in Words |-> (n \div Base^i) % Base]

(* Operations of C on a single word (or on more bits).                     *)
Bits(n, width) == {i \in 0..(width - 1) : (n \div 2^i) % 2 = 1}
OfBits(S)      == MapThenSumSet(LAMBDA i : 2^i, S)
BitAnd(m, n)   == OfBits(Bits(m, 4 * W) \cap Bits(n, 4 * W))
BitOr(m, n)    == OfBits(Bits(m, 4 * W) \cup Bits(n, 4 * W))
BitXor(m, n)   == BitOr(m, n) - BitAnd(m, n)
BitNot(n)      == Base - 1 - n
ShiftL(n, s)   == (n * 2^s) % Base
ShiftR(n, s)   == n \div 2^s

-----------------------------------------------------------------------------

(* Word i is incremented by the carry into it, and then added to.          *)
u128_add(a, b) ==
  LET carry[i \in 0..4] ==
        IF i = 0 THEN 0
        ELSE LET t == (a[i-1] + carry[i-1]) % Base
             IN  IF (carry[i-1] = 1 /\ t = 0) \/ (t + b[i-1]) % Base < b[i-1] THEN 1 ELSE 0
  IN  [i \in Words |-> (a[i] + carry[i] + b[i]) % Base]

u128_sub(a, b) ==
  LET borrow[i \in 0..4] ==
        IF i = 0 THEN 0
        ELSE LET t == (a[i-1] - borrow[i-1]) % Base
             IN  IF (borrow[i-1] = 1 /\ a[i-1] = 0) \/ t < b[i-1] THEN 1 ELSE 0
  IN  [i \in Words |-> (a[i] - borrow[i] - b[i]) % Base]

u128_minus(a) ==
  LET carry[i \in 0..4] ==
        IF i = 0 THEN 1
        ELSE IF carry[i-1] = 1 /\ (BitNot(a[i-1]) + 1) % Base = 0 THEN 1 ELSE 0
  IN  [i \in Words |-> (BitNot(a[i]) + carry[i]) % Base]

u128_and(a, b) == [i \in Words |-> BitAnd(a[i], b[i])]
u128_or(a, b)  == [i \in Words |-> BitOr(a[i], b[i])]
u128_xor(a, b) == [i \in Words |-> BitXor(a[i], b[i])]
u128_not(a)    == [i \in Words |-> BitNot(a[i])]

(* A word gets bits from the word that is shifted onto it, and the bits    *)
(* that its neighbour loses.                                               *)
u128_shift_left(a, n) ==
  LET words == n \div W
      bits  == n % W
  IN  [i \in Words |->
         IF i < words THEN 0
         ELSE ShiftL(a[i-words], bits)
              + (IF bits # 0 /\ i > words THEN ShiftR(a[i-words-1], W - bits) ELSE 0)]

u128_shift_right(a, n) ==
  LET words == n \div W
      bits  == n % W
  IN  [i \in Words |->
         IF i >= 4 - words THEN 0
         ELSE ShiftR(a[i+words], bits)
              + (IF bits # 0 /\ i < 3 - words THEN ShiftL(a[i+words+1], W - bits) ELSE 0)]

u128_from_32(n) == [i \in Words |-> IF i = 0 THEN n ELSE 0]
u128_is_32(a)   == \A i \in Words : i > 0 => a[i] = 0
u128_is_zero(a) == \A i \in Words : a[i] = 0

(* Adding or subtracting a word; a carry goes on while words overflow.     *)
u128_add_32(a, n) ==
  LET low == (a[0] + n) % Base
  IN  [i \in Words |->
         IF i = 0 THEN low
         ELSE IF low < n /\ (\A j \in 1..(i - 1) : a[j] = Base - 1) THEN (a[i] + 1) % Base ELSE a[i]]

u128_sub_32(a, n) ==
  [i \in Words |->
     IF i = 0 THEN (a[0] - n) % Base
     ELSE IF a[0] < n /\ (\A j \in 1..(i - 1) : a[j] = 0) THEN (a[i] - 1) % Base ELSE a[i]]

(* The first word that differs decides, and the first word is the lowest.  *)
u128_cmp(a, b) ==
  IF a = b THEN 0
  ELSE LET i == CHOOSE j \in Words : a[j] # b[j] /\ \A k \in 0..(j - 1) : a[k] = b[k]
       IN  IF a[i] < b[i] THEN -1 ELSE 1

=============================================================================
