----------------------------- MODULE U128Proofs -----------------------------
(***************************************************************************)
(* The carries of shared/u128.c are right: for words of any width and all  *)
(* operands, additions, subtractions and negations yield the number modulo *)
(* 2^128 that they should.                                                 *)
(***************************************************************************)
EXTENDS U128, TLAPS

U128s == [Words -> Word]

(* One more than the largest number.                                       *)
Size == Base * (Base * (Base * Base))

LEMMA WordFacts ==
  ASSUME NEW a \in U128s
  PROVE  /\ a[0] \in Nat /\ a[1] \in Nat /\ a[2] \in Nat /\ a[3] \in Nat
         /\ a[0] < Base /\ a[1] < Base /\ a[2] < Base /\ a[3] < Base
<1>1. Base \in Nat
  BY BaseAssumption
<1>2. \A i \in Words : a[i] \in Word
  BY DEF U128s
<1>3. a[0] \in Word /\ a[1] \in Word /\ a[2] \in Word /\ a[3] \in Word
  BY <1>2 DEF Words
<1> QED BY <1>1, <1>3 DEF Word

(* A number is a word and a multiple of the base in only one way.          *)
LEMMA RemainderUnique ==
  ASSUME NEW d \in Nat \ {0}, NEW q \in Int, NEW r \in 0..(d - 1)
  PROVE  (q * d + r) % d = r
<1> DEFINE a == q * d + r
<1>1. a \in Int /\ a \div d \in Int /\ a % d \in 0..(d - 1)
  OBVIOUS
<1>2. a = d * (a \div d) + (a % d)
  BY <1>1
<1> DEFINE p == a \div d
           s == a % d
<1>3. p \in Int /\ s \in 0..(d - 1) /\ d * (p - q) = r - s
  BY <1>1, <1>2
<1> HIDE DEF a, p, s
<1>4. ASSUME p > q PROVE FALSE
  BY <1>3, <1>4
<1>5. ASSUME p < q PROVE FALSE
  BY <1>3, <1>5
<1>6. p = q
  BY <1>3, <1>4, <1>5
<1>7. s = r
  BY <1>3, <1>6
<1> QED BY <1>7 DEF a, s

(* The value of words is below Size, and the value of the sums of words    *)
(* and carries is the sum of the values.                                   *)
LEMMA ValRange ==
  ASSUME NEW a \in U128s
  PROVE  Val(a) \in 0..(Size - 1) /\ Size \in Nat \ {0}
<1>1. Base \in Nat \ {0}
  BY BaseAssumption
<1>2. PICK a0, a1, a2, a3 \in Nat :
        /\ a0 = a[0] /\ a1 = a[1] /\ a2 = a[2] /\ a3 = a[3]
        /\ a0 < Base /\ a1 < Base /\ a2 < Base /\ a3 < Base
  BY WordFacts
<1>3. \A x, y \in Nat, n \in Nat :
        x < Base /\ y < n => x + Base * y < Base * n /\ Base * y \in Nat /\ Base * n \in Nat
  <2> SUFFICES ASSUME NEW x \in Nat, NEW y \in Nat, NEW n \in Nat, x < Base, y < n
               PROVE  x + Base * y < Base * n /\ Base * y \in Nat /\ Base * n \in Nat
    OBVIOUS
  <2>1. PICK e \in Nat : n = y + 1 + e
    <3>1. n - y - 1 \in Nat /\ n = y + 1 + (n - y - 1)
      OBVIOUS
    <3> QED BY <3>1
  <2>2. Base * (y + 1 + e) = Base * y + Base + Base * e /\ Base * e \in Nat /\ Base * y \in Nat
    BY <1>1
  <2> QED BY <1>1, <2>1, <2>2
<1>4. a2 + Base * a3 \in Nat /\ a2 + Base * a3 < Base * Base /\ Base * Base \in Nat
  BY <1>1, <1>2, <1>3
<1>5. PICK y \in Nat, n \in Nat : y = a2 + Base * a3 /\ n = Base * Base /\ y < n
  BY <1>4
<1>6. a1 + Base * y \in Nat /\ a1 + Base * y < Base * n /\ Base * n \in Nat
  BY <1>1, <1>2, <1>3, <1>5
<1>7. PICK z \in Nat, m \in Nat : z = a1 + Base * y /\ m = Base * n /\ z < m
  BY <1>6
<1>8. a0 + Base * z \in Nat /\ a0 + Base * z < Base * m /\ Base * m \in Nat
  <2>1. a0 < Base /\ z < m
    BY <1>2, <1>7
  <2>2. a0 + Base * z < Base * m /\ Base * z \in Nat /\ Base * m \in Nat
    BY <1>3, <2>1
  <2> QED BY <2>2
<1>9. Val(a) = a0 + Base * z /\ Size = Base * m
  BY <1>2, <1>5, <1>7 DEF Val, Size
<1> QED BY <1>8, <1>9

(* Carrying from word to word: if each word takes the carry from the one   *)
(* below and gives one to the word above, the numbers agree modulo Size.   *)
LEMMA Carried ==
  ASSUME NEW s \in U128s, NEW x \in [Words -> Int], NEW c \in [0..4 -> Int],
         \A i \in Words : x[i] + c[i] = s[i] + c[i + 1] * Base
  PROVE  x[0] + Base * (x[1] + Base * (x[2] + Base * x[3])) + c[0] = Val(s) + c[4] * Size
<1>1. Base \in Int
  BY BaseAssumption
<1>2. PICK s0, s1, s2, s3 \in Int : s0 = s[0] /\ s1 = s[1] /\ s2 = s[2] /\ s3 = s[3]
  BY WordFacts
<1>3. PICK x0, x1, x2, x3 \in Int : x0 = x[0] /\ x1 = x[1] /\ x2 = x[2] /\ x3 = x[3]
  BY DEF Words
<1>4. PICK c0, c1, c2, c3, c4 \in Int :
        c0 = c[0] /\ c1 = c[1] /\ c2 = c[2] /\ c3 = c[3] /\ c4 = c[4]
  OBVIOUS
<1>5. /\ x0 + c0 = s0 + c1 * Base
      /\ x1 + c1 = s1 + c2 * Base
      /\ x2 + c2 = s2 + c3 * Base
      /\ x3 + c3 = s3 + c4 * Base
  BY <1>2, <1>3, <1>4 DEF Words
<1>6. /\ x0 = s0 + c1 * Base - c0
      /\ x1 = s1 + c2 * Base - c1
      /\ x2 = s2 + c3 * Base - c2
      /\ x3 = s3 + c4 * Base - c3
  BY <1>1, <1>5
<1>7. (s0 + c1 * Base - c0) + Base * ((s1 + c2 * Base - c1) + Base * ((s2 + c3 * Base - c2) + Base * (s3 + c4 * Base - c3))) + c0
       = (s0 + Base * (s1 + Base * (s2 + Base * s3))) + c4 * (Base * (Base * (Base * Base)))
  BY <1>1
<1>8. x0 + Base * (x1 + Base * (x2 + Base * x3)) + c0
       = (s0 + Base * (s1 + Base * (s2 + Base * s3))) + c4 * (Base * (Base * (Base * Base)))
  BY <1>6, <1>7
<1> QED BY <1>2, <1>3, <1>4, <1>8 DEF Val, Size

-----------------------------------------------------------------------------

Bit == {0, 1}

(* The carries into the four words and out of the last one, from b on.     *)
LEMMA CarriesExist ==
  ASSUME NEW b \in Bit, NEW g \in [Words -> [Bit -> Bit]]
  PROVE  \E f \in [0..4 -> Bit] : f[0] = b /\ \A i \in 1..4 : f[i] = g[i - 1][f[i - 1]]
<1>1. \A i \in Words, x \in Bit : g[i][x] \in Bit
  OBVIOUS
<1>2. PICK c1 \in Bit : c1 = g[0][b]
  BY <1>1 DEF Words
<1>3. PICK c2 \in Bit : c2 = g[1][c1]
  BY <1>1 DEF Words
<1>4. PICK c3 \in Bit : c3 = g[2][c2]
  BY <1>1 DEF Words
<1>5. PICK c4 \in Bit : c4 = g[3][c3]
  BY <1>1 DEF Words
<1> DEFINE f == [i \in 0..4 |-> IF i = 0 THEN b ELSE IF i = 1 THEN c1 ELSE IF i = 2 THEN c2
                                ELSE IF i = 3 THEN c3 ELSE c4]
<1>6. f \in [0..4 -> Bit]
  OBVIOUS
<1>7. f[0] = b /\ f[1] = c1 /\ f[2] = c2 /\ f[3] = c3 /\ f[4] = c4
  OBVIOUS
<1> HIDE DEF f
<1>8. ASSUME NEW i \in 1..4 PROVE f[i] = g[i - 1][f[i - 1]]
  <2>1. i = 1 \/ i = 2 \/ i = 3 \/ i = 4
    OBVIOUS
  <2> QED BY <1>2, <1>3, <1>4, <1>5, <1>7, <2>1
<1> QED BY <1>6, <1>7, <1>8

(* Remainders of a word and a little more.                                 *)
LEMMA ModBase ==
  ASSUME NEW n \in Int
  PROVE  /\ n \in 0..(Base - 1) => n % Base = n
         /\ n \in Base..(2 * Base - 1) => n % Base = n - Base
         /\ n \in (-Base)..(-1) => n % Base = n + Base
         /\ n % Base \in Word
<1>1. Base \in Nat \ {0}
  BY BaseAssumption
<1>2. ASSUME n \in 0..(Base - 1) PROVE n % Base = n
  <2>1. (0 * Base + n) % Base = n
    BY <1>1, <1>2, RemainderUnique
  <2> QED BY <1>1, <1>2, <2>1
<1>3. ASSUME n \in Base..(2 * Base - 1) PROVE n % Base = n - Base
  <2>1. n - Base \in 0..(Base - 1) /\ 1 * Base + (n - Base) = n
    BY <1>1, <1>3
  <2>2. (1 * Base + (n - Base)) % Base = n - Base
    BY <1>1, <2>1, RemainderUnique
  <2> QED BY <2>1, <2>2
<1>4. ASSUME n \in (-Base)..(-1) PROVE n % Base = n + Base
  <2>1. n + Base \in 0..(Base - 1) /\ (-1) * Base + (n + Base) = n
    BY <1>1, <1>4
  <2>2. ((-1) * Base + (n + Base)) % Base = n + Base
    BY <1>1, <2>1, RemainderUnique
  <2> QED BY <2>1, <2>2
<1>5. n % Base \in Word
  BY <1>1 DEF Word
<1> QED BY <1>2, <1>3, <1>4, <1>5

(* The two overflow tests of u128_add see exactly one overflow.            *)
AddCarry(x, y, c) ==
  IF (c = 1 /\ (x + c) % Base = 0) \/ (((x + c) % Base) + y) % Base < y THEN 1 ELSE 0

LEMMA AddWord ==
  ASSUME NEW x \in Word, NEW y \in Word, NEW c \in Bit
  PROVE  /\ AddCarry(x, y, c) \in Bit
         /\ x + y + c = ((x + c + y) % Base) + AddCarry(x, y, c) * Base
<1>1. Base \in Nat \ {0, 1} /\ x \in Nat /\ y \in Nat /\ c \in Nat
      /\ x < Base /\ y < Base /\ c <= 1
  BY BaseAssumption DEF Word, Bit
<1>2. AddCarry(x, y, c) \in Bit
  BY DEF AddCarry, Bit
<1>3. CASE x + c + y < Base
  <2>1. (x + c) % Base = x + c /\ (x + c + y) % Base = x + c + y
    BY <1>1, <1>3, ModBase
  <2>2. AddCarry(x, y, c) = 0
    BY <1>1, <2>1 DEF AddCarry
  <2> QED BY <1>1, <1>2, <2>1, <2>2
<1>4. CASE x + c < Base /\ x + c + y >= Base
  <2>1. (x + c) % Base = x + c /\ (x + c + y) % Base = x + c + y - Base
    BY <1>1, <1>4, ModBase
  <2>2. AddCarry(x, y, c) = 1
    BY <1>1, <1>4, <2>1 DEF AddCarry
  <2> QED BY <1>1, <1>2, <2>1, <2>2
<1>5. CASE x + c >= Base
  <2>1. x + c = Base /\ c = 1
    BY <1>1, <1>5
  <2>2. (x + c) % Base = 0 /\ (x + c + y) % Base = y
    BY <1>1, <2>1, ModBase
  <2>3. AddCarry(x, y, c) = 1
    BY <2>1, <2>2 DEF AddCarry
  <2> QED BY <1>1, <1>2, <2>1, <2>2, <2>3
<1> QED BY <1>1, <1>3, <1>4, <1>5

(* A value of words that differs from n by multiples of Size is n modulo   *)
(* Size.                                                                   *)
LEMMA Wraps ==
  ASSUME NEW s \in U128s, NEW n, NEW c \in Int, n = Val(s) + c * Size
  PROVE  Val(s) = n % Size
<1>1. Val(s) \in 0..(Size - 1) /\ Size \in Nat \ {0}
  BY ValRange
<1>2. PICK v \in 0..(Size - 1) : v = Val(s)
  BY <1>1
<1>3. (c * Size + v) % Size = v
  BY <1>1, RemainderUnique
<1>4. c * Size + v = v + c * Size
  BY <1>1
<1> QED BY <1>2, <1>3, <1>4

(* u128_add adds modulo 2^128, whatever the carries between its words.     *)
THEOREM AddExact ==
  ASSUME NEW a \in U128s, NEW b \in U128s
  PROVE  u128_add(a, b) \in U128s /\ Val(u128_add(a, b)) = (Val(a) + Val(b)) % Size
<1> DEFINE g == [i \in Words |-> [c \in Bit |-> AddCarry(a[i], b[i], c)]]
           Rhs(f) == [i \in 0..4 |->
                        IF i = 0 THEN 0
                        ELSE IF \/ f[i-1] = 1 /\ (a[i-1] + f[i-1]) % Base = 0
                                \/ (((a[i-1] + f[i-1]) % Base) + b[i-1]) % Base < b[i-1]
                             THEN 1 ELSE 0]
           carry == CHOOSE f : f = Rhs(f)
           s == [i \in Words |-> (a[i] + carry[i] + b[i]) % Base]
<1>0. \A i \in Words : a[i] \in Word /\ b[i] \in Word
  BY DEF U128s
<1>1. g \in [Words -> [Bit -> Bit]] /\ \A i \in Words, c \in Bit : g[i][c] = AddCarry(a[i], b[i], c)
  BY <1>0, AddWord
<1> HIDE DEF g
<1>2. PICK h \in [0..4 -> Bit] : h[0] = 0 /\ \A i \in 1..4 : h[i] = g[i - 1][h[i - 1]]
  BY <1>1, CarriesExist DEF Bit
<1>3. \A i \in 1..4 : h[i] = AddCarry(a[i - 1], b[i - 1], h[i - 1])
  <2> SUFFICES ASSUME NEW i \in 1..4 PROVE h[i] = AddCarry(a[i - 1], b[i - 1], h[i - 1])
    OBVIOUS
  <2>1. i - 1 \in Words /\ h[i - 1] \in Bit
    BY DEF Words
  <2> QED BY <1>1, <1>2, <2>1
<1>4. h = Rhs(h)
  <2>1. ASSUME NEW i \in 0..4 PROVE h[i] = Rhs(h)[i]
    <3>1. CASE i = 0
      BY <1>2, <3>1
    <3>2. CASE i # 0
      <4>1. i \in 1..4
        BY <3>2
      <4> QED BY <1>3, <3>2, <4>1 DEF AddCarry
    <3> QED BY <3>1, <3>2
  <2> QED BY <2>1
<1>5. carry = Rhs(carry)
  BY <1>4
<1>6. u128_add(a, b) = s
  BY DEF u128_add
<1> HIDE DEF carry
<1>7. carry[0] = 0 /\ \A i \in Words : carry[i + 1] = AddCarry(a[i], b[i], carry[i])
  <2>1. \A i \in 0..4 : carry[i] = IF i = 0 THEN 0 ELSE AddCarry(a[i-1], b[i-1], carry[i-1])
    BY <1>5 DEF AddCarry
  <2>2. carry[0] = 0
    BY <2>1
  <2>3. ASSUME NEW i \in Words PROVE carry[i + 1] = AddCarry(a[i], b[i], carry[i])
    <3>1. PICK j \in 0..4 : j = i + 1 /\ j # 0 /\ j - 1 = i
      BY DEF Words
    <3>2. carry[j] = AddCarry(a[j-1], b[j-1], carry[j-1])
      BY <2>1, <3>1
    <3> QED BY <3>1, <3>2
  <2> QED BY <2>2, <2>3
<1>8. carry \in [0..4 -> Bit]
  <2>1. DOMAIN carry = 0..4 /\ carry = [i \in 0..4 |-> carry[i]]
    BY <1>5
  <2>2. \A i \in 0..4 : carry[i] \in Bit
    BY <1>5 DEF Bit
  <2> QED BY <2>1, <2>2
<1>9. s \in U128s
  <2>1. \A i \in Words : a[i] + carry[i] + b[i] \in Int
    BY <1>0, <1>8, BaseAssumption DEF Words, Word, Bit
  <2>2. \A i \in Words : (a[i] + carry[i] + b[i]) % Base \in Word
    BY <2>1, ModBase
  <2> QED BY <2>2 DEF U128s
<1>10. \A i \in Words : a[i] + b[i] + carry[i] = s[i] + carry[i + 1] * Base
  <2> SUFFICES ASSUME NEW i \in Words
               PROVE  a[i] + b[i] + carry[i] = s[i] + carry[i + 1] * Base
    OBVIOUS
  <2>1. carry[i] \in Bit /\ a[i] \in Word /\ b[i] \in Word
    BY <1>0, <1>8 DEF Words
  <2>2. a[i] + b[i] + carry[i] = ((a[i] + carry[i] + b[i]) % Base) + AddCarry(a[i], b[i], carry[i]) * Base
    BY <2>1, AddWord
  <2> QED BY <1>7, <2>2
<1> HIDE DEF s
<1> DEFINE x == [i \in Words |-> a[i] + b[i]]
<1>11. Val(a) + Val(b) = Val(s) + carry[4] * Size
  <2>1. \A i \in Words : a[i] \in Int /\ b[i] \in Int
    BY <1>0, BaseAssumption DEF Word
  <2>2. x \in [Words -> Int] /\ \A i \in Words : x[i] = a[i] + b[i]
    BY <2>1
  <2>3. carry \in [0..4 -> Int] /\ \A i \in Words : x[i] + carry[i] = s[i] + carry[i + 1] * Base
    BY <1>8, <1>10, <2>2 DEF Bit
  <2> HIDE DEF x
  <2>4. x[0] + Base * (x[1] + Base * (x[2] + Base * x[3])) + carry[0] = Val(s) + carry[4] * Size
    BY <1>9, <2>2, <2>3, Carried
  <2>5. x[0] = a[0] + b[0] /\ x[1] = a[1] + b[1] /\ x[2] = a[2] + b[2] /\ x[3] = a[3] + b[3]
    BY <2>2 DEF Words
  <2>6. PICK a0, a1, a2, a3 \in Int : a0 = a[0] /\ a1 = a[1] /\ a2 = a[2] /\ a3 = a[3]
    BY <2>1 DEF Words
  <2>7. PICK b0, b1, b2, b3 \in Int : b0 = b[0] /\ b1 = b[1] /\ b2 = b[2] /\ b3 = b[3]
    BY <2>1 DEF Words
  <2>8. (a0 + b0) + Base * ((a1 + b1) + Base * ((a2 + b2) + Base * (a3 + b3))) + 0
          = (a0 + Base * (a1 + Base * (a2 + Base * a3))) + (b0 + Base * (b1 + Base * (b2 + Base * b3)))
    BY BaseAssumption
  <2> QED BY <1>7, <2>4, <2>5, <2>6, <2>7, <2>8 DEF Val
<1>12. Val(s) = (Val(a) + Val(b)) % Size
  BY <1>8, <1>9, <1>11, Wraps DEF Bit
<1> QED BY <1>6, <1>9, <1>12

(* The two tests of u128_sub see exactly one underflow.                    *)
SubBorrow(x, y, c) == IF (c = 1 /\ x = 0) \/ (x - c) % Base < y THEN 1 ELSE 0

LEMMA SubWord ==
  ASSUME NEW x \in Word, NEW y \in Word, NEW c \in Bit
  PROVE  /\ SubBorrow(x, y, c) \in Bit
         /\ x - y - c = ((x - c - y) % Base) - SubBorrow(x, y, c) * Base
<1>1. Base \in Nat \ {0, 1} /\ x \in Nat /\ y \in Nat /\ c \in Nat
      /\ x < Base /\ y < Base /\ c <= 1
  BY BaseAssumption DEF Word, Bit
<1>2. SubBorrow(x, y, c) \in Bit
  BY DEF SubBorrow, Bit
<1>3. CASE x - c >= y
  <2>1. (x - c) % Base = x - c /\ (x - c - y) % Base = x - c - y
    BY <1>1, <1>3, ModBase
  <2>2. SubBorrow(x, y, c) = 0
    BY <1>1, <1>3, <2>1 DEF SubBorrow
  <2> QED BY <1>1, <1>2, <2>1, <2>2
<1>4. CASE x - c >= 0 /\ x - c < y
  <2>0. x - c \in 0..(Base - 1) /\ x - c - y \in (-Base)..(-1)
    BY <1>1, <1>4
  <2>1. (x - c) % Base = x - c /\ (x - c - y) % Base = x - c - y + Base
    BY <2>0, ModBase
  <2>2. SubBorrow(x, y, c) = 1
    BY <1>1, <1>4, <2>1 DEF SubBorrow
  <2> QED BY <1>1, <1>2, <2>1, <2>2
<1>5. CASE x - c < 0
  <2>1. x = 0 /\ c = 1
    BY <1>1, <1>5
  <2>2. x - c - y \in (-Base)..(-1)
    BY <1>1, <2>1
  <2>3. (x - c - y) % Base = x - c - y + Base
    BY <1>1, <2>2, ModBase
  <2>4. SubBorrow(x, y, c) = 1
    BY <2>1 DEF SubBorrow
  <2> QED BY <1>1, <1>2, <2>1, <2>3, <2>4
<1> QED BY <1>1, <1>3, <1>4, <1>5

(* u128_sub subtracts modulo 2^128, whatever the borrows between its words.*)
THEOREM SubExact ==
  ASSUME NEW a \in U128s, NEW b \in U128s
  PROVE  u128_sub(a, b) \in U128s /\ Val(u128_sub(a, b)) = (Val(a) - Val(b)) % Size
<1> DEFINE g == [i \in Words |-> [c \in Bit |-> SubBorrow(a[i], b[i], c)]]
           Rhs(f) == [i \in 0..4 |->
                        IF i = 0 THEN 0
                        ELSE IF \/ f[i-1] = 1 /\ a[i-1] = 0
                                \/ (a[i-1] - f[i-1]) % Base < b[i-1]
                             THEN 1 ELSE 0]
           borrow == CHOOSE f : f = Rhs(f)
           s == [i \in Words |-> (a[i] - borrow[i] - b[i]) % Base]
<1>0. \A i \in Words : a[i] \in Word /\ b[i] \in Word
  BY DEF U128s
<1>1. g \in [Words -> [Bit -> Bit]] /\ \A i \in Words, c \in Bit : g[i][c] = SubBorrow(a[i], b[i], c)
  BY <1>0, SubWord
<1> HIDE DEF g
<1>2. PICK h \in [0..4 -> Bit] : h[0] = 0 /\ \A i \in 1..4 : h[i] = g[i - 1][h[i - 1]]
  BY <1>1, CarriesExist DEF Bit
<1>3. \A i \in 1..4 : h[i] = SubBorrow(a[i - 1], b[i - 1], h[i - 1])
  <2> SUFFICES ASSUME NEW i \in 1..4 PROVE h[i] = SubBorrow(a[i - 1], b[i - 1], h[i - 1])
    OBVIOUS
  <2>1. i - 1 \in Words /\ h[i - 1] \in Bit
    BY DEF Words
  <2> QED BY <1>1, <1>2, <2>1
<1>4. h = Rhs(h)
  <2>1. ASSUME NEW i \in 0..4 PROVE h[i] = Rhs(h)[i]
    <3>1. CASE i = 0
      BY <1>2, <3>1
    <3>2. CASE i # 0
      <4>1. i \in 1..4
        BY <3>2
      <4> QED BY <1>3, <3>2, <4>1 DEF SubBorrow
    <3> QED BY <3>1, <3>2
  <2> QED BY <2>1
<1>5. borrow = Rhs(borrow)
  BY <1>4
<1>6. u128_sub(a, b) = s
  BY DEF u128_sub
<1> HIDE DEF borrow
<1>7. borrow[0] = 0 /\ \A i \in Words : borrow[i + 1] = SubBorrow(a[i], b[i], borrow[i])
  <2>1. \A i \in 0..4 : borrow[i] = IF i = 0 THEN 0 ELSE SubBorrow(a[i-1], b[i-1], borrow[i-1])
    BY <1>5 DEF SubBorrow
  <2>2. borrow[0] = 0
    BY <2>1
  <2>3. ASSUME NEW i \in Words PROVE borrow[i + 1] = SubBorrow(a[i], b[i], borrow[i])
    <3>1. PICK j \in 0..4 : j = i + 1 /\ j # 0 /\ j - 1 = i
      BY DEF Words
    <3>2. borrow[j] = SubBorrow(a[j-1], b[j-1], borrow[j-1])
      BY <2>1, <3>1
    <3> QED BY <3>1, <3>2
  <2> QED BY <2>2, <2>3
<1>8. borrow \in [0..4 -> Bit]
  <2>1. DOMAIN borrow = 0..4 /\ borrow = [i \in 0..4 |-> borrow[i]]
    BY <1>5
  <2>2. \A i \in 0..4 : borrow[i] \in Bit
    BY <1>5 DEF Bit
  <2> QED BY <2>1, <2>2
<1>9. s \in U128s
  <2>1. \A i \in Words : a[i] - borrow[i] - b[i] \in Int
    BY <1>0, <1>8, BaseAssumption DEF Words, Word, Bit
  <2>2. \A i \in Words : (a[i] - borrow[i] - b[i]) % Base \in Word
    BY <2>1, ModBase
  <2> QED BY <2>2 DEF U128s
<1>10. \A i \in Words : a[i] - b[i] - borrow[i] = s[i] - borrow[i + 1] * Base
  <2> SUFFICES ASSUME NEW i \in Words
               PROVE  a[i] - b[i] - borrow[i] = s[i] - borrow[i + 1] * Base
    OBVIOUS
  <2>1. borrow[i] \in Bit /\ a[i] \in Word /\ b[i] \in Word
    BY <1>0, <1>8 DEF Words
  <2>2. a[i] - b[i] - borrow[i] = ((a[i] - borrow[i] - b[i]) % Base) - SubBorrow(a[i], b[i], borrow[i]) * Base
    BY <2>1, SubWord
  <2> QED BY <1>7, <2>2
<1> HIDE DEF s
<1> DEFINE x == [i \in Words |-> a[i] - b[i]]
           c == [i \in 0..4 |-> -borrow[i]]
<1>11. Val(a) - Val(b) = Val(s) + (-borrow[4]) * Size
  <2>1. \A i \in Words : a[i] \in Int /\ b[i] \in Int /\ s[i] \in Int
    BY <1>0, <1>9, BaseAssumption DEF Word, U128s
  <2>2. x \in [Words -> Int] /\ \A i \in Words : x[i] = a[i] - b[i]
    BY <2>1
  <2>3. \A i \in 0..4 : borrow[i] \in Int
    BY <1>8 DEF Bit
  <2>4. c \in [0..4 -> Int] /\ \A i \in 0..4 : c[i] = -borrow[i]
    BY <2>3
  <2> HIDE DEF x, c
  <2>5. ASSUME NEW i \in Words PROVE x[i] + c[i] = s[i] + c[i + 1] * Base
    <3>1. i \in 0..4 /\ i + 1 \in 0..4
      BY DEF Words
    <3>2. PICK p \in Int, q \in Int : p = borrow[i] /\ q = borrow[i + 1]
      BY <2>3, <3>1
    <3>3. c[i] = -p /\ c[i + 1] = -q
      BY <2>4, <3>1, <3>2
    <3>4. a[i] - b[i] - p = s[i] - q * Base
      BY <1>10, <3>2
    <3>5. PICK d \in Int, e \in Int, z \in Int : d = a[i] /\ e = b[i] /\ z = s[i]
      BY <2>1
    <3>6. d - e - p = z - q * Base => (d - e) + (-p) = z + (-q) * Base
      BY BaseAssumption
    <3> QED BY <2>2, <3>3, <3>4, <3>5, <3>6
  <2>6. x[0] + Base * (x[1] + Base * (x[2] + Base * x[3])) + c[0] = Val(s) + c[4] * Size
    BY <1>9, <2>2, <2>4, <2>5, Carried
  <2>7. x[0] = a[0] - b[0] /\ x[1] = a[1] - b[1] /\ x[2] = a[2] - b[2] /\ x[3] = a[3] - b[3]
    BY <2>2 DEF Words
  <2>8. c[0] = 0 /\ c[4] = -borrow[4]
    BY <1>7, <2>4
  <2>9. PICK a0, a1, a2, a3 \in Int : a0 = a[0] /\ a1 = a[1] /\ a2 = a[2] /\ a3 = a[3]
    BY <2>1 DEF Words
  <2>10. PICK b0, b1, b2, b3 \in Int : b0 = b[0] /\ b1 = b[1] /\ b2 = b[2] /\ b3 = b[3]
    BY <2>1 DEF Words
  <2>11. (a0 - b0) + Base * ((a1 - b1) + Base * ((a2 - b2) + Base * (a3 - b3))) + 0
          = (a0 + Base * (a1 + Base * (a2 + Base * a3))) - (b0 + Base * (b1 + Base * (b2 + Base * b3)))
    BY BaseAssumption
  <2> QED BY <2>6, <2>7, <2>8, <2>9, <2>10, <2>11 DEF Val
<1>12. Val(s) = (Val(a) - Val(b)) % Size
  <2>1. PICK k \in Int : k = -borrow[4]
    BY <1>8 DEF Bit
  <2> QED BY <1>9, <1>11, <2>1, Wraps
<1> QED BY <1>6, <1>9, <1>12

(* u128_minus: the complement and a carry that starts at one.              *)
NotCarry(x, c) == IF c = 1 /\ (BitNot(x) + 1) % Base = 0 THEN 1 ELSE 0

LEMMA NotWord ==
  ASSUME NEW x \in Word, NEW c \in Bit
  PROVE  /\ NotCarry(x, c) \in Bit
         /\ BitNot(x) \in Word
         /\ BitNot(x) + c = ((BitNot(x) + c) % Base) + NotCarry(x, c) * Base
<1>1. Base \in Nat \ {0, 1} /\ x \in Nat /\ x < Base /\ (c = 0 \/ c = 1)
  BY BaseAssumption DEF Word, Bit
<1>2. NotCarry(x, c) \in Bit
  BY DEF NotCarry, Bit
<1>3. PICK y \in Nat : y = BitNot(x) /\ y < Base
  BY <1>1 DEF BitNot
<1>4. CASE c = 1 /\ y + 1 = Base
  <2>1. y + 1 \in Base..(2 * Base - 1)
    BY <1>1, <1>4
  <2>2. (y + 1) % Base = 0
    BY <1>1, <1>4, <2>1, ModBase
  <2>3. NotCarry(x, c) = 1
    BY <1>3, <1>4, <2>2 DEF NotCarry
  <2> QED BY <1>1, <1>2, <1>3, <1>4, <2>2, <2>3 DEF Word
<1>5. CASE c = 0 \/ y + 1 # Base
  <2>1. y + c \in 0..(Base - 1) /\ (c = 1 => y + 1 \in 0..(Base - 1))
    BY <1>1, <1>3, <1>5
  <2>2. (y + c) % Base = y + c /\ (c = 1 => (y + 1) % Base = y + 1)
    BY <2>1, ModBase
  <2>3. NotCarry(x, c) = 0
    BY <1>1, <1>3, <2>2 DEF NotCarry
  <2> QED BY <1>1, <1>2, <1>3, <2>2, <2>3 DEF Word
<1> QED BY <1>1, <1>4, <1>5

(* u128_minus negates modulo 2^128, zero and the smallest number included. *)
THEOREM MinusExact ==
  ASSUME NEW a \in U128s
  PROVE  u128_minus(a) \in U128s /\ Val(u128_minus(a)) = (-Val(a)) % Size
<1> DEFINE g == [i \in Words |-> [c \in Bit |-> NotCarry(a[i], c)]]
           Rhs(f) == [i \in 0..4 |->
                        IF i = 0 THEN 1
                        ELSE IF f[i-1] = 1 /\ (BitNot(a[i-1]) + 1) % Base = 0 THEN 1 ELSE 0]
           carry == CHOOSE f : f = Rhs(f)
           s == [i \in Words |-> (BitNot(a[i]) + carry[i]) % Base]
<1>0. \A i \in Words : a[i] \in Word
  BY DEF U128s
<1>1. g \in [Words -> [Bit -> Bit]] /\ \A i \in Words, c \in Bit : g[i][c] = NotCarry(a[i], c)
  BY <1>0, NotWord
<1> HIDE DEF g
<1>2. PICK h \in [0..4 -> Bit] : h[0] = 1 /\ \A i \in 1..4 : h[i] = g[i - 1][h[i - 1]]
  BY <1>1, CarriesExist DEF Bit
<1>3. \A i \in 1..4 : h[i] = NotCarry(a[i - 1], h[i - 1])
  <2> SUFFICES ASSUME NEW i \in 1..4 PROVE h[i] = NotCarry(a[i - 1], h[i - 1])
    OBVIOUS
  <2>1. i - 1 \in Words /\ h[i - 1] \in Bit
    BY DEF Words
  <2> QED BY <1>1, <1>2, <2>1
<1>4. h = Rhs(h)
  <2>1. ASSUME NEW i \in 0..4 PROVE h[i] = Rhs(h)[i]
    <3>1. CASE i = 0
      BY <1>2, <3>1
    <3>2. CASE i # 0
      <4>1. i \in 1..4
        BY <3>2
      <4> QED BY <1>3, <3>2, <4>1 DEF NotCarry
    <3> QED BY <3>1, <3>2
  <2> QED BY <2>1
<1>5. carry = Rhs(carry)
  BY <1>4
<1>6. u128_minus(a) = s
  BY DEF u128_minus
<1> HIDE DEF carry
<1>7. carry[0] = 1 /\ \A i \in Words : carry[i + 1] = NotCarry(a[i], carry[i])
  <2>1. \A i \in 0..4 : carry[i] = IF i = 0 THEN 1 ELSE NotCarry(a[i-1], carry[i-1])
    BY <1>5 DEF NotCarry
  <2>2. carry[0] = 1
    BY <2>1
  <2>3. ASSUME NEW i \in Words PROVE carry[i + 1] = NotCarry(a[i], carry[i])
    <3>1. PICK j \in 0..4 : j = i + 1 /\ j # 0 /\ j - 1 = i
      BY DEF Words
    <3>2. carry[j] = NotCarry(a[j-1], carry[j-1])
      BY <2>1, <3>1
    <3> QED BY <3>1, <3>2
  <2> QED BY <2>2, <2>3
<1>8. carry \in [0..4 -> Bit]
  <2>1. DOMAIN carry = 0..4 /\ carry = [i \in 0..4 |-> carry[i]]
    BY <1>5
  <2>2. \A i \in 0..4 : carry[i] \in Bit
    BY <1>5 DEF Bit
  <2> QED BY <2>1, <2>2
<1>9. \A i \in Words : BitNot(a[i]) \in Int /\ a[i] \in Int /\ carry[i] \in Bit
  BY <1>0, <1>8, NotWord, BaseAssumption DEF Word, Words, BitNot
<1>10. s \in U128s
  <2>1. \A i \in Words : BitNot(a[i]) + carry[i] \in Int
    BY <1>9 DEF Bit
  <2>2. \A i \in Words : (BitNot(a[i]) + carry[i]) % Base \in Word
    BY <2>1, ModBase
  <2> QED BY <2>2 DEF U128s
<1>11. \A i \in Words : BitNot(a[i]) + carry[i] = s[i] + carry[i + 1] * Base
  BY <1>0, <1>7, <1>9, NotWord
<1> HIDE DEF s
<1> DEFINE x == [i \in Words |-> BitNot(a[i])]
<1>12. -Val(a) = Val(s) + (carry[4] - 1) * Size
  <2>1. x \in [Words -> Int] /\ \A i \in Words : x[i] = BitNot(a[i])
    BY <1>9
  <2>2. carry \in [0..4 -> Int] /\ \A i \in Words : x[i] + carry[i] = s[i] + carry[i + 1] * Base
    BY <1>8, <1>11, <2>1 DEF Bit
  <2> HIDE DEF x
  <2>3. x[0] + Base * (x[1] + Base * (x[2] + Base * x[3])) + carry[0] = Val(s) + carry[4] * Size
    BY <1>10, <2>1, <2>2, Carried
  <2>4. /\ x[0] = Base - 1 - a[0] /\ x[1] = Base - 1 - a[1]
        /\ x[2] = Base - 1 - a[2] /\ x[3] = Base - 1 - a[3]
    BY <2>1 DEF Words, BitNot
  <2>5. PICK a0, a1, a2, a3 \in Int : a0 = a[0] /\ a1 = a[1] /\ a2 = a[2] /\ a3 = a[3]
    BY <1>9 DEF Words
  <2>6. (Base - 1 - a0) + Base * ((Base - 1 - a1) + Base * ((Base - 1 - a2) + Base * (Base - 1 - a3))) + 1
          = Base * (Base * (Base * Base)) - (a0 + Base * (a1 + Base * (a2 + Base * a3)))
    BY BaseAssumption
  <2>7. Size - Val(a) = Val(s) + carry[4] * Size
    BY <1>7, <2>3, <2>4, <2>5, <2>6 DEF Val, Size
  <2>8. PICK v \in Int, w \in Int, z \in Int, k \in Int :
          v = Val(a) /\ w = Val(s) /\ z = Size /\ k = carry[4]
    BY <1>10, <2>2, ValRange
  <2>9. z - v = w + k * z => -v = w + (k - 1) * z
    OBVIOUS
  <2> QED BY <2>7, <2>8, <2>9
<1>13. Val(s) = (-Val(a)) % Size
  <2>1. PICK k \in Int : k = carry[4] - 1
    BY <1>8 DEF Bit
  <2> QED BY <1>10, <1>12, <2>1, Wraps
<1> QED BY <1>6, <1>10, <1>13

-----------------------------------------------------------------------------

(* u128_add_32: the carry goes on while the words above overflow, and the  *)
(* result is the sum modulo 2^128.                                         *)
THEOREM Add32Exact ==
  ASSUME NEW a \in U128s, NEW n \in Word
  PROVE  u128_add_32(a, n) \in U128s /\ Val(u128_add_32(a, n)) = (Val(a) + n) % Size
<1> DEFINE low == (a[0] + n) % Base
           Goes(i) == low < n /\ \A j \in 1..(i - 1) : a[j] = Base - 1
           s == [i \in Words |->
                   IF i = 0 THEN low ELSE IF Goes(i) THEN (a[i] + 1) % Base ELSE a[i]]
           c == [i \in 0..4 |-> IF i = 0 THEN n ELSE IF Goes(i) THEN 1 ELSE 0]
<1>1. Base \in Nat \ {0, 1} /\ n \in Nat /\ n < Base
  BY BaseAssumption DEF Word
<1>2. \A i \in Words : a[i] \in Nat /\ a[i] < Base /\ a[i] \in Word
  BY <1>1 DEF U128s, Word
<1>3. u128_add_32(a, n) = s
  BY DEF u128_add_32
<1>4. a[0] + n = low + (IF low < n THEN 1 ELSE 0) * Base /\ low \in Word
  <2>1. a[0] \in Nat /\ a[0] < Base
    BY <1>2 DEF Words
  <2>2. CASE a[0] + n < Base
    <3>1. low = a[0] + n
      BY <1>1, <2>1, <2>2, ModBase
    <3> QED BY <1>1, <2>1, <2>2, <3>1 DEF Word
  <2>3. CASE a[0] + n >= Base
    <3>1. low = a[0] + n - Base
      BY <1>1, <2>1, <2>3, ModBase
    <3> QED BY <1>1, <2>1, <2>3, <3>1 DEF Word
  <2> QED BY <1>1, <2>1, <2>2, <2>3
<1> HIDE DEF low
<1>5. Goes(1) <=> low < n
  OBVIOUS
<1>6. ASSUME NEW i \in 1..3 PROVE Goes(i + 1) <=> Goes(i) /\ a[i] = Base - 1
  <2>1. 1..(i + 1 - 1) = 1..(i - 1) \cup {i}
    OBVIOUS
  <2> QED BY <2>1
<1> HIDE DEF Goes
<1>7. ASSUME NEW i \in 1..3
      PROVE  /\ s[i] \in Word
             /\ a[i] + c[i] = s[i] + c[i + 1] * Base
  <2>1. i \in Words /\ i # 0 /\ i \in 0..4 /\ i + 1 \in 0..4 /\ i + 1 # 0
    BY DEF Words
  <2>2. s[i] = (IF Goes(i) THEN (a[i] + 1) % Base ELSE a[i])
        /\ c[i] = (IF Goes(i) THEN 1 ELSE 0) /\ c[i + 1] = (IF Goes(i + 1) THEN 1 ELSE 0)
    BY <2>1
  <2>3. a[i] \in Nat /\ a[i] < Base /\ a[i] \in Word
    BY <1>2, <2>1
  <2>4. CASE ~Goes(i)
    <3>1. s[i] = a[i] /\ c[i] = 0 /\ c[i + 1] = 0
      BY <1>6, <2>2, <2>4
    <3> QED BY <1>1, <2>3, <3>1
  <2>5. CASE Goes(i) /\ a[i] = Base - 1
    <3>1. (a[i] + 1) % Base = 0
      <4>1. Base % Base = 0
        BY <1>1, ModBase
      <4> QED BY <1>1, <2>5, <4>1
    <3>2. s[i] = 0 /\ c[i] = 1 /\ c[i + 1] = 1
      BY <1>6, <2>2, <2>5, <3>1
    <3>3. Base - 1 + 1 = 0 + 1 * Base /\ 0 \in Word
      BY <1>1 DEF Word
    <3> QED BY <2>5, <3>2, <3>3
  <2>6. CASE Goes(i) /\ a[i] # Base - 1
    <3>1. (a[i] + 1) % Base = a[i] + 1
      BY <1>1, <2>3, <2>6, ModBase
    <3>2. s[i] = a[i] + 1 /\ c[i] = 1 /\ c[i + 1] = 0
      BY <1>6, <2>2, <2>6, <3>1
    <3> QED BY <1>1, <2>3, <2>6, <3>2 DEF Word
  <2> QED BY <2>4, <2>5, <2>6
<1>8. s[0] = low /\ c[0] = n /\ c[1] = (IF low < n THEN 1 ELSE 0)
  BY <1>5 DEF Words
<1>9. s \in U128s
  <2>1. \A i \in Words : i = 0 \/ i \in 1..3
    BY DEF Words
  <2>2. \A i \in Words : s[i] \in Word
    BY <1>4, <1>7, <1>8, <2>1
  <2>3. s = [i \in Words |-> s[i]]
    OBVIOUS
  <2> HIDE DEF s
  <2> QED BY <2>2, <2>3 DEF U128s
<1>10. c \in [0..4 -> Int]
  BY <1>1
<1> HIDE DEF s, c
<1>11. \A i \in Words : a[i] + c[i] = s[i] + c[i + 1] * Base
  <2>1. \A i \in Words : i = 0 \/ i \in 1..3
    BY DEF Words
  <2>2. a[0] + c[0] = s[0] + c[0 + 1] * Base
    BY <1>4, <1>8
  <2> QED BY <1>7, <2>1, <2>2
<1>12. a \in [Words -> Int]
  BY <1>1 DEF U128s, Word
<1>13. Val(a) + n = Val(s) + c[4] * Size
  BY <1>8, <1>9, <1>10, <1>11, <1>12, Carried DEF Val
<1>14. Val(s) = (Val(a) + n) % Size
  BY <1>9, <1>10, <1>13, Wraps
<1> QED BY <1>3, <1>9, <1>14

(* u128_sub_32: the borrow goes on while the words above are zero, and the *)
(* result is the difference modulo 2^128.                                  *)
THEOREM Sub32Exact ==
  ASSUME NEW a \in U128s, NEW n \in Word
  PROVE  u128_sub_32(a, n) \in U128s /\ Val(u128_sub_32(a, n)) = (Val(a) - n) % Size
<1> DEFINE low == (a[0] - n) % Base
           Goes(i) == a[0] < n /\ \A j \in 1..(i - 1) : a[j] = 0
           s == [i \in Words |->
                   IF i = 0 THEN low ELSE IF Goes(i) THEN (a[i] - 1) % Base ELSE a[i]]
           c == [i \in 0..4 |-> IF i = 0 THEN -n ELSE IF Goes(i) THEN -1 ELSE 0]
<1>1. Base \in Nat \ {0, 1} /\ n \in Nat /\ n < Base
  BY BaseAssumption DEF Word
<1>2. \A i \in Words : a[i] \in Nat /\ a[i] < Base /\ a[i] \in Word
  BY <1>1 DEF U128s, Word
<1>3. u128_sub_32(a, n) = s
  BY DEF u128_sub_32
<1>4. a[0] + (-n) = low + (IF a[0] < n THEN -1 ELSE 0) * Base /\ low \in Word
  <2>1. a[0] \in Nat /\ a[0] < Base
    BY <1>2 DEF Words
  <2>2. CASE a[0] >= n
    <3>1. low = a[0] - n
      BY <1>1, <2>1, <2>2, ModBase
    <3> QED BY <1>1, <2>1, <2>2, <3>1 DEF Word
  <2>3. CASE a[0] < n
    <3>0. a[0] - n \in (-Base)..(-1)
      BY <1>1, <2>1, <2>3
    <3>1. low = a[0] - n + Base
      BY <3>0, ModBase
    <3> QED BY <1>1, <2>1, <2>3, <3>1 DEF Word
  <2> QED BY <1>1, <2>1, <2>2, <2>3
<1> HIDE DEF low
<1>5. Goes(1) <=> a[0] < n
  OBVIOUS
<1>6. ASSUME NEW i \in 1..3 PROVE Goes(i + 1) <=> Goes(i) /\ a[i] = 0
  <2>1. 1..(i + 1 - 1) = 1..(i - 1) \cup {i}
    OBVIOUS
  <2> QED BY <2>1
<1> HIDE DEF Goes
<1>7. ASSUME NEW i \in 1..3
      PROVE  /\ s[i] \in Word
             /\ a[i] + c[i] = s[i] + c[i + 1] * Base
  <2>1. i \in Words /\ i # 0 /\ i \in 0..4 /\ i + 1 \in 0..4 /\ i + 1 # 0
    BY DEF Words
  <2>2. s[i] = (IF Goes(i) THEN (a[i] - 1) % Base ELSE a[i])
        /\ c[i] = (IF Goes(i) THEN -1 ELSE 0) /\ c[i + 1] = (IF Goes(i + 1) THEN -1 ELSE 0)
    BY <2>1
  <2>3. a[i] \in Nat /\ a[i] < Base /\ a[i] \in Word
    BY <1>2, <2>1
  <2>4. CASE ~Goes(i)
    <3>1. s[i] = a[i] /\ c[i] = 0 /\ c[i + 1] = 0
      BY <1>6, <2>2, <2>4
    <3> QED BY <1>1, <2>3, <3>1
  <2>5. CASE Goes(i) /\ a[i] = 0
    <3>0. a[i] - 1 = -1 /\ -1 \in (-Base)..(-1)
      BY <1>1, <2>5
    <3>1. (a[i] - 1) % Base = Base - 1
      <4>1. (-1) % Base = -1 + Base
        BY <3>0, ModBase
      <4> QED BY <1>1, <3>0, <4>1
    <3>2. s[i] = Base - 1 /\ c[i] = -1 /\ c[i + 1] = -1
      BY <1>6, <2>2, <2>5, <3>1
    <3>3. 0 + (-1) = Base - 1 + (-1) * Base /\ Base - 1 \in Word
      BY <1>1 DEF Word
    <3> QED BY <2>5, <3>2, <3>3
  <2>6. CASE Goes(i) /\ a[i] # 0
    <3>1. (a[i] - 1) % Base = a[i] - 1
      BY <1>1, <2>3, <2>6, ModBase
    <3>2. s[i] = a[i] - 1 /\ c[i] = -1 /\ c[i + 1] = 0
      BY <1>6, <2>2, <2>6, <3>1
    <3> QED BY <1>1, <2>3, <2>6, <3>2 DEF Word
  <2> QED BY <2>4, <2>5, <2>6
<1>8. s[0] = low /\ c[0] = -n /\ c[1] = (IF a[0] < n THEN -1 ELSE 0)
  BY <1>5 DEF Words
<1>9. s \in U128s
  <2>1. \A i \in Words : i = 0 \/ i \in 1..3
    BY DEF Words
  <2>2. \A i \in Words : s[i] \in Word
    BY <1>4, <1>7, <1>8, <2>1
  <2>3. s = [i \in Words |-> s[i]]
    OBVIOUS
  <2> HIDE DEF s
  <2> QED BY <2>2, <2>3 DEF U128s
<1>10. c \in [0..4 -> Int]
  BY <1>1
<1> HIDE DEF s, c
<1>11. \A i \in Words : a[i] + c[i] = s[i] + c[i + 1] * Base
  <2>1. \A i \in Words : i = 0 \/ i \in 1..3
    BY DEF Words
  <2>2. a[0] + c[0] = s[0] + c[0 + 1] * Base
    BY <1>4, <1>8
  <2> QED BY <1>7, <2>1, <2>2
<1>12. a \in [Words -> Int]
  BY <1>1 DEF U128s, Word
<1>13. Val(a) - n = Val(s) + c[4] * Size
  <2>1. Val(a) + (-n) = Val(s) + c[4] * Size
    BY <1>8, <1>9, <1>10, <1>11, <1>12, Carried DEF Val
  <2>2. Val(a) \in Int
    BY ValRange
  <2> QED BY <1>1, <2>1, <2>2
<1>14. Val(s) = (Val(a) - n) % Size
  BY <1>9, <1>10, <1>13, Wraps
<1> QED BY <1>3, <1>9, <1>14

(* The inversion of all words, the tests of the words above the lowest,    *)
(* and the conversion of a word say what they should of the number.        *)
THEOREM TestsExact ==
  ASSUME NEW a \in U128s, NEW n \in Word
  PROVE  /\ u128_not(a) \in U128s /\ Val(u128_not(a)) = Size - 1 - Val(a)
         /\ u128_from_32(n) \in U128s /\ Val(u128_from_32(n)) = n
         /\ u128_is_zero(a) <=> Val(a) = 0
         /\ u128_is_32(a) <=> Val(a) < Base
<1>1. Base \in Nat \ {0, 1} /\ n \in Nat /\ n < Base /\ 0 \in Word
  BY BaseAssumption DEF Word
<1>2. PICK a0, a1, a2, a3 \in Nat :
        /\ a0 = a[0] /\ a1 = a[1] /\ a2 = a[2] /\ a3 = a[3]
        /\ a0 < Base /\ a1 < Base /\ a2 < Base /\ a3 < Base
  BY WordFacts
<1>3. u128_not(a) \in U128s /\ Val(u128_not(a)) = Size - 1 - Val(a)
  <2>1. \A x \in Word : Base - 1 - x \in Word
    BY <1>1 DEF Word
  <2>2. u128_not(a) \in U128s
    BY <2>1 DEF u128_not, BitNot, U128s
  <2>3. Val(u128_not(a)) = (Base - 1 - a0) + Base * ((Base - 1 - a1) + Base * ((Base - 1 - a2) + Base * (Base - 1 - a3)))
    BY <1>2 DEF u128_not, BitNot, Words, Val
  <2>4. (Base - 1 - a0) + Base * ((Base - 1 - a1) + Base * ((Base - 1 - a2) + Base * (Base - 1 - a3)))
        = Base * (Base * (Base * Base)) - 1 - (a0 + Base * (a1 + Base * (a2 + Base * a3)))
    BY <1>1
  <2>5. Size = Base * (Base * (Base * Base)) /\ Val(a) = a0 + Base * (a1 + Base * (a2 + Base * a3))
    BY <1>2 DEF Val, Size
  <2> QED BY <2>2, <2>3, <2>4, <2>5
<1>4. u128_from_32(n) \in U128s /\ Val(u128_from_32(n)) = n
  <2>1. u128_from_32(n) \in U128s
    BY <1>1 DEF u128_from_32, U128s
  <2>2. Val(u128_from_32(n)) = n + Base * (0 + Base * (0 + Base * 0))
    BY DEF u128_from_32, Words, Val
  <2> QED BY <1>1, <2>1, <2>2
<1>5. PICK z \in Nat : z = a1 + Base * (a2 + Base * a3) /\ (z = 0 <=> a1 = 0 /\ a2 = 0 /\ a3 = 0)
  <2>1. \A x, y \in Nat : x + Base * y \in Nat /\ (x + Base * y = 0 <=> x = 0 /\ y = 0)
    <3> SUFFICES ASSUME NEW x \in Nat, NEW y \in Nat
                 PROVE  x + Base * y \in Nat /\ (x + Base * y = 0 <=> x = 0 /\ y = 0)
      OBVIOUS
    <3>1. Base * y \in Nat /\ (y # 0 => Base * y >= Base)
      BY <1>1
    <3>2. Base * 0 = 0
      BY <1>1
    <3> QED BY <1>1, <3>1, <3>2
  <2>2. PICK y \in Nat : y = a2 + Base * a3 /\ (y = 0 <=> a2 = 0 /\ a3 = 0)
    BY <2>1
  <2> QED BY <2>1, <2>2
<1>6. Val(a) = a0 + Base * z
  BY <1>2, <1>5 DEF Val
<1>7. Base * z \in Nat /\ (z # 0 => Base * z >= Base) /\ (z = 0 => Base * z = 0)
  BY <1>1
<1>8. u128_is_32(a) <=> z = 0
  BY <1>2, <1>5 DEF u128_is_32, Words
<1>9. u128_is_zero(a) <=> a0 = 0 /\ z = 0
  BY <1>2, <1>5 DEF u128_is_zero, Words
<1>10. Val(a) = 0 <=> a0 = 0 /\ z = 0
  BY <1>1, <1>6, <1>7
<1>11. Val(a) < Base <=> z = 0
  BY <1>1, <1>2, <1>6, <1>7
<1> QED BY <1>3, <1>4, <1>8, <1>9, <1>10, <1>11

=============================================================================
