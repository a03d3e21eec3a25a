-------------------------- MODULE TimerQueueProofs -------------------------
(***************************************************************************)
(* Proofs about TimerQueue, for every set of timers, every set of times    *)
(* and every UJ: the list stays ordered, no timer is overdue, the clock    *)
(* never goes backward, advance_time is complete, and the list implements  *)
(* an event calendar.                                                      *)
(***************************************************************************)
EXTENDS TimerQueue, SequenceTheorems, TLAPS

(* Inserting at position k of a sequence: what InsertAt of SequencesExt,   *)
(* the link step of add_hires_timer, yields.                               *)
LEMMA InsertAtFacts ==
  ASSUME NEW S, NEW s \in Seq(S), NEW e \in S, NEW k \in 1..(Len(s) + 1)
  PROVE  /\ InsertAt(s, k, e) \in Seq(S)
         /\ Len(InsertAt(s, k, e)) = Len(s) + 1
         /\ \A i \in 1..(Len(s) + 1) :
              InsertAt(s, k, e)[i] = IF i < k THEN s[i]
                                     ELSE IF i = k THEN e ELSE s[i - 1]
<1> DEFINE a == SubSeq(s, 1, k - 1)
           b == SubSeq(s, k, Len(s))
<1>0. Len(s) \in Nat
  BY LenProperties
<1>1. a \in Seq(S) /\ Len(a) = k - 1 /\ \A i \in 1..(k - 1) : a[i] = s[i]
  BY <1>0, SubSeqProperties, ElementOfSeq
<1>2. /\ b \in Seq(S)
      /\ Len(b) = Len(s) - k + 1
      /\ \A i \in 1..(Len(s) - k + 1) : b[i] = s[k + i - 1]
  BY <1>0, SubSeqProperties, ElementOfSeq
<1>3. <<e>> \in Seq(S) /\ Len(<<e>>) = 1 /\ <<e>>[1] = e
  OBVIOUS
<1> DEFINE c == a \o <<e>>
<1>4. /\ c \in Seq(S)
      /\ Len(c) = k
      /\ \A i \in 1..k : c[i] = IF i < k THEN s[i] ELSE e
  BY <1>0, <1>1, <1>3, ConcatProperties
<1> HIDE DEF a, b, c
<1>5. /\ c \o b \in Seq(S)
      /\ Len(c \o b) = Len(s) + 1
      /\ \A i \in 1..(Len(s) + 1) :
           (c \o b)[i] = IF i <= k THEN c[i] ELSE b[i - k]
  <2>1. /\ c \o b \in Seq(S)
        /\ Len(c \o b) = Len(c) + Len(b)
        /\ \A i \in 1..(Len(c) + Len(b)) :
             (c \o b)[i] = IF i <= Len(c) THEN c[i] ELSE b[i - Len(c)]
    BY <1>2, <1>4, ConcatProperties
  <2>2. Len(c) = k /\ Len(c) + Len(b) = Len(s) + 1
    BY <1>0, <1>2, <1>4
  <2> QED BY <2>1, <2>2
<1>6. InsertAt(s, k, e) = c \o b
  BY DEF InsertAt, a, b, c
<1>7. \A i \in 1..(Len(s) + 1) :
        InsertAt(s, k, e)[i] = IF i < k THEN s[i]
                               ELSE IF i = k THEN e ELSE s[i - 1]
  BY <1>0, <1>2, <1>4, <1>5, <1>6
<1> QED BY <1>5, <1>6, <1>7

(* Removing position k of a sequence: what RemoveAt of SequencesExt, the   *)
(* unlink step of del_timer, yields.                                       *)
LEMMA RemoveAtFacts ==
  ASSUME NEW S, NEW s \in Seq(S), NEW k \in 1..Len(s)
  PROVE  /\ RemoveAt(s, k) \in Seq(S)
         /\ Len(RemoveAt(s, k)) = Len(s) - 1
         /\ \A i \in 1..(Len(s) - 1) :
              RemoveAt(s, k)[i] = IF i < k THEN s[i] ELSE s[i + 1]
<1> DEFINE a == SubSeq(s, 1, k - 1)
           b == SubSeq(s, k + 1, Len(s))
<1>0. Len(s) \in Nat
  BY LenProperties
<1>1. a \in Seq(S) /\ Len(a) = k - 1 /\ \A i \in 1..(k - 1) : a[i] = s[i]
  BY <1>0, SubSeqProperties, ElementOfSeq
<1>2. /\ b \in Seq(S)
      /\ Len(b) = Len(s) - k
      /\ \A i \in 1..(Len(s) - k) : b[i] = s[k + i]
  BY <1>0, SubSeqProperties, ElementOfSeq
<1> HIDE DEF a, b
<1>3. /\ a \o b \in Seq(S)
      /\ Len(a \o b) = Len(s) - 1
      /\ \A i \in 1..(Len(s) - 1) :
           (a \o b)[i] = IF i <= k - 1 THEN a[i] ELSE b[i - (k - 1)]
  <2>1. /\ a \o b \in Seq(S)
        /\ Len(a \o b) = Len(a) + Len(b)
        /\ \A i \in 1..(Len(a) + Len(b)) :
             (a \o b)[i] = IF i <= Len(a) THEN a[i] ELSE b[i - Len(a)]
    BY <1>1, <1>2, ConcatProperties
  <2>2. Len(a) = k - 1 /\ Len(a) + Len(b) = Len(s) - 1
    BY <1>0, <1>1, <1>2
  <2> QED BY <2>1, <2>2
<1>4. RemoveAt(s, k) = a \o b
  BY DEF RemoveAt, a, b
<1>5. \A i \in 1..(Len(s) - 1) :
        RemoveAt(s, k)[i] = IF i < k THEN s[i] ELSE s[i + 1]
  BY <1>0, <1>1, <1>2, <1>3, <1>4
<1> QED BY <1>3, <1>4, <1>5

(* Any two expiry times are ordered one way or the other.                  *)
LEMMA CompareFacts ==
  ASSUME NEW a, NEW b, NEW c,
         a.jiffies \in Nat, a.ujiffies \in Nat,
         b.jiffies \in Nat, b.ujiffies \in Nat,
         c.jiffies \in Nat, c.ujiffies \in Nat
  PROVE  /\ ~timer_le(a, b) <=> timer_lt(b, a)
         /\ timer_lt(a, b) => timer_le(a, b)
         /\ timer_le(a, b) /\ timer_le(b, c) => timer_le(a, c)
         /\ timer_lt(a, b) /\ timer_le(b, c) => timer_lt(a, c)
         /\ timer_le(a, b) /\ timer_lt(b, c) => timer_lt(a, c)
         /\ timer_le(a, b) => \/ timer_lt(a, b)
                              \/ a.jiffies = b.jiffies /\ a.ujiffies = b.ujiffies
  BY DEF timer_le, timer_lt

(* What add_hires_timer relies on and keeps: linking a new timer where the *)
(* walk stops leaves the list ordered, without duplicates and not overdue. *)
LEMMA InsertKeepsList ==
  ASSUME NEW list \in Seq(Entry), NEW n \in Nat, NEW t \in Jiffval,
         NEW e \in Entry, e.added = n,
         NEW u, u.jiffies = e.jiffies, u.ujiffies = e.ujiffies,
         NEW k \in 1..(Len(list) + 1), WalkStop(list, u, k),
         Ordered(list), Distinct(list), NoneBefore(list, t), Stamped(list, n),
         \A i \in 1..Len(list) : list[i].id # e.id,
         timer_le(t, u)
  PROVE  /\ InsertAt(list, k, e) \in Seq(Entry)
         /\ Ordered(InsertAt(list, k, e))
         /\ Distinct(InsertAt(list, k, e))
         /\ NoneBefore(InsertAt(list, k, e), t)
         /\ Stamped(InsertAt(list, k, e), n + 1)
<1> DEFINE r == InsertAt(list, k, e)
<1>0. Len(list) \in Nat /\ \A i \in 1..Len(list) : list[i] \in Entry
  BY ElementOfSeq, LenProperties
<1>1. /\ r \in Seq(Entry)
      /\ Len(r) = Len(list) + 1
      /\ \A i \in 1..(Len(list) + 1) :
           r[i] = IF i < k THEN list[i] ELSE IF i = k THEN e ELSE list[i - 1]
  BY InsertAtFacts
<1> HIDE DEF r
<1>2. ASSUME NEW x \in 1..Len(r), x < k
      PROVE  x \in 1..Len(list) /\ r[x] = list[x]
  <2>1. x \in 1..(Len(list) + 1) /\ x \in 1..Len(list)
    BY <1>0, <1>1, <1>2
  <2> QED BY <1>1, <1>2, <2>1
<1>3. k \in 1..Len(r) /\ r[k] = e
  <2>1. ~(k < k)
    BY <1>0
  <2> QED BY <1>1, <2>1
<1>4. ASSUME NEW x \in 1..Len(r), x > k
      PROVE  x - 1 \in 1..Len(list) /\ r[x] = list[x - 1]
  <2>1. x \in 1..(Len(list) + 1) /\ x - 1 \in 1..Len(list) /\ ~(x < k) /\ x # k
    BY <1>0, <1>1, <1>4
  <2> QED BY <1>1, <2>1
<1>5. \A x \in 1..Len(r) : x \in Int
  BY <1>0, <1>1
<1>6. e.jiffies \in Nat /\ e.ujiffies \in Nat
  BY DEF Entry
<1>7. \A x \in 1..Len(list) : /\ list[x].jiffies \in Nat
                              /\ list[x].ujiffies \in Nat
                              /\ list[x].added \in Nat
  BY <1>0 DEF Entry
<1>8. Ordered(r)
  <2> SUFFICES ASSUME NEW i \in 1..Len(r), NEW j \in 1..Len(r), i < j
               PROVE  Before(r[i], r[j])
    BY DEF Ordered
  <2>1. CASE j < k
    <3>1. i < k
      BY <1>5, <2>1
    <3> QED BY <1>2, <2>1, <3>1 DEF Ordered
  <2>2. CASE j = k
    <3>1. i < k /\ i \in 1..(k - 1)
      BY <1>5, <2>2
    <3>2. i \in 1..Len(list) /\ r[i] = list[i]
      BY <1>2, <3>1
    <3>3. timer_le(list[i], u) /\ list[i].added < n
      BY <3>1, <3>2 DEF WalkStop, Stamped
    <3>4. \/ timer_lt(list[i], e)
          \/ list[i].jiffies = e.jiffies /\ list[i].ujiffies = e.ujiffies
      BY <1>6, <1>7, <3>2, <3>3 DEF timer_le, timer_lt
    <3>5. Before(list[i], e)
      BY <3>3, <3>4 DEF Before, At, JV
    <3> QED BY <1>3, <2>2, <3>2, <3>5
  <2>3. CASE i = k
    <3>1. j > k
      BY <2>3
    <3>2. j - 1 \in 1..Len(list) /\ r[j] = list[j - 1]
      BY <1>4, <3>1
    <3>3. k \in 1..Len(list) /\ (k = j - 1 \/ k < j - 1)
      BY <1>0, <1>5, <3>1, <3>2
    <3>4. ~timer_le(list[k], u)
      BY <1>0, <3>3 DEF WalkStop
    <3>5. timer_lt(e, list[k])
      BY <1>6, <1>7, <3>3, <3>4 DEF timer_lt, timer_le
    <3>6. k = j - 1 \/ Before(list[k], list[j - 1])
      BY <3>2, <3>3 DEF Ordered
    <3>7. timer_le(list[k], list[j - 1])
      BY <1>7, <3>2, <3>3, <3>6 DEF Before, At, JV, timer_le, timer_lt
    <3>8. timer_lt(e, list[j - 1])
      <4>1. /\ list[k].jiffies \in Nat /\ list[k].ujiffies \in Nat
            /\ list[j - 1].jiffies \in Nat /\ list[j - 1].ujiffies \in Nat
        BY <1>7, <3>2, <3>3
      <4> QED BY <1>6, <3>5, <3>7, <4>1, CompareFacts
    <3> QED BY <1>3, <2>3, <3>2, <3>8 DEF Before
  <2>4. CASE i < k /\ j > k
    <3>1. i \in 1..Len(list) /\ r[i] = list[i]
      BY <1>2, <2>4
    <3>2. j - 1 \in 1..Len(list) /\ r[j] = list[j - 1]
      BY <1>4, <2>4
    <3>3. i < j - 1
      BY <1>5, <2>4
    <3> QED BY <3>1, <3>2, <3>3 DEF Ordered
  <2>5. CASE i > k
    <3>0. j > k
      BY <1>5, <2>5
    <3>1. i - 1 \in 1..Len(list) /\ r[i] = list[i - 1]
      BY <1>4, <2>5
    <3>2. j - 1 \in 1..Len(list) /\ r[j] = list[j - 1]
      BY <1>4, <3>0
    <3>3. i - 1 < j - 1
      BY <1>5
    <3> QED BY <3>1, <3>2, <3>3 DEF Ordered
  <2> QED BY <1>5, <2>1, <2>2, <2>3, <2>4, <2>5
<1>9. \A x \in 1..Len(r) : x # k =>
        \E y \in 1..Len(list) : /\ r[x] = list[y]
                                /\ x < k => y = x
                                /\ x > k => y = x - 1
  <2> TAKE x \in 1..Len(r)
  <2> HAVE x # k
  <2>1. CASE x < k
    <3>1. ~(x > k)
      BY <1>5, <2>1
    <3> QED BY <1>2, <2>1, <3>1
  <2>2. CASE x > k
    <3>1. ~(x < k)
      BY <1>5, <2>2
    <3> QED BY <1>4, <2>2, <3>1
  <2> QED BY <1>5, <2>1, <2>2
<1>10. Distinct(r)
  <2> SUFFICES ASSUME NEW i \in 1..Len(r), NEW j \in 1..Len(r), r[i].id = r[j].id
               PROVE  i = j
    BY DEF Distinct
  <2>1. CASE i = k \/ j = k
    BY <1>3, <1>9, <2>1
  <2>2. CASE i # k /\ j # k
    <3>1. PICK y \in 1..Len(list) : /\ r[i] = list[y]
                                    /\ i < k => y = i
                                    /\ i > k => y = i - 1
      BY <1>9, <2>2
    <3>2. PICK z \in 1..Len(list) : /\ r[j] = list[z]
                                    /\ j < k => z = j
                                    /\ j > k => z = j - 1
      BY <1>9, <2>2
    <3>3. y = z
      BY <3>1, <3>2 DEF Distinct
    <3> QED BY <1>5, <2>2, <3>1, <3>2, <3>3
  <2> QED BY <2>1, <2>2
<1>11. NoneBefore(r, t)
  <2> SUFFICES ASSUME NEW i \in 1..Len(r) PROVE timer_le(t, r[i])
    BY DEF NoneBefore
  <2>1. timer_le(t, e)
    BY DEF timer_le
  <2>2. CASE i = k
    BY <1>3, <2>1, <2>2
  <2>3. CASE i # k
    <3>1. PICK y \in 1..Len(list) : r[i] = list[y]
      BY <1>9, <2>3
    <3> QED BY <3>1 DEF NoneBefore
  <2> QED BY <2>2, <2>3
<1>12. Stamped(r, n + 1)
  <2> SUFFICES ASSUME NEW i \in 1..Len(r) PROVE r[i].added < n + 1
    BY DEF Stamped
  <2>1. \A x \in 1..Len(list) : list[x].added < n + 1
    BY <1>7 DEF Stamped
  <2>2. CASE i = k
    BY <1>3, <2>2
  <2>3. CASE i # k
    <3>1. PICK y \in 1..Len(list) : r[i] = list[y]
      BY <1>9, <2>3
    <3> QED BY <2>1, <3>1
  <2> QED BY <2>2, <2>3
<1> QED BY <1>1, <1>8, <1>10, <1>11, <1>12 DEF r

(* Unlinking keeps what the list promises, and the timer is gone.          *)
LEMMA RemoveKeepsList ==
  ASSUME NEW list \in Seq(Entry), NEW n \in Nat, NEW t \in Jiffval,
         NEW k \in 1..Len(list),
         Ordered(list), Distinct(list), NoneBefore(list, t), Stamped(list, n)
  PROVE  /\ RemoveAt(list, k) \in Seq(Entry)
         /\ Ordered(RemoveAt(list, k))
         /\ Distinct(RemoveAt(list, k))
         /\ NoneBefore(RemoveAt(list, k), t)
         /\ Stamped(RemoveAt(list, k), n)
         /\ \A i \in 1..Len(RemoveAt(list, k)) :
              RemoveAt(list, k)[i].id # list[k].id
<1> DEFINE r == RemoveAt(list, k)
           p(x) == IF x < k THEN x ELSE x + 1
<1>0. Len(list) \in Nat
  BY LenProperties
<1>1. r \in Seq(Entry) /\ Len(r) = Len(list) - 1
  BY RemoveAtFacts
<1>2. \A i \in 1..Len(r) : p(i) \in 1..Len(list) /\ p(i) # k /\ r[i] = list[p(i)]
  BY <1>0, <1>1, RemoveAtFacts
<1>3. \A i, j \in 1..Len(r) : (i < j => p(i) < p(j)) /\ (p(i) = p(j) => i = j)
  BY <1>0, <1>1
<1> HIDE DEF r, p
<1>4. Ordered(r)
  BY <1>2, <1>3 DEF Ordered
<1>5. Distinct(r)
  BY <1>2, <1>3 DEF Distinct
<1>6. NoneBefore(r, t) /\ Stamped(r, n)
  BY <1>2 DEF NoneBefore, Stamped
<1>7. \A i \in 1..Len(r) : r[i].id # list[k].id
  BY <1>2 DEF Distinct
<1> QED BY <1>1, <1>4, <1>5, <1>6, <1>7 DEF r

(* Running the first timer of the list: the rest of the list keeps its     *)
(* promises, and none of it expires before the timer that runs.            *)
LEMMA TailKeepsList ==
  ASSUME NEW list \in Seq(Entry), NEW n \in Nat, list # << >>,
         Ordered(list), Distinct(list), Stamped(list, n)
  PROVE  /\ Tail(list) \in Seq(Entry)
         /\ Ordered(Tail(list))
         /\ Distinct(Tail(list))
         /\ NoneBefore(Tail(list), At(Head(list)))
         /\ Stamped(Tail(list), n)
<1> DEFINE r == Tail(list)
<1>0. Len(list) \in Nat \ {0} /\ \A i \in 1..Len(list) : list[i] \in Entry
  BY ElementOfSeq, LenProperties, EmptySeq
<1>1. Head(list) = list[1] /\ 1 \in 1..Len(list)
  BY <1>0, HeadTailProperties
<1>2. r \in Seq(Entry) /\ Len(r) = Len(list) - 1 /\ \A i \in 1..Len(r) : r[i] = list[i + 1]
  BY <1>0, HeadTailProperties
<1> HIDE DEF r
<1>3. \A i \in 1..Len(r) : i + 1 \in 1..Len(list) /\ 1 < i + 1
  BY <1>0, <1>2
<1>4. \A i, j \in 1..Len(r) : (i < j => i + 1 < j + 1) /\ (i + 1 = j + 1 => i = j)
  BY <1>0, <1>2
<1>5. Ordered(r)
  BY <1>2, <1>3, <1>4 DEF Ordered
<1>6. Distinct(r)
  BY <1>2, <1>3, <1>4 DEF Distinct
<1>7. NoneBefore(r, At(list[1]))
  <2> SUFFICES ASSUME NEW i \in 1..Len(r) PROVE timer_le(At(list[1]), r[i])
    BY DEF NoneBefore
  <2>1. Before(list[1], r[i])
    BY <1>1, <1>2, <1>3 DEF Ordered
  <2>2. /\ list[1].jiffies \in Nat /\ list[1].ujiffies \in Nat
        /\ r[i].jiffies \in Nat /\ r[i].ujiffies \in Nat
    BY <1>0, <1>1, <1>2, <1>3 DEF Entry
  <2> QED BY <2>1, <2>2 DEF Before, At, JV, timer_lt, timer_le
<1>8. Stamped(r, n)
  BY <1>2, <1>3 DEF Stamped
<1> QED BY <1>1, <1>2, <1>5, <1>6, <1>7, <1>8 DEF r

-----------------------------------------------------------------------------

(* add_hires_timer preserves the inductive invariant on whatever list it   *)
(* is given, the one mod_timer has unlinked the timer from included.       *)
LEMMA InsertPreserves ==
  ASSUME IInv, NEW list \in Seq(Entry), NEW id \in Timers, NEW t \in Jiffval,
         Ordered(list), Distinct(list), NoneBefore(list, now), Stamped(list, adds),
         \A i \in 1..Len(list) : list[i].id # id,
         Insert(list, id, t)
  PROVE  IInv'
<1> USE DEF IInv
<1>1. CASE timer_lt(t, now)
  BY <1>1 DEF Insert, TypeOK, PCs, Sorted, NoneOverdue, TargetAhead
<1>2. CASE ~timer_lt(t, now)
  <2> DEFINE e == [id |-> id, jiffies |-> t.jiffies, ujiffies |-> t.ujiffies, added |-> adds]
  <2>1. t.jiffies \in Nat /\ t.ujiffies \in Nat /\ now.jiffies \in Nat /\ now.ujiffies \in Nat
    BY DEF TypeOK, Jiffval
  <2>2. e \in Entry /\ e.added = adds /\ e.id = id /\ t.jiffies = e.jiffies /\ t.ujiffies = e.ujiffies
    BY <2>1 DEF Entry, TypeOK
  <2>3. timer_le(now, t)
    BY <1>2, <2>1 DEF timer_lt, timer_le
  <2>4. PICK k \in 1..(Len(list) + 1) : WalkStop(list, t, k) /\ timers' = InsertAt(list, k, e)
    BY <1>2 DEF Insert
  <2>5. adds' = adds + 1 /\ now' = now /\ target' = target /\ pc' = pc
    BY <1>2 DEF Insert
  <2> HIDE DEF e
  <2>6. /\ timers' \in Seq(Entry)
        /\ Ordered(timers')
        /\ Distinct(timers')
        /\ NoneBefore(timers', now)
        /\ Stamped(timers', adds + 1)
    BY <2>2, <2>3, <2>4, InsertKeepsList DEF TypeOK
  <2>7. TypeOK'
    BY <2>5, <2>6 DEF TypeOK
  <2>8. Sorted' /\ NoneOverdue' /\ TargetAhead'
    BY <2>5, <2>6 DEF Sorted, NoneOverdue, TargetAhead, NoneBefore
  <2>9. Distinct(timers)' /\ Stamped(timers, adds)'
    BY <2>5, <2>6
  <2> QED BY <2>7, <2>8, <2>9
<1> QED BY <1>1, <1>2

(* What unlinking timer k leaves, in the terms InsertPreserves asks for.   *)
LEMMA UnlinkFacts ==
  ASSUME IInv, NEW k \in 1..Len(timers)
  PROVE  /\ RemoveAt(timers, k) \in Seq(Entry)
         /\ Ordered(RemoveAt(timers, k))
         /\ Distinct(RemoveAt(timers, k))
         /\ NoneBefore(RemoveAt(timers, k), now)
         /\ Stamped(RemoveAt(timers, k), adds)
         /\ \A i \in 1..Len(RemoveAt(timers, k)) :
              RemoveAt(timers, k)[i].id # timers[k].id
<1>1. timers \in Seq(Entry) /\ adds \in Nat /\ now \in Jiffval
  BY DEF IInv, TypeOK
<1>2. Ordered(timers) /\ Distinct(timers) /\ NoneBefore(timers, now) /\ Stamped(timers, adds)
  BY DEF IInv, Sorted, NoneOverdue
<1> QED BY <1>1, <1>2, RemoveKeepsList

(* add_timer and mod_timer pass whole jiffies.                             *)
LEMMA TimesFacts ==
  ASSUME NEW t \in Times
  PROVE  t \in Jiffval /\ JV(t.jiffies, 0) \in Jiffval
  BY TimesAssumption DEF Jiffval, JV

LEMMA AddPreserves ==
  ASSUME IInv, NEW id \in Timers \ Pending, NEW t \in Jiffval, AddHiresTimer(id, t)
  PROVE  IInv'
<1>1. timers \in Seq(Entry) /\ Ordered(timers) /\ Distinct(timers)
      /\ NoneBefore(timers, now) /\ Stamped(timers, adds)
  BY DEF IInv, TypeOK, Sorted, NoneOverdue
<1>2. \A i \in 1..Len(timers) : timers[i].id # id
  BY DEF Pending
<1>3. Insert(timers, id, t)
  BY DEF AddHiresTimer
<1> QED BY <1>1, <1>2, <1>3, InsertPreserves

LEMMA DelPreserves ==
  ASSUME IInv, NEW id \in Timers, DelTimer(id)
  PROVE  IInv'
<1>1. now' = now /\ pc' = pc /\ target' = target /\ adds' = adds
  BY DEF DelTimer
<1>2. CASE timers' = timers
  BY <1>1, <1>2 DEF IInv, TypeOK, Sorted, NoneOverdue, TargetAhead
<1>3. ASSUME NEW k \in 1..Len(timers), timers' = RemoveAt(timers, k)
      PROVE  IInv'
  <2>1. /\ timers' \in Seq(Entry) /\ Ordered(timers') /\ Distinct(timers')
        /\ NoneBefore(timers', now) /\ Stamped(timers', adds)
    BY <1>3, UnlinkFacts
  <2> QED BY <1>1, <2>1 DEF IInv, TypeOK, Sorted, NoneOverdue, TargetAhead
<1> QED BY <1>2, <1>3 DEF DelTimer

LEMMA ModPreserves ==
  ASSUME IInv, NEW id \in Timers, NEW t \in Times, ModTimer(id, t)
  PROVE  IInv'
<1> DEFINE w == JV(t.jiffies, 0)
<1>1. w \in Jiffval
  BY TimesFacts
<1> HIDE DEF w
<1>2. CASE id \notin Pending /\ Insert(timers, id, w)
  <2>1. timers \in Seq(Entry) /\ Ordered(timers) /\ Distinct(timers)
        /\ NoneBefore(timers, now) /\ Stamped(timers, adds)
    BY DEF IInv, TypeOK, Sorted, NoneOverdue
  <2>2. \A i \in 1..Len(timers) : timers[i].id # id
    BY <1>2 DEF Pending
  <2> QED BY <1>1, <1>2, <2>1, <2>2, InsertPreserves
<1>3. ASSUME NEW k \in 1..Len(timers), timers[k].id = id, Insert(RemoveAt(timers, k), id, w)
      PROVE  IInv'
  <2> DEFINE l == RemoveAt(timers, k)
  <2>1. /\ l \in Seq(Entry) /\ Ordered(l) /\ Distinct(l)
        /\ NoneBefore(l, now) /\ Stamped(l, adds)
        /\ \A i \in 1..Len(l) : l[i].id # id
    BY <1>3, UnlinkFacts
  <2>2. Insert(l, id, w)
    BY <1>3
  <2> HIDE DEF l
  <2> QED BY <1>1, <2>1, <2>2, InsertPreserves
<1> QED BY <1>2, <1>3 DEF ModTimer, w

LEMMA FirePreserves ==
  ASSUME IInv, Fire
  PROVE  IInv'
<1>1. /\ timers \in Seq(Entry) /\ timers # << >> /\ adds \in Nat
      /\ Ordered(timers) /\ Distinct(timers) /\ Stamped(timers, adds)
  BY DEF IInv, TypeOK, Sorted, Fire, Due
<1>2. /\ timers' = Tail(timers) /\ now' = At(Head(timers))
      /\ pc' = "callback" /\ target' = target /\ adds' = adds
      /\ timer_le(Head(timers), target)
  BY DEF Fire, Due
<1>3. /\ timers' \in Seq(Entry) /\ Ordered(timers') /\ Distinct(timers')
      /\ NoneBefore(timers', now') /\ Stamped(timers', adds)
  BY <1>1, <1>2, TailKeepsList
<1>4. Head(timers) \in Entry
  BY <1>1, HeadTailProperties, EmptySeq
<1>5. now' \in Jiffval /\ timer_le(now', target)
  BY <1>2, <1>4 DEF At, JV, Jiffval, Entry, timer_le
<1> QED BY <1>2, <1>3, <1>5 DEF IInv, TypeOK, PCs, Sorted, NoneOverdue, TargetAhead

(* advance_time ends only when the first timer, hence every timer of the   *)
(* ordered list, expires after the target.                                 *)
LEMMA FinishFacts ==
  ASSUME IInv, Finish
  PROVE  \A i \in 1..Len(timers) :
           timer_lt(target, timers[i]) /\ timer_le(target, timers[i])
<1> TAKE i \in 1..Len(timers)
<1>1. timers \in Seq(Entry) /\ Ordered(timers) /\ target \in Jiffval
  BY DEF IInv, TypeOK, Sorted
<1>2. Len(timers) \in Nat /\ timers # << >> /\ Head(timers) = timers[1] /\ 1 \in 1..Len(timers)
  BY <1>1, LenProperties, HeadTailProperties, EmptySeq
<1>3. timers[1] \in Entry /\ timers[i] \in Entry
  BY <1>1, <1>2, ElementOfSeq
<1>4. /\ timers[1].jiffies \in Nat /\ timers[1].ujiffies \in Nat
      /\ timers[i].jiffies \in Nat /\ timers[i].ujiffies \in Nat
      /\ target.jiffies \in Nat /\ target.ujiffies \in Nat
  BY <1>1, <1>3 DEF Entry, Jiffval
<1>5. timer_lt(target, timers[1])
  BY <1>2, <1>4 DEF Finish, Due, timer_lt, timer_le
<1>6. i = 1 \/ Before(timers[1], timers[i])
  BY <1>1, <1>2 DEF Ordered
<1>7. i = 1 \/ timer_le(timers[1], timers[i])
  BY <1>4, <1>6 DEF Before, At, JV, timer_le, timer_lt
<1>8. timer_lt(target, timers[i])
  BY <1>4, <1>5, <1>7, CompareFacts
<1> QED BY <1>4, <1>8, CompareFacts

LEMMA FinishPreserves ==
  ASSUME IInv, Finish
  PROVE  IInv'
<1>1. now' = target /\ pc' = "script" /\ timers' = timers /\ target' = target /\ adds' = adds
  BY DEF Finish
<1>2. NoneBefore(timers, target)
  BY FinishFacts DEF NoneBefore
<1> QED BY <1>1, <1>2 DEF IInv, TypeOK, PCs, Sorted, NoneOverdue, TargetAhead

(* The "time" command, whatever time it is given.                          *)
LEMMA TimeKeepsIInv ==
  ASSUME IInv, NEW t \in Jiffval, AdvanceTime(t)
  PROVE  IInv'
<1>1. timers' = timers /\ now' = now /\ adds' = adds /\ target' = t
      /\ pc' = IF jiffval_cmp(t, now) < 0 THEN "exit" ELSE "loop"
  BY DEF AdvanceTime
<1>2. jiffval_cmp(t, now) < 0 \/ timer_le(now, t)
  BY DEF jiffval_cmp, timer_lt, timer_le, IInv, TypeOK, Jiffval
<1>3. pc' = "exit" \/ (pc' = "loop" /\ timer_le(now', target'))
  BY <1>1, <1>2
<1> QED BY <1>1, <1>3 DEF IInv, TypeOK, PCs, Sorted, NoneOverdue, TargetAhead

-----------------------------------------------------------------------------

(* Every call and every step of advance_time keeps the inductive invariant.*)
LEMMA NextPreserves ==
  ASSUME IInv, [Next]_vars
  PROVE  IInv'
<1>1. ASSUME NEW id \in Timers \ Pending, NEW t \in Times, AddHiresTimer(id, t) PROVE IInv'
  BY <1>1, TimesFacts, AddPreserves
<1>2. ASSUME NEW id \in Timers \ Pending, NEW t \in Times, AddTimer(id, t) PROVE IInv'
  BY <1>2, TimesFacts, AddPreserves DEF AddTimer
<1>3. ASSUME NEW id \in Timers, NEW t \in Times, ModTimer(id, t) PROVE IInv'
  BY <1>3, ModPreserves
<1>4. ASSUME NEW id \in Timers, DelTimer(id) PROVE IInv'
  BY <1>4, DelPreserves
<1>5. ASSUME NEW t \in Times, AdvanceTime(t) PROVE IInv'
  BY <1>5, TimesFacts, TimeKeepsIInv
<1>6. CASE Fire
  BY <1>6, FirePreserves
<1>7. CASE Return
  BY <1>7 DEF Return, IInv, TypeOK, PCs, Sorted, NoneOverdue, TargetAhead
<1>8. CASE Finish
  BY <1>8, FinishPreserves
<1>9. CASE CallerExits
  BY <1>9 DEF CallerExits, IInv, TypeOK, PCs, Sorted, NoneOverdue, TargetAhead
<1>10. CASE UNCHANGED vars
  BY <1>10 DEF vars, IInv, TypeOK, PCs, Sorted, NoneOverdue, TargetAhead
<1> QED BY <1>1, <1>2, <1>3, <1>4, <1>5, <1>6, <1>7, <1>8, <1>9, <1>10 DEF Next

(* IInv is an invariant: every call and every step of advance_time keeps   *)
(* the list ordered, without duplicates and ahead of the clock.            *)
THEOREM InductiveInvariant == Spec => []IInv
<1>1. Init => IInv
  BY DEF Init, IInv, TypeOK, PCs, Entry, Jiffval, JV, Sorted, Ordered, NoneOverdue,
         NoneBefore, TargetAhead, Distinct, Stamped
<1>2. IInv /\ [Next]_vars => IInv'
  BY NextPreserves
<1> QED BY <1>1, <1>2, PTL DEF Spec

(* The list of timer.c is always in running order, and no timer on it      *)
(* waits for a time that is over.                                          *)
THEOREM ListCorrect == Spec => [](Sorted /\ NoneOverdue)
<1>1. IInv => Sorted /\ NoneOverdue
  BY DEF IInv
<1> QED BY <1>1, InductiveInvariant, PTL

(* A step of the list does not turn the clock back.                        *)
LEMMA ClockStep ==
  ASSUME IInv, Next
  PROVE  timer_le(now, now')
<1>0. now \in Jiffval
  BY DEF IInv, TypeOK
<1>1. timer_le(now, now)
  BY <1>0 DEF timer_le, Jiffval
<1>2. CASE now' = now
  BY <1>1, <1>2
<1>3. CASE Fire
  <2>1. timers \in Seq(Entry) /\ timers # << >> /\ now' = At(Head(timers))
    BY <1>3 DEF Fire, Due, IInv, TypeOK
  <2>2. Head(timers) = timers[1] /\ 1 \in 1..Len(timers)
    BY <2>1, LenProperties, HeadTailProperties, EmptySeq
  <2>3. timer_le(now, timers[1])
    BY <2>2 DEF IInv, NoneOverdue, NoneBefore
  <2> QED BY <2>1, <2>2, <2>3 DEF At, JV, timer_le
<1>4. CASE Finish
  BY <1>4 DEF Finish, IInv, TargetAhead
<1>5. \A list, id, t : Insert(list, id, t) => now' = now
  BY DEF Insert
<1> QED
  BY <1>2, <1>3, <1>4, <1>5 DEF Next, AddHiresTimer, AddTimer, ModTimer, DelTimer,
     AdvanceTime, Return, CallerExits

(* The simulation clock never goes backward.                               *)
THEOREM ClockNeverTurnsBack == Spec => ClockMonotone
<1>1. IInv /\ [Next]_vars => [timer_le(now, now')]_vars
  BY ClockStep
<1> QED BY <1>1, InductiveInvariant, PTL DEF Spec, ClockMonotone

(* A step that ends advance_time is its last one, with no timer due.       *)
LEMMA CompleteStep ==
  ASSUME IInv, Next, pc = "loop", pc' = "script"
  PROVE  /\ now' = target
         /\ \A i \in 1..Len(timers') : timer_lt(now', timers'[i])
<1>1. Finish
  BY DEF Next, AddHiresTimer, AddTimer, ModTimer, DelTimer, AdvanceTime, Return, Fire, Callable,
     CallerExits
<1> QED BY <1>1, FinishFacts DEF Finish

(* When advance_time returns, the clock is at the target and every timer   *)
(* up to the target has run.                                               *)
THEOREM AdvanceIsComplete == Spec => AdvanceComplete
<1> DEFINE A == pc = "loop" /\ pc' = "script" =>
                  /\ now' = target
                  /\ \A i \in 1..Len(timers') : timer_lt(now', timers'[i])
<1>1. IInv /\ [Next]_vars => [A]_vars
  BY CompleteStep
<1> QED BY <1>1, InductiveInvariant, PTL DEF Spec, AdvanceComplete

-----------------------------------------------------------------------------

(* The list implements an event calendar, for every set of timers and      *)
(* times: each step of TimerQueue is a step of EventCalendar or leaves the *)
(* calendar alone.  The mapping is the one in TimerQueue: the calendar is  *)
(* the set of the list elements.                                           *)

Events(list) == {list[i] : i \in 1..Len(list)}

NewEvent(id, t) ==
  [id |-> id, jiffies |-> t.jiffies, ujiffies |-> t.ujiffies, added |-> adds]

(* Linking adds one event, wherever in the list.                           *)
LEMMA InsertAtEvents ==
  ASSUME NEW s \in Seq(Entry), NEW e \in Entry, NEW k \in 1..(Len(s) + 1)
  PROVE  Events(InsertAt(s, k, e)) = Events(s) \cup {e}
<1> DEFINE r == InsertAt(s, k, e)
<1>0. Len(s) \in Nat
  BY LenProperties
<1>1. /\ Len(r) = Len(s) + 1
      /\ \A i \in 1..(Len(s) + 1) :
           r[i] = IF i < k THEN s[i] ELSE IF i = k THEN e ELSE s[i - 1]
  BY InsertAtFacts
<1> HIDE DEF r
<1>2. ASSUME NEW i \in 1..Len(r) PROVE r[i] \in Events(s) \cup {e}
  <2>1. CASE i < k
    <3>1. i \in 1..Len(s) /\ r[i] = s[i]
      BY <1>0, <1>1, <2>1
    <3> QED BY <3>1 DEF Events
  <2>2. CASE i = k
    BY <1>0, <1>1, <2>2
  <2>3. CASE i > k
    <3>1. i - 1 \in 1..Len(s) /\ r[i] = s[i - 1]
      BY <1>0, <1>1, <2>3
    <3> QED BY <3>1 DEF Events
  <2> QED BY <1>0, <1>1, <2>1, <2>2, <2>3
<1>3. ASSUME NEW i \in 1..Len(s) PROVE s[i] \in Events(r)
  <2>1. CASE i < k
    <3>1. i \in 1..Len(r) /\ r[i] = s[i]
      BY <1>0, <1>1, <2>1
    <3> QED BY <3>1 DEF Events
  <2>2. CASE i >= k
    <3>1. i + 1 \in 1..Len(r) /\ r[i + 1] = s[i]
      BY <1>0, <1>1, <2>2
    <3> QED BY <3>1 DEF Events
  <2> QED BY <1>0, <2>1, <2>2
<1>4. e \in Events(r)
  <2>1. k \in 1..Len(r) /\ r[k] = e
    BY <1>0, <1>1
  <2> QED BY <2>1 DEF Events
<1> QED BY <1>2, <1>3, <1>4 DEF Events, r

(* Unlinking a timer removes its event and no other.                       *)
LEMMA RemoveAtEvents ==
  ASSUME NEW s \in Seq(Entry), NEW k \in 1..Len(s), Distinct(s)
  PROVE  Events(RemoveAt(s, k)) = {e \in Events(s) : e.id # s[k].id}
<1> DEFINE r == RemoveAt(s, k)
<1>0. Len(s) \in Nat
  BY LenProperties
<1>1. /\ Len(r) = Len(s) - 1
      /\ \A i \in 1..(Len(s) - 1) : r[i] = IF i < k THEN s[i] ELSE s[i + 1]
  BY RemoveAtFacts
<1> HIDE DEF r
<1>2. ASSUME NEW i \in 1..Len(r)
      PROVE  r[i] \in Events(s) /\ r[i].id # s[k].id
  <2>1. PICK j \in 1..Len(s) : j # k /\ r[i] = s[j]
    <3>1. CASE i < k
      BY <1>0, <1>1, <3>1
    <3>2. CASE i >= k
      <4>1. i + 1 \in 1..Len(s) /\ i + 1 # k /\ r[i] = s[i + 1]
        BY <1>0, <1>1, <3>2
      <4> QED BY <4>1
    <3> QED BY <1>0, <1>1, <3>1, <3>2
  <2> QED BY <2>1 DEF Events, Distinct
<1>3. ASSUME NEW i \in 1..Len(s), s[i].id # s[k].id
      PROVE  s[i] \in Events(r)
  <2>1. CASE i < k
    <3>1. i \in 1..Len(r) /\ r[i] = s[i]
      BY <1>0, <1>1, <2>1
    <3> QED BY <3>1 DEF Events
  <2>2. CASE i > k
    <3>1. i - 1 \in 1..Len(r) /\ r[i - 1] = s[i]
      BY <1>0, <1>1, <2>2
    <3> QED BY <3>1 DEF Events
  <2> QED BY <1>0, <1>3, <2>1, <2>2
<1> QED BY <1>2, <1>3 DEF Events, r

(* The first timer runs: its event is gone, the others stay.               *)
LEMMA TailEvents ==
  ASSUME NEW s \in Seq(Entry), s # << >>, Distinct(s)
  PROVE  Events(Tail(s)) = Events(s) \ {Head(s)}
<1>0. Len(s) \in Nat \ {0} /\ Head(s) = s[1] /\ 1 \in 1..Len(s)
  BY LenProperties, EmptySeq
<1>1. /\ Len(Tail(s)) = Len(s) - 1
      /\ \A i \in 1..(Len(s) - 1) : Tail(s)[i] = s[i + 1]
  BY HeadTailProperties
<1>2. ASSUME NEW i \in 1..Len(Tail(s))
      PROVE  Tail(s)[i] \in Events(s) \ {s[1]}
  <2>1. i + 1 \in 1..Len(s) /\ i + 1 # 1 /\ Tail(s)[i] = s[i + 1]
    BY <1>0, <1>1
  <2>2. s[i + 1] # s[1]
    BY <1>0, <2>1 DEF Distinct
  <2> QED BY <2>1, <2>2 DEF Events
<1>3. ASSUME NEW i \in 1..Len(s), s[i] # s[1]
      PROVE  s[i] \in Events(Tail(s))
  <2>1. i - 1 \in 1..Len(Tail(s)) /\ Tail(s)[i - 1] = s[i]
    BY <1>0, <1>1, <1>3
  <2> QED BY <2>1 DEF Events
<1> QED BY <1>0, <1>2, <1>3 DEF Events

-----------------------------------------------------------------------------

(* A timer for the future is one more event in the place of the one that   *)
(* its identity had; a time in the past ends the program.                  *)
LEMMA InsertSchedules ==
  ASSUME IInv, Callable, NEW list \in Seq(Entry), NEW id \in Timers, NEW t \in Jiffval,
         Events(list) = {e \in Events(timers) : e.id # id},
         Insert(list, id, t)
  PROVE  Calendar!Schedule(id, t) \/ Calendar!Abort
<1>0. t.jiffies \in Nat /\ t.ujiffies \in Nat /\ now.jiffies \in Nat /\ now.ujiffies \in Nat
      /\ adds \in Nat
  BY DEF IInv, TypeOK, Jiffval
<1>1. CASE timer_lt(t, now)
  <2>1. pc' = "exit" /\ timers' = list /\ now' = now /\ adds' = adds
    BY <1>1 DEF Insert
  <2>2. Events(timers') \subseteq Events(timers)
    BY <2>1
  <2> QED BY <2>1, <2>2 DEF Calendar!Abort, Callable, Events
<1>2. CASE ~timer_lt(t, now)
  <2>1. PICK k \in 1..(Len(list) + 1) : timers' = InsertAt(list, k, NewEvent(id, t))
    BY <1>2 DEF Insert, NewEvent
  <2>2. now' = now /\ target' = target /\ pc' = pc /\ adds' = adds + 1
    BY <1>2 DEF Insert
  <2>3. NewEvent(id, t) \in Entry
    BY <1>0 DEF NewEvent, Entry
  <2>4. Events(timers') = {e \in Events(timers) : e.id # id} \cup {NewEvent(id, t)}
    BY <2>1, <2>3, InsertAtEvents
  <2>5. Calendar!timer_le(now, t)
    BY <1>0, <1>2 DEF Calendar!timer_le, timer_lt
  <2> QED BY <2>2, <2>4, <2>5 DEF Calendar!Schedule, Callable, Events, NewEvent
<1> QED BY <1>1, <1>2

(* add_hires_timer and add_timer, of a timer that is not pending.          *)
LEMMA AddSchedules ==
  ASSUME IInv, NEW id \in Timers \ Pending, NEW t \in Jiffval, AddHiresTimer(id, t)
  PROVE  Calendar!Schedule(id, t) \/ Calendar!Abort
<1>1. timers \in Seq(Entry)
  BY DEF IInv, TypeOK
<1>2. Events(timers) = {e \in Events(timers) : e.id # id}
  BY DEF Events, Pending
<1> QED BY <1>1, <1>2, InsertSchedules DEF AddHiresTimer

LEMMA ModSchedules ==
  ASSUME IInv, NEW id \in Timers, NEW t \in Times, ModTimer(id, t)
  PROVE  Calendar!Schedule(id, JV(t.jiffies, 0)) \/ Calendar!Abort
<1> DEFINE w == JV(t.jiffies, 0)
<1>0. w \in Jiffval /\ timers \in Seq(Entry) /\ Distinct(timers) /\ Callable
  BY TimesFacts DEF IInv, TypeOK, ModTimer
<1>1. CASE id \notin Pending /\ Insert(timers, id, w)
  <2>1. Events(timers) = {e \in Events(timers) : e.id # id}
    BY <1>1 DEF Events, Pending
  <2> HIDE DEF w
  <2> QED BY <1>0, <1>1, <2>1, InsertSchedules DEF w
<1>2. ASSUME NEW k \in 1..Len(timers), timers[k].id = id, Insert(RemoveAt(timers, k), id, w)
      PROVE  Calendar!Schedule(id, w) \/ Calendar!Abort
  <2>1. Events(RemoveAt(timers, k)) = {e \in Events(timers) : e.id # id}
    BY <1>0, <1>2, RemoveAtEvents
  <2>2. RemoveAt(timers, k) \in Seq(Entry)
    BY <1>0, RemoveAtFacts
  <2> HIDE DEF w
  <2> QED BY <1>0, <1>2, <2>1, <2>2, InsertSchedules
<1> QED BY <1>1, <1>2 DEF ModTimer

LEMMA DelCancels ==
  ASSUME IInv, NEW id \in Timers, DelTimer(id)
  PROVE  Calendar!Cancel(id)
<1>1. timers \in Seq(Entry) /\ Distinct(timers)
  BY DEF IInv, TypeOK
<1>2. Events(timers') = {e \in Events(timers) : e.id # id}
  <2>1. CASE id \notin Pending /\ timers' = timers
    BY <2>1 DEF Events, Pending
  <2>2. ASSUME NEW k \in 1..Len(timers), timers[k].id = id, timers' = RemoveAt(timers, k)
        PROVE  Events(timers') = {e \in Events(timers) : e.id # id}
    BY <1>1, <2>2, RemoveAtEvents
  <2> QED BY <2>1, <2>2 DEF DelTimer
<1> QED BY <1>2 DEF Calendar!Cancel, DelTimer, Callable, Events

(* The head of the ordered list is the earliest event.                     *)
LEMMA FireRunsEarliest ==
  ASSUME IInv, Fire
  PROVE  \E e \in Events(timers) : Calendar!RunEarliest(e)
<1>1. timers \in Seq(Entry) /\ timers # << >> /\ Ordered(timers) /\ Distinct(timers)
  BY DEF IInv, TypeOK, Sorted, Fire, Due
<1>2. Head(timers) = timers[1] /\ 1 \in 1..Len(timers) /\ Len(timers) \in Nat
  BY <1>1, LenProperties, EmptySeq
<1>3. ASSUME NEW f \in Events(timers) \ {timers[1]}
      PROVE  Calendar!Earlier(timers[1], f)
  <2>1. PICK i \in 1..Len(timers) : f = timers[i]
    BY DEF Events
  <2>2. 1 < i
    BY <1>2, <1>3, <2>1
  <2>3. Before(timers[1], f)
    BY <1>1, <1>2, <2>1, <2>2 DEF Ordered
  <2>4. timers[1] \in Entry /\ f \in Entry
    BY <1>1, <1>2, <2>1, ElementOfSeq
  <2> QED BY <2>3, <2>4 DEF Before, At, JV, Entry, Calendar!Earlier, Calendar!timer_lt, timer_lt
<1>4. Events(timers') = Events(timers) \ {timers[1]}
  BY <1>1, <1>2, TailEvents DEF Fire
<1>5. Calendar!timer_le(timers[1], target)
  BY <1>2 DEF Fire, Due, Calendar!timer_le, timer_le
<1>6. now' = Calendar!JV(timers[1].jiffies, timers[1].ujiffies)
  BY <1>2 DEF Fire, At, JV, Calendar!JV
<1>7. PICK e \in Events(timers) : e = timers[1]
  BY <1>2 DEF Events
<1>8. Calendar!RunEarliest(e)
  BY <1>3, <1>4, <1>5, <1>6, <1>7 DEF Calendar!RunEarliest, Fire, Events
<1> QED BY <1>8

LEMMA FinishArrives ==
  ASSUME IInv, Finish
  PROVE  Calendar!Arrive
<1>1. \A e \in Events(timers) : Calendar!timer_lt(target, e)
  BY FinishFacts DEF Events, Calendar!timer_lt, timer_lt
<1> QED BY <1>1 DEF Finish, Calendar!Arrive, Events

(* The "time" command starts an advance, unless it leads into the past.    *)
LEMMA AdvanceStarts ==
  ASSUME IInv, NEW t \in Times, AdvanceTime(t)
  PROVE  Calendar!Start(t) \/ Calendar!Abort
<1>1. t \in Jiffval /\ now \in Jiffval
  BY TimesFacts DEF IInv, TypeOK
<1>2. pc = "script" /\ target' = t /\ now' = now /\ timers' = timers /\ adds' = adds
      /\ pc' = IF jiffval_cmp(t, now) < 0 THEN "exit" ELSE "loop"
  BY DEF AdvanceTime
<1>3. CASE jiffval_cmp(t, now) < 0
  BY <1>2, <1>3 DEF Calendar!Abort
<1>4. CASE ~(jiffval_cmp(t, now) < 0)
  <2>1. Calendar!timer_le(now, t)
    BY <1>1, <1>4 DEF jiffval_cmp, timer_lt, Calendar!timer_le, Jiffval
  <2> QED BY <1>2, <1>4, <2>1 DEF Calendar!Start
<1> QED BY <1>3, <1>4

-----------------------------------------------------------------------------

(* timer.c keeps what EventCalendar promises: whatever list operations and *)
(* walks it uses, its callers see a set of events of which the earliest,   *)
(* the first added among equals, runs next.                                *)
THEOREM CalendarImplemented == Spec => ImplementsCalendar
<1>1. Init => Calendar!CalInit
  <2> SUFFICES ASSUME Init PROVE Calendar!CalInit
    OBVIOUS
  <2>1. Events(timers) = {}
    BY DEF Init, Events
  <2> QED BY <2>1 DEF Init, Calendar!CalInit, Calendar!JV, JV, Events
<1>2. IInv /\ [Next]_vars => [Calendar!CalNext]_(Calendar!calVars)
  <2> SUFFICES ASSUME IInv, [Next]_vars
               PROVE  Calendar!CalNext \/ UNCHANGED Calendar!calVars
    OBVIOUS
  <2>0. \A t : JV(t.jiffies, 0) = Calendar!JV(t.jiffies, 0)
    BY DEF JV, Calendar!JV
  <2>1. ASSUME NEW id \in Timers \ Pending, NEW t \in Times, AddHiresTimer(id, t)
        PROVE  Calendar!CalNext
    BY <2>1, TimesFacts, AddSchedules DEF Calendar!CalNext
  <2>2. ASSUME NEW id \in Timers \ Pending, NEW t \in Times, AddTimer(id, t)
        PROVE  Calendar!CalNext
    BY <2>0, <2>2, TimesFacts, AddSchedules DEF AddTimer, Calendar!CalNext
  <2>3. ASSUME NEW id \in Timers, NEW t \in Times, ModTimer(id, t)
        PROVE  Calendar!CalNext
    BY <2>0, <2>3, ModSchedules DEF Calendar!CalNext
  <2>4. ASSUME NEW id \in Timers, DelTimer(id) PROVE Calendar!CalNext
    BY <2>4, DelCancels DEF Calendar!CalNext
  <2>5. ASSUME NEW t \in Times, AdvanceTime(t) PROVE Calendar!CalNext
    BY <2>5, AdvanceStarts DEF Calendar!CalNext
  <2>6. CASE Fire
    BY <2>6, FireRunsEarliest DEF Calendar!CalNext, Events
  <2>7. CASE Finish
    BY <2>7, FinishArrives DEF Calendar!CalNext
  <2>8. CASE CallerExits
    <3>1. Calendar!Abort
      BY <2>8 DEF CallerExits, Callable, Calendar!Abort
    <3> QED BY <3>1 DEF Calendar!CalNext
  <2>9. CASE Return
    BY <2>9 DEF Return, Calendar!calVars
  <2>10. CASE UNCHANGED vars
    BY <2>10 DEF vars, Calendar!calVars
  <2> QED BY <2>1, <2>2, <2>3, <2>4, <2>5, <2>6, <2>7, <2>8, <2>9, <2>10 DEF Next
<1> QED BY <1>1, <1>2, InductiveInvariant, PTL DEF Spec, ImplementsCalendar, Calendar!CalSpec

=============================================================================
