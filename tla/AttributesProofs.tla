-------------------------- MODULE AttributesProofs -------------------------
(***************************************************************************)
(* Why the parser may merge settings into lists before it merges the lists *)
(* into the attributes of a packet, and that a packet has the attributes   *)
(* that the documentation promises, for any number of settings and values. *)
(***************************************************************************)
EXTENDS Attributes, SequenceTheorems, TLAPS

-----------------------------------------------------------------------------
(* One attribute *)

LEMMA MergeSlots ==
  ASSUME NEW x, NEW y, NEW z
  PROVE  MERGE(MERGE(x, y), z) = MERGE(x, MERGE(y, z))
  BY DEF MERGE, KeepsOld

LEMMA MergeAbsent ==
  ASSUME NEW x, NEW y, x.present, ~y.present
  PROVE  MERGE(x, y) = x
  BY DEF MERGE, KeepsOld

(* A merged slot is one of the two, and present if one of them is.         *)
LEMMA MergePresent ==
  ASSUME NEW x, NEW y
  PROVE  /\ MERGE(x, y) \in {x, y}
         /\ x.present => MERGE(x, y).present
         /\ y.present => MERGE(x, y).present
         /\ MERGE(x, y).present => x.present \/ y.present
  BY DEF MERGE, KeepsOld

(* Merged with what is not present, a slot stays; of two that are present, *)
(* one with normal priority is left if there is one.                       *)
LEMMA MergeDflt ==
  ASSUME NEW x, NEW y, x.present
  PROVE  /\ y.present => (MERGE(x, y).dflt <=> x.dflt /\ y.dflt)
         /\ MERGE(x, y).dflt <=> x.dflt /\ (y.present => y.dflt)
<1>1. CASE KeepsOld(x, y)
  BY <1>1 DEF MERGE, KeepsOld
<1>2. CASE ~KeepsOld(x, y)
  BY <1>2 DEF MERGE, KeepsOld
<1> QED BY <1>1, <1>2

LEMMA MergeOf ==
  ASSUME NEW x, NEW y, NEW a \in Attrs
  PROVE  merge_attributes(x, y)[a] = MERGE(x[a], y[a])
  BY DEF merge_attributes

LEMMA MergeType ==
  ASSUME NEW x \in Attributes, NEW y \in Attributes
  PROVE  merge_attributes(x, y) \in Attributes
<1>1. \A a \in Attrs : MERGE(x[a], y[a]) \in Slot
  BY MergePresent DEF Attributes
<1> QED BY <1>1 DEF merge_attributes, Attributes

LEMMA NoAttributes ==
  no_attributes \in Attributes /\ \A a \in Attrs : ~no_attributes[a].present
  BY ZeroAssumption DEF no_attributes, Attributes, Slot

LEMMA SameAttributes ==
  ASSUME NEW x \in Attributes, NEW y \in Attributes, \A a \in Attrs : x[a] = y[a]
  PROVE  x = y
  BY DEF Attributes

LEMMA SettingFacts ==
  ASSUME NEW a \in Attrs, NEW v \in Values, NEW d \in BOOLEAN
  PROVE  /\ Setting(a, v, d) \in Attributes
         /\ Setting(a, v, d)[a] = [present |-> TRUE, dflt |-> d, value |-> v]
         /\ Setting(a, v, d)[a].present
         /\ \A b \in Attrs : b # a => ~Setting(a, v, d)[b].present
<1>1. Setting(a, v, d)[a] = [present |-> TRUE, dflt |-> d, value |-> v]
  BY NoAttributes DEF Setting, Attributes
<1>2. Setting(a, v, d)[a].present
  BY <1>1
<1> QED BY <1>1, <1>2, NoAttributes DEF Setting, Attributes, Slot

(* The sentence of the documentation is what MERGE does with one setting.  *)
LEMMA ApplyMerges ==
  ASSUME NEW x \in Attributes, AllPresent(x), NEW a \in Attrs, NEW v \in Values, NEW d \in BOOLEAN
  PROVE  /\ Apply(x, a, v, d) \in Attributes /\ AllPresent(Apply(x, a, v, d))
         /\ Apply(x, a, v, d) = merge_attributes(x, Setting(a, v, d))
<1> DEFINE s == Setting(a, v, d)
           y == Apply(x, a, v, d)
           n == [present |-> TRUE, dflt |-> d, value |-> v]
<1>1. s \in Attributes /\ s[a] = n /\ \A b \in Attrs : b # a => ~s[b].present
  BY SettingFacts
<1>2. n \in Slot
  BY DEF Slot
<1>3. y \in Attributes /\ \A b \in Attrs : y[b] = IF b = a /\ ~(d /\ ~x[a].dflt) THEN n ELSE x[b]
  BY <1>2 DEF Apply, Attributes
<1>4. ASSUME NEW b \in Attrs PROVE y[b] = MERGE(x[b], s[b])
  <2>1. CASE b # a
    BY <1>1, <1>3, <2>1, MergeAbsent DEF AllPresent
  <2>2. CASE b = a
    <3>1. KeepsOld(x[a], n) <=> d /\ ~x[a].dflt
      BY DEF KeepsOld, AllPresent
    <3> QED BY <1>1, <1>3, <2>2, <3>1 DEF MERGE
  <2> QED BY <2>1, <2>2
<1>5. merge_attributes(x, s) \in Attributes /\ \A b \in Attrs : merge_attributes(x, s)[b] = MERGE(x[b], s[b])
  BY <1>1, MergeType, MergeOf
<1>6. AllPresent(y)
  BY <1>4, MergePresent DEF AllPresent
<1> HIDE DEF s, y
<1>7. y = merge_attributes(x, s)
  BY <1>3, <1>4, <1>5, SameAttributes
<1> QED BY <1>3, <1>6, <1>7 DEF s, y

-----------------------------------------------------------------------------
(* Lists *)

(* merge_attributes is associative: a list of settings that the rule       *)
(* attributes has merged acts on curr_attr as its settings would one by    *)
(* one.                                                                    *)
THEOREM MergeAssociative ==
  ASSUME NEW x \in Attributes, NEW y \in Attributes, NEW z \in Attributes
  PROVE  merge_attributes(merge_attributes(x, y), z)
           = merge_attributes(x, merge_attributes(y, z))
<1>1. /\ merge_attributes(merge_attributes(x, y), z) \in Attributes
      /\ merge_attributes(x, merge_attributes(y, z)) \in Attributes
  BY MergeType
<1>2. ASSUME NEW a \in Attrs
      PROVE  merge_attributes(merge_attributes(x, y), z)[a]
               = merge_attributes(x, merge_attributes(y, z))[a]
  BY MergeOf, MergeSlots
<1> QED BY <1>1, <1>2, SameAttributes

(* Merging with no settings changes nothing: a data value without settings *)
(* of its own leaves the packet alone.                                     *)
THEOREM MergeNothing ==
  ASSUME NEW x \in Attributes, AllPresent(x)
  PROVE  merge_attributes(x, no_attributes) = x
<1>1. merge_attributes(x, no_attributes) \in Attributes
  BY MergeType, NoAttributes
<1>2. \A a \in Attrs : merge_attributes(x, no_attributes)[a] = x[a]
  BY MergeOf, MergeAbsent, NoAttributes DEF AllPresent
<1> QED BY <1>1, <1>2, SameAttributes

LEMMA MergeAllPresent ==
  ASSUME NEW x, NEW y, AllPresent(x)
  PROVE  AllPresent(merge_attributes(x, y))
  BY MergeOf, MergePresent DEF AllPresent

-----------------------------------------------------------------------------
(* Steps *)

LEMMA PutTop ==
  ASSUME NEW S, NEW s \in Seq(S), s # << >>, NEW e \in S
  PROVE  /\ <<e>> \o Tail(s) \in Seq(S) /\ Len(<<e>> \o Tail(s)) = Len(s)
         /\ (<<e>> \o Tail(s))[1] = e
         /\ \A k \in 1..Len(s) : k # 1 => (<<e>> \o Tail(s))[k] = s[k]
<1> DEFINE u == Tail(s)
           p == <<e>>
           w == p \o u
<1>1. /\ Len(s) \in Nat \ {0} /\ u \in Seq(S) /\ Len(u) = Len(s) - 1
      /\ \A i \in 1..(Len(s) - 1) : u[i] = s[i + 1]
  BY LenProperties, EmptySeq, HeadTailProperties
<1>2. p \in Seq(S) /\ Len(p) = 1 /\ p[1] = e
  OBVIOUS
<1> HIDE DEF u, p
<1>3. /\ w \in Seq(S) /\ Len(w) = Len(p) + Len(u)
      /\ \A i \in 1..(Len(p) + Len(u)) : w[i] = IF i <= Len(p) THEN p[i] ELSE u[i - Len(p)]
  BY <1>1, <1>2, ConcatProperties
<1> HIDE DEF w
<1>4. Len(w) = Len(s) /\ w[1] = e
  BY <1>1, <1>2, <1>3
<1>5. ASSUME NEW k \in 1..Len(s), k # 1 PROVE w[k] = s[k]
  <2>1. w[k] = u[k - 1] /\ k - 1 \in 1..(Len(s) - 1) /\ (k - 1) + 1 = k
    BY <1>1, <1>2, <1>3, <1>5
  <2> QED BY <1>1, <2>1
<1> QED BY <1>3, <1>4, <1>5 DEF w, p, u

LEMMA PutOnTop ==
  ASSUME NEW S, NEW s \in Seq(S), NEW e \in S
  PROVE  /\ <<e>> \o s \in Seq(S) /\ Len(<<e>> \o s) = Len(s) + 1 /\ Len(s) \in Nat
         /\ (<<e>> \o s)[1] = e
         /\ \A k \in 1..(Len(s) + 1) : k # 1 => k - 1 \in 1..Len(s) /\ (<<e>> \o s)[k] = s[k - 1]
<1> DEFINE p == <<e>>
           w == p \o s
<1>1. Len(s) \in Nat
  BY LenProperties
<1>2. p \in Seq(S) /\ Len(p) = 1 /\ p[1] = e
  OBVIOUS
<1> HIDE DEF p
<1>3. /\ w \in Seq(S) /\ Len(w) = Len(p) + Len(s)
      /\ \A i \in 1..(Len(p) + Len(s)) : w[i] = IF i <= Len(p) THEN p[i] ELSE s[i - Len(p)]
  BY <1>2, ConcatProperties
<1> HIDE DEF w
<1>4. Len(w) = Len(s) + 1 /\ w[1] = e
  BY <1>1, <1>2, <1>3
<1>5. \A k \in 1..(Len(s) + 1) : k # 1 => k - 1 \in 1..Len(s) /\ w[k] = s[k - 1]
  BY <1>1, <1>2, <1>3
<1> QED BY <1>1, <1>3, <1>4, <1>5 DEF w, p

Written == [attr : Attrs, value : Values, dflt : BOOLEAN, at : Nat]

(* The history grows at its end.                                           *)
LEMMA NextWritten ==
  ASSUME AttrTypeOK, NEW a \in Attrs, NEW v \in Values, NEW d \in BOOLEAN, NextSetting(a, v, d)
  PROVE  /\ written' \in Seq(Written) /\ Len(written') = Len(written) + 1 /\ Len(written) \in Nat
         /\ \A i \in 1..Len(written) : i \in 1..Len(written') /\ written'[i] = written[i]
         /\ Len(written) + 1 \in 1..Len(written')
         /\ written'[Len(written) + 1].attr = a /\ written'[Len(written) + 1].at = Len(stack)
         /\ \A b \in Attrs : BehindOne(b)' => BehindOne(b)
<1>0. PICK e : e = [attr |-> a, value |-> v, dflt |-> d, at |-> Len(stack)]
  OBVIOUS
<1>1. written \in Seq(Written) /\ Len(written) \in Nat /\ Len(stack) \in Nat
  BY LenProperties DEF AttrTypeOK, Written
<1>2. e \in Written /\ e.attr = a /\ e.at = Len(stack)
  BY <1>0, <1>1 DEF Written
<1>3. written' = Append(written, e)
  BY <1>0 DEF NextSetting
<1>4. /\ written' \in Seq(Written) /\ Len(written') = Len(written) + 1
      /\ \A i \in 1..Len(written) : written'[i] = written[i]
      /\ written'[Len(written) + 1] = e
  BY <1>1, <1>2, <1>3, AppendProperties
<1>5. /\ \A i \in 1..Len(written) : i \in 1..Len(written')
      /\ Len(written) + 1 \in 1..Len(written')
  BY <1>1, <1>4
<1>6. \A b \in Attrs : BehindOne(b)' => BehindOne(b)
  BY <1>4, <1>5 DEF BehindOne
<1> QED BY <1>1, <1>2, <1>4, <1>5, <1>6

(* A setting in front of the data.                                         *)
LEMMA SettingInList ==
  ASSUME AttrInv, NEW a \in Attrs, NEW v \in Values, NEW d \in BOOLEAN, NextSetting(a, v, d),
         phase # "data"
  PROVE  AttrInv'
<1>0. AttrTypeOK /\ StackWritten /\ ListPending
  BY DEF AttrInv
<1>1. /\ phase \in {"items", "prefix"} /\ documented' = Apply(documented, a, v, d)
      /\ list' = merge_attributes(list, Setting(a, v, d))
      /\ UNCHANGED <<default_attributes, phase, curr_attr, stack>>
  BY DEF NextSetting
<1>2. PICK s : s = Setting(a, v, d)
  OBVIOUS
<1>3. s \in Attributes
  BY <1>2, SettingFacts
<1>4. /\ documented' \in Attributes /\ AllPresent(documented')
      /\ documented' = merge_attributes(documented, s)
  BY <1>0, <1>1, <1>2, ApplyMerges DEF AttrTypeOK, ListPending
<1>5. list' = merge_attributes(list, s) /\ list' \in Attributes
  BY <1>0, <1>1, <1>2, <1>3, MergeType DEF AttrTypeOK
<1>6. written' \in Seq(Written)
  BY <1>0, NextWritten
<1>7. AttrTypeOK'
  BY <1>0, <1>1, <1>4, <1>5, <1>6 DEF AttrTypeOK, Written
<1>8. phase = "items" => documented' = merge_attributes(default_attributes, list')
  BY <1>0, <1>3, <1>4, <1>5, MergeAssociative DEF ListPending, AttrTypeOK
<1>9. phase = "prefix" => documented' = merge_attributes(curr_attr, list')
  BY <1>0, <1>3, <1>4, <1>5, MergeAssociative DEF ListPending, AttrTypeOK
<1>10. ListPending'
  BY <1>0, <1>1, <1>4, <1>8, <1>9 DEF ListPending, AllPresent
<1>11. stack' = << >>
  BY <1>0, <1>1 DEF ListPending
<1>12. StackWritten' /\ PriorityPending' /\ StackPending' /\ AsDocumented'
  BY <1>1, <1>11 DEF StackWritten, PriorityPending, StackPending, AsDocumented, Reading
<1> QED BY <1>7, <1>10, <1>12 DEF AttrInv

(* A setting behind a data value.                                          *)
LEMMA SettingInData ==
  ASSUME AttrInv, NEW a \in Attrs, NEW v \in Values, NEW d \in BOOLEAN, NextSetting(a, v, d),
         phase = "data"
  PROVE  AttrInv'
<1>0. AttrTypeOK /\ StackWritten /\ ListPending /\ PriorityPending /\ StackPending
  BY DEF AttrInv
<1>1. /\ stack # << >> /\ documented' = Apply(documented, a, v, d)
      /\ stack' = <<merge_attributes(Head(stack), Setting(a, v, d))>> \o Tail(stack)
      /\ UNCHANGED <<default_attributes, phase, curr_attr, list>>
  BY DEF NextSetting
<1>2. PICK s : s = Setting(a, v, d)
  OBVIOUS
<1>3. s \in Attributes /\ s[a].present /\ \A b \in Attrs : b # a => ~s[b].present
  BY <1>2, SettingFacts
<1>4. /\ documented' \in Attributes /\ AllPresent(documented')
      /\ \A b \in Attrs : documented'[b] = MERGE(documented[b], s[b])
  BY <1>0, <1>1, <1>2, ApplyMerges, MergeOf DEF AttrTypeOK, ListPending
<1>5. /\ stack \in Seq(Attributes) /\ Len(stack) \in Nat \ {0} /\ 1 \in 1..Len(stack)
      /\ Head(stack) = stack[1] /\ stack[1] \in Attributes
  BY <1>0, <1>1, LenProperties, EmptySeq, ElementOfSeq DEF AttrTypeOK
<1>6. PICK h : h = merge_attributes(stack[1], s)
  OBVIOUS
<1>7. h \in Attributes /\ \A b \in Attrs : h[b] = MERGE(stack[1][b], s[b])
  BY <1>3, <1>5, <1>6, MergeType, MergeOf
<1>8. stack' = <<h>> \o Tail(stack)
  BY <1>1, <1>2, <1>5, <1>6
<1>9. /\ stack' \in Seq(Attributes) /\ Len(stack') = Len(stack) /\ stack'[1] = h
      /\ \A k \in 1..Len(stack) : k # 1 => stack'[k] = stack[k]
  BY <1>1, <1>5, <1>7, <1>8, PutTop
<1>10. PICK n : n = Len(written) + 1
  OBVIOUS
<1>11. /\ written' \in Seq(Written) /\ n \in 1..Len(written')
       /\ \A i \in 1..Len(written) : i \in 1..Len(written') /\ written'[i] = written[i]
       /\ written'[n].attr = a /\ written'[n].at = Len(stack)
       /\ \A b \in Attrs : BehindOne(b)' => BehindOne(b)
  BY <1>0, <1>10, NextWritten
<1>12. AttrTypeOK'
  BY <1>0, <1>1, <1>4, <1>9, <1>11 DEF AttrTypeOK, Written
<1>13. ListPending'
  BY <1>0, <1>1, <1>4 DEF ListPending, AllPresent
<1>14. ASSUME NEW k \in 1..Len(stack'), NEW b \in Attrs, stack'[k][b].present
       PROVE  \E i \in 1..Len(written') : written'[i].attr = b /\ written'[i].at = Len(stack') - k + 1
  <2>1. CASE stack[k][b].present
    <3>1. PICK i \in 1..Len(written) : written[i].attr = b /\ written[i].at = Len(stack) - k + 1
      BY <1>0, <1>9, <2>1 DEF StackWritten
    <3> QED BY <1>9, <1>11, <3>1
  <2>2. CASE ~stack[k][b].present
    <3>1. k = 1
      BY <1>9, <1>14, <2>2
    <3>2. b = a
      BY <1>3, <1>7, <1>9, <1>14, <2>2, <3>1, MergePresent
    <3>3. Len(stack') - k + 1 = Len(stack)
      BY <1>5, <1>9, <3>1
    <3> QED BY <1>11, <3>2, <3>3
  <2> QED BY <2>1, <2>2
<1>15. StackWritten'
  BY <1>14 DEF StackWritten
<1>16. ASSUME NEW b \in Attrs, BehindOne(b)', b # a
       PROVE  /\ (\A k \in 1..Len(stack') : ~stack'[k][b].present) => documented'[b] = curr_attr[b]
              /\ \A k \in 1..Len(stack') :
                   stack'[k][b].present => documented'[b] = MERGE(curr_attr[b], stack'[k][b])
  <2>1. documented'[b] = documented[b]
    BY <1>0, <1>3, <1>4, <1>16, MergeAbsent DEF ListPending, AllPresent
  <2>2. \A k \in 1..Len(stack) : /\ stack'[k][b].present <=> stack[k][b].present
                                 /\ stack[k][b].present => stack'[k][b] = stack[k][b]
    BY <1>3, <1>7, <1>9, <1>16, MergeAbsent, MergePresent
  <2>3. /\ (\A k \in 1..Len(stack) : ~stack[k][b].present) => documented[b] = curr_attr[b]
        /\ \A k \in 1..Len(stack) :
             stack[k][b].present => documented[b] = MERGE(curr_attr[b], stack[k][b])
    BY <1>0, <1>11, <1>16 DEF StackPending, Reading
  <2> QED BY <1>9, <2>1, <2>2, <2>3
<1>17. ASSUME BehindOne(a)'
       PROVE  /\ stack'[1][a].present /\ documented'[a] = MERGE(curr_attr[a], stack'[1][a])
              /\ \A k \in 1..Len(stack') : stack'[k][a].present => k = 1
  <2>1. ASSUME NEW k \in 1..Len(stack'), stack'[k][a].present PROVE k = 1
    <3>1. PICK i \in 1..Len(written') : written'[i].attr = a /\ written'[i].at = Len(stack') - k + 1
      BY <1>14, <2>1
    <3>2. written'[i].at > 0 /\ written'[n].at > 0
      BY <1>5, <1>9, <1>11, <3>1
    <3>3. written'[i].at = written'[n].at
      BY <1>11, <1>17, <3>1, <3>2 DEF BehindOne
    <3> QED BY <1>5, <1>9, <1>11, <3>1, <3>3
  <2>2. stack'[1][a] = MERGE(stack[1][a], s[a]) /\ documented'[a] = MERGE(documented[a], s[a])
    BY <1>4, <1>7, <1>9
  <2>3. stack'[1][a].present
    BY <1>3, <2>2, MergePresent
  <2>4. CASE stack[1][a].present
    <3>1. documented[a] = MERGE(curr_attr[a], stack[1][a])
      BY <1>0, <1>5, <1>11, <1>17, <2>4 DEF StackPending, Reading
    <3> QED BY <2>1, <2>2, <2>3, <3>1, MergeSlots
  <2>5. CASE ~stack[1][a].present
    <3>1. \A k \in 1..Len(stack) : ~stack[k][a].present
      BY <1>9, <2>1, <2>5
    <3>2. documented[a] = curr_attr[a]
      BY <1>0, <1>11, <1>17, <3>1 DEF StackPending, Reading
    <3>3. MERGE(stack[1][a], s[a]) = s[a]
      BY <2>5 DEF MERGE, KeepsOld
    <3> QED BY <2>1, <2>2, <2>3, <3>2, <3>3
  <2> QED BY <2>4, <2>5
<1>18. StackPending'
  <2> SUFFICES ASSUME NEW b \in Attrs, BehindOne(b)'
               PROVE  /\ (\A k \in 1..Len(stack') : ~stack'[k][b].present) => documented'[b] = curr_attr[b]
                      /\ \A k \in 1..Len(stack') :
                           stack'[k][b].present => documented'[b] = MERGE(curr_attr[b], stack'[k][b])
    BY <1>1 DEF StackPending
  <2>1. CASE b = a
    BY <1>5, <1>9, <1>17, <2>1
  <2>2. CASE b # a
    BY <1>16, <2>2
  <2> QED BY <2>1, <2>2
<1>19. ASSUME NEW b \in Attrs
       PROVE  documented'[b].dflt <=>
                /\ curr_attr[b].dflt
                /\ \A k \in 1..Len(stack') : stack'[k][b].present => stack'[k][b].dflt
  <2>1. documented'[b].dflt <=> documented[b].dflt /\ (s[b].present => s[b].dflt)
    BY <1>0, <1>4, MergeDflt DEF ListPending, AllPresent
  <2>2. documented[b].dflt <=>
          curr_attr[b].dflt /\ \A k \in 1..Len(stack) : stack[k][b].present => stack[k][b].dflt
    BY <1>0 DEF PriorityPending, Reading
  <2>3. (h[b].present => h[b].dflt)
          <=> (stack[1][b].present => stack[1][b].dflt) /\ (s[b].present => s[b].dflt)
    <3>1. CASE stack[1][b].present
      BY <1>7, <3>1, MergePresent, MergeDflt
    <3>2. CASE ~stack[1][b].present
      BY <1>7, <3>2 DEF MERGE, KeepsOld
    <3> QED BY <3>1, <3>2
  <2>4. (\A k \in 1..Len(stack') : stack'[k][b].present => stack'[k][b].dflt)
          <=> /\ \A k \in 1..Len(stack) : stack[k][b].present => stack[k][b].dflt
              /\ s[b].present => s[b].dflt
    BY <1>5, <1>9, <2>3
  <2> QED BY <2>1, <2>2, <2>4
<1>20. PriorityPending'
  BY <1>1, <1>19 DEF PriorityPending
<1>21. AsDocumented'
  BY <1>1 DEF AsDocumented
<1> QED BY <1>12, <1>13, <1>15, <1>18, <1>20, <1>21 DEF AttrInv

(* "attribute ..." and the beginning of a packet: no data has been read.   *)
LEMMA ItemSteps ==
  ASSUME AttrInv, AttributeItem \/ StartSend
  PROVE  AttrInv'
<1>0. AttrTypeOK /\ ListPending /\ phase = "items"
  BY DEF AttrInv, AttributeItem, StartSend
<1>1. stack = << >> /\ documented = merge_attributes(default_attributes, list)
  BY <1>0 DEF ListPending
<1>2. stack' = stack /\ written' = written /\ documented' = documented /\ phase' \in {"items", "prefix"}
  BY <1>0 DEF AttributeItem, StartSend
<1>3. CASE AttributeItem
  <2>1. /\ default_attributes' = documented /\ list' = no_attributes
        /\ UNCHANGED <<phase, curr_attr>>
    BY <1>1, <1>3 DEF AttributeItem
  <2>2. documented' = merge_attributes(default_attributes', list')
    BY <1>0, <1>2, <2>1, MergeNothing DEF ListPending, AttrTypeOK
  <2>3. AttrTypeOK'
    BY <1>0, <1>2, <2>1, NoAttributes DEF AttrTypeOK
  <2>4. ListPending'
    BY <1>0, <1>1, <1>2, <2>1, <2>2 DEF ListPending, AllPresent
  <2> QED
    BY <1>0, <1>1, <1>2, <2>1, <2>3, <2>4
       DEF AttrInv, StackWritten, PriorityPending, StackPending, AsDocumented, Reading
<1>4. CASE StartSend
  <2>1. phase' = "prefix" /\ curr_attr' = default_attributes /\ UNCHANGED <<default_attributes, list>>
    BY <1>4 DEF StartSend
  <2>2. AttrTypeOK'
    BY <1>0, <1>2, <2>1 DEF AttrTypeOK
  <2>3. ListPending'
    BY <1>0, <1>1, <1>2, <2>1 DEF ListPending, AllPresent
  <2> QED
    BY <1>1, <1>2, <2>1, <2>2, <2>3
       DEF AttrInv, StackWritten, PriorityPending, StackPending, AsDocumented, Reading
<1> QED BY <1>3, <1>4

(* The data begins: nothing is pending.                                    *)
LEMMA PrefixStep ==
  ASSUME AttrInv, Prefix
  PROVE  AttrInv'
<1>0. AttrTypeOK /\ ListPending /\ phase = "prefix"
  BY DEF AttrInv, Prefix
<1>1. stack = << >> /\ curr_attr' = documented
  BY <1>0 DEF ListPending, Prefix
<1>2. /\ list' = no_attributes /\ phase' = "data"
      /\ UNCHANGED <<default_attributes, stack, written, documented>>
  BY DEF Prefix
<1>3. AttrTypeOK'
  BY <1>0, <1>1, <1>2, NoAttributes DEF AttrTypeOK
<1>4. ListPending'
  BY <1>0, <1>1, <1>2 DEF ListPending, AllPresent
<1>5. StackWritten' /\ PriorityPending' /\ StackPending' /\ AsDocumented'
  BY <1>1, <1>2 DEF StackWritten, PriorityPending, StackPending, AsDocumented
<1> QED BY <1>3, <1>4, <1>5 DEF AttrInv

(* A data value without settings: the lists move down by one.              *)
LEMMA HexValueStep ==
  ASSUME AttrInv, HexValue
  PROVE  AttrInv'
<1>0. /\ AttrTypeOK /\ StackWritten /\ ListPending /\ PriorityPending /\ StackPending
      /\ phase = "data"
  BY DEF AttrInv, HexValue
<1>1. /\ stack' = <<no_attributes>> \o stack
      /\ UNCHANGED <<default_attributes, phase, list, curr_attr, written, documented>>
  BY DEF HexValue
<1>2. /\ stack' \in Seq(Attributes) /\ Len(stack') = Len(stack) + 1 /\ Len(stack) \in Nat
      /\ stack'[1] = no_attributes
      /\ \A k \in 1..(Len(stack) + 1) : k # 1 => k - 1 \in 1..Len(stack) /\ stack'[k] = stack[k - 1]
  BY <1>0, <1>1, NoAttributes, PutOnTop DEF AttrTypeOK
<1>3. AttrTypeOK' /\ ListPending' /\ AsDocumented'
  BY <1>0, <1>1, <1>2 DEF AttrTypeOK, ListPending, AllPresent, AsDocumented
<1>4. ASSUME NEW k \in 1..Len(stack'), NEW a \in Attrs, stack'[k][a].present
      PROVE  /\ k - 1 \in 1..Len(stack) /\ stack'[k] = stack[k - 1]
             /\ Len(stack') - k + 1 = Len(stack) - (k - 1) + 1
  <2>1. k # 1
    BY <1>2, <1>4, NoAttributes
  <2> QED BY <1>2, <2>1
<1>5. StackWritten'
  <2> SUFFICES ASSUME NEW k \in 1..Len(stack'), NEW a \in Attrs, stack'[k][a].present
               PROVE  \E i \in 1..Len(written) :
                        written[i].attr = a /\ written[i].at = Len(stack') - k + 1
    BY <1>1 DEF StackWritten
  <2>1. PICK i \in 1..Len(written) : written[i].attr = a /\ written[i].at = Len(stack) - (k - 1) + 1
    BY <1>0, <1>4 DEF StackWritten
  <2> QED BY <1>4, <2>1
<1>6. \A k \in 1..Len(stack) : k + 1 \in 1..Len(stack') /\ stack'[k + 1] = stack[k]
  <2> SUFFICES ASSUME NEW k \in 1..Len(stack)
               PROVE  k + 1 \in 1..Len(stack') /\ stack'[k + 1] = stack[k]
    OBVIOUS
  <2>1. k + 1 \in 1..(Len(stack) + 1) /\ k + 1 # 1 /\ (k + 1) - 1 = k
    BY <1>2
  <2> QED BY <1>2, <2>1
<1>7. StackPending'
  <2> SUFFICES ASSUME NEW a \in Attrs, BehindOne(a)
               PROVE  /\ (\A k \in 1..Len(stack') : ~stack'[k][a].present) => documented[a] = curr_attr[a]
                      /\ \A k \in 1..Len(stack') :
                           stack'[k][a].present => documented[a] = MERGE(curr_attr[a], stack'[k][a])
    BY <1>1 DEF StackPending, BehindOne
  <2>1. /\ (\A k \in 1..Len(stack) : ~stack[k][a].present) => documented[a] = curr_attr[a]
        /\ \A k \in 1..Len(stack) :
             stack[k][a].present => documented[a] = MERGE(curr_attr[a], stack[k][a])
    BY <1>0 DEF StackPending, Reading
  <2>2. (\A k \in 1..Len(stack') : ~stack'[k][a].present) => documented[a] = curr_attr[a]
    BY <1>6, <2>1
  <2>3. \A k \in 1..Len(stack') :
          stack'[k][a].present => documented[a] = MERGE(curr_attr[a], stack'[k][a])
    BY <1>4, <2>1
  <2> QED BY <2>2, <2>3
<1>8. PriorityPending'
  <2> SUFFICES ASSUME NEW a \in Attrs
               PROVE  (\A k \in 1..Len(stack') : stack'[k][a].present => stack'[k][a].dflt)
                        <=> \A k \in 1..Len(stack) : stack[k][a].present => stack[k][a].dflt
    BY <1>0, <1>1 DEF PriorityPending, Reading
  <2> QED BY <1>4, <1>6
<1> QED BY <1>3, <1>5, <1>7, <1>8 DEF AttrInv

(* The data ends, and the packet is sent: nothing is pending at the end.   *)
LEMMA EndSteps ==
  ASSUME AttrInv, EndOfData \/ CmdSend
  PROVE  AttrInv'
<1>0. /\ AttrTypeOK /\ StackWritten /\ ListPending /\ PriorityPending /\ StackPending
      /\ phase \in {"data", "reduce"}
  BY DEF AttrInv, EndOfData, CmdSend
<1>1. /\ UNCHANGED <<default_attributes, list, curr_attr, stack, written, documented>>
      /\ phase' \in {"reduce", "sent"}
      /\ phase' = "sent" => stack = << >>
  BY DEF EndOfData, CmdSend
<1>2. \A a \in Attrs : BehindOne(a)' <=> BehindOne(a)
  BY <1>1 DEF BehindOne
<1>3. AttrTypeOK' /\ ListPending' /\ StackWritten'
  BY <1>0, <1>1 DEF AttrTypeOK, ListPending, AllPresent, StackWritten
<1>4. PriorityPending' /\ StackPending'
  BY <1>0, <1>1, <1>2 DEF PriorityPending, StackPending, Reading
<1>5. AsDocumented'
  <2> SUFFICES ASSUME phase' = "sent", NEW a \in Attrs
               PROVE  /\ curr_attr[a].dflt <=> documented[a].dflt
                      /\ BehindOne(a) => curr_attr[a] = documented[a]
    BY <1>1, <1>2 DEF AsDocumented
  <2>1. Reading /\ \A k \in 1..Len(stack) : FALSE
    BY <1>0, <1>1 DEF Reading
  <2>2. curr_attr[a].dflt <=> documented[a].dflt
    BY <1>0, <2>1 DEF PriorityPending
  <2>3. BehindOne(a) => curr_attr[a] = documented[a]
    BY <1>0, <2>1 DEF StackPending
  <2> QED BY <2>2, <2>3
<1> QED BY <1>3, <1>4, <1>5 DEF AttrInv

(* The list of the last data value goes to curr_attr.                      *)
LEMMA ReduceStep ==
  ASSUME AttrInv, Reduce
  PROVE  AttrInv'
<1>0. /\ AttrTypeOK /\ StackWritten /\ ListPending /\ PriorityPending /\ StackPending
      /\ phase = "reduce"
  BY DEF AttrInv, Reduce
<1>1. /\ stack # << >> /\ curr_attr' = merge_attributes(curr_attr, Head(stack)) /\ stack' = Tail(stack)
      /\ UNCHANGED <<default_attributes, phase, list, written, documented>>
  BY DEF Reduce
<1>2. /\ stack \in Seq(Attributes) /\ Len(stack) \in Nat \ {0} /\ 1 \in 1..Len(stack)
      /\ Head(stack) = stack[1] /\ stack[1] \in Attributes
  BY <1>0, <1>1, LenProperties, EmptySeq, ElementOfSeq DEF AttrTypeOK
<1>3. /\ stack' \in Seq(Attributes) /\ Len(stack') = Len(stack) - 1
      /\ \A k \in 1..(Len(stack) - 1) : stack'[k] = stack[k + 1]
  BY <1>1, <1>2, HeadTailProperties
<1>4. /\ curr_attr' \in Attributes /\ AllPresent(curr_attr')
      /\ \A a \in Attrs : curr_attr'[a] = MERGE(curr_attr[a], stack[1][a])
  BY <1>0, <1>1, <1>2, MergeType, MergeOf, MergeAllPresent DEF AttrTypeOK, ListPending
<1>5. AttrTypeOK' /\ ListPending' /\ AsDocumented'
  BY <1>0, <1>1, <1>3, <1>4 DEF AttrTypeOK, ListPending, AllPresent, AsDocumented
<1>6. ASSUME NEW k \in 1..Len(stack')
      PROVE  /\ k + 1 \in 1..Len(stack) /\ stack'[k] = stack[k + 1]
             /\ Len(stack') - k + 1 = Len(stack) - (k + 1) + 1
  BY <1>2, <1>3
<1>7. StackWritten'
  <2> SUFFICES ASSUME NEW k \in 1..Len(stack'), NEW a \in Attrs, stack'[k][a].present
               PROVE  \E i \in 1..Len(written) :
                        written[i].attr = a /\ written[i].at = Len(stack') - k + 1
    BY <1>1 DEF StackWritten
  <2>1. PICK i \in 1..Len(written) : written[i].attr = a /\ written[i].at = Len(stack) - (k + 1) + 1
    BY <1>0, <1>6 DEF StackWritten
  <2> QED BY <1>6, <2>1
<1>8. \A k \in 1..Len(stack) : k # 1 => k - 1 \in 1..Len(stack') /\ stack'[k - 1] = stack[k]
  <2> SUFFICES ASSUME NEW k \in 1..Len(stack), k # 1
               PROVE  k - 1 \in 1..Len(stack') /\ stack'[k - 1] = stack[k]
    OBVIOUS
  <2>1. k - 1 \in 1..(Len(stack) - 1) /\ (k - 1) + 1 = k
    BY <1>2
  <2> QED BY <1>3, <2>1
<1>9. StackPending'
  <2> SUFFICES ASSUME NEW a \in Attrs, BehindOne(a)
               PROVE  /\ (\A k \in 1..Len(stack') : ~stack'[k][a].present) => documented[a] = curr_attr'[a]
                      /\ \A k \in 1..Len(stack') :
                           stack'[k][a].present => documented[a] = MERGE(curr_attr'[a], stack'[k][a])
    BY <1>1 DEF StackPending, BehindOne
  <2>1. /\ (\A k \in 1..Len(stack) : ~stack[k][a].present) => documented[a] = curr_attr[a]
        /\ \A k \in 1..Len(stack) :
             stack[k][a].present => documented[a] = MERGE(curr_attr[a], stack[k][a])
    BY <1>0 DEF StackPending, Reading
  <2>2. CASE stack[1][a].present
    <3>1. ASSUME NEW k \in 1..Len(stack), stack[k][a].present PROVE k = 1
      <4>1. PICK i \in 1..Len(written) : written[i].attr = a /\ written[i].at = Len(stack) - k + 1
        BY <1>0, <3>1 DEF StackWritten
      <4>2. PICK j \in 1..Len(written) : written[j].attr = a /\ written[j].at = Len(stack) - 1 + 1
        BY <1>0, <1>2, <2>2 DEF StackWritten
      <4>3. written[i].at > 0 /\ written[j].at > 0
        BY <1>2, <4>1, <4>2
      <4>4. written[i].at = written[j].at
        BY <4>1, <4>2, <4>3 DEF BehindOne
      <4> QED BY <1>2, <4>1, <4>2, <4>4
    <3>2. \A k \in 1..Len(stack') : ~stack'[k][a].present
      <4> SUFFICES ASSUME NEW k \in 1..Len(stack'), stack'[k][a].present PROVE FALSE
        OBVIOUS
      <4>1. k + 1 = 1
        BY <1>6, <3>1
      <4> QED BY <1>2, <1>3, <4>1
    <3>3. documented[a] = curr_attr'[a]
      BY <1>2, <1>4, <2>1, <2>2
    <3> QED BY <3>2, <3>3
  <2>3. CASE ~stack[1][a].present
    <3>1. curr_attr'[a] = curr_attr[a]
      BY <1>0, <1>4, <2>3, MergeAbsent DEF ListPending, AllPresent
    <3>2. (\A k \in 1..Len(stack') : ~stack'[k][a].present) => documented[a] = curr_attr[a]
      BY <1>8, <2>1, <2>3
    <3>3. \A k \in 1..Len(stack') :
            stack'[k][a].present => documented[a] = MERGE(curr_attr[a], stack'[k][a])
      BY <1>6, <2>1
    <3> QED BY <3>1, <3>2, <3>3
  <2> QED BY <2>2, <2>3
<1>10. PriorityPending'
  <2> SUFFICES ASSUME NEW a \in Attrs
               PROVE  documented[a].dflt <=>
                        /\ curr_attr'[a].dflt
                        /\ \A k \in 1..Len(stack') : stack'[k][a].present => stack'[k][a].dflt
    BY <1>1 DEF PriorityPending
  <2>1. documented[a].dflt <=>
          curr_attr[a].dflt /\ \A k \in 1..Len(stack) : stack[k][a].present => stack[k][a].dflt
    BY <1>0 DEF PriorityPending, Reading
  <2>2. curr_attr'[a].dflt <=> curr_attr[a].dflt /\ (stack[1][a].present => stack[1][a].dflt)
    BY <1>0, <1>4, MergeDflt DEF ListPending, AllPresent
  <2>3. (\A k \in 1..Len(stack) : stack[k][a].present => stack[k][a].dflt)
          <=> /\ stack[1][a].present => stack[1][a].dflt
              /\ \A k \in 1..Len(stack') : stack'[k][a].present => stack'[k][a].dflt
    BY <1>2, <1>6, <1>8
  <2> QED BY <2>1, <2>2, <2>3
<1> QED BY <1>5, <1>7, <1>9, <1>10 DEF AttrInv

-----------------------------------------------------------------------------
(* The whole script *)

(* What is merged and what is pending amount to what has been written.     *)
THEOREM AttrInvariant == AttrSpec => []AttrInv
<1>1. AttrInit => AttrInv
  <2> SUFFICES ASSUME AttrInit PROVE AttrInv
    OBVIOUS
  <2>1. initial_attributes \in Attributes /\ AllPresent(initial_attributes)
    BY ZeroAssumption DEF initial_attributes, Attributes, Slot, AllPresent
  <2>2. AttrTypeOK
    BY <2>1, NoAttributes DEF AttrInit, AttrTypeOK
  <2>3. documented = merge_attributes(default_attributes, list)
    BY <2>1, MergeNothing DEF AttrInit
  <2>4. ListPending
    BY <2>1, <2>3 DEF AttrInit, ListPending
  <2> QED BY <2>2, <2>4 DEF AttrInit, AttrInv, StackWritten, PriorityPending, StackPending, AsDocumented, Reading
<1>2. AttrInv /\ [AttrNext]_attrVars => AttrInv'
  <2> SUFFICES ASSUME AttrInv, [AttrNext]_attrVars PROVE AttrInv'
    OBVIOUS
  <2>1. ASSUME NEW a \in Attrs, NEW v \in Values, NEW d \in BOOLEAN, NextSetting(a, v, d)
        PROVE  AttrInv'
    BY <2>1, SettingInList, SettingInData
  <2>2. CASE AttributeItem \/ StartSend
    BY <2>2, ItemSteps
  <2>3. CASE Prefix
    BY <2>3, PrefixStep
  <2>4. CASE HexValue
    BY <2>4, HexValueStep
  <2>5. CASE EndOfData \/ CmdSend
    BY <2>5, EndSteps
  <2>6. CASE Reduce
    BY <2>6, ReduceStep
  <2>7. CASE UNCHANGED attrVars
    BY <2>7 DEF attrVars, AttrInv, AttrTypeOK, StackWritten, ListPending, PriorityPending,
                StackPending, AsDocumented, BehindOne, Reading, AllPresent
  <2> QED BY <2>1, <2>2, <2>3, <2>4, <2>5, <2>6, <2>7 DEF AttrNext
<1> QED BY <1>1, <1>2, PTL DEF AttrSpec

(* A packet is sent with the priorities that the settings give as          *)
(* doc/tcsim.inc describes them, one after the other as they are written,  *)
(* and with the value of every attribute that is set behind at most one    *)
(* data value, although cfg.y merges the lists behind the data from the    *)
(* last value to the first.  It says nothing of the value of an attribute  *)
(* set behind several data values: there cfg.y departs from the sentence.  *)
THEOREM SentAsDocumented == AttrSpec => []AsDocumented
<1>1. AttrInv => AsDocumented
  BY DEF AttrInv
<1> QED BY <1>1, AttrInvariant, PTL

=============================================================================
