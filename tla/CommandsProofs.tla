--------------------------- MODULE CommandsProofs --------------------------
(***************************************************************************)
(* Proofs about Commands, for any commands, variables and struct every     *)
(* objects: the reference counts of command.c are exact, nothing that was  *)
(* freed is used again, and after END only variables keep commands.        *)
(***************************************************************************)
EXTENDS Commands, FiniteSetTheorems, SequenceTheorems, TLAPS

(* The stack of calls: its first element is the innermost call.            *)
LEMMA TopFacts ==
  ASSUME NEW S, NEW s \in Seq(S), s # << >>
  PROVE  /\ Len(s) \in Nat \ {0} /\ 1 \in 1..Len(s)
         /\ Head(s) = s[1] /\ s[1] \in S
         /\ Tail(s) \in Seq(S) /\ Len(Tail(s)) = Len(s) - 1
         /\ \A i \in 1..(Len(s) - 1) : Tail(s)[i] = s[i + 1]
<1>1. Len(s) \in Nat \ {0} /\ 1 \in 1..Len(s)
  BY LenProperties, EmptySeq
<1>2. Head(s) = s[1] /\ s[1] \in S
  BY <1>1, ElementOfSeq
<1> QED BY <1>1, <1>2, HeadTailProperties

(* The innermost call is replaced by another one.                          *)
LEMMA ReplaceFacts ==
  ASSUME NEW S, NEW s \in Seq(S), s # << >>, NEW x \in S
  PROVE  /\ <<x>> \o Tail(s) \in Seq(S)
         /\ Len(<<x>> \o Tail(s)) = Len(s)
         /\ (<<x>> \o Tail(s))[1] = x
         /\ \A i \in 2..Len(s) : (<<x>> \o Tail(s))[i] = s[i]
<1> DEFINE u == Tail(s)
<1>1. /\ Len(s) \in Nat \ {0} /\ u \in Seq(S) /\ Len(u) = Len(s) - 1
      /\ \A i \in 1..(Len(s) - 1) : u[i] = s[i + 1]
  BY TopFacts
<1>2. <<x>> \in Seq(S) /\ Len(<<x>>) = 1 /\ <<x>>[1] = x
  OBVIOUS
<1> HIDE DEF u
<1>3. /\ <<x>> \o u \in Seq(S)
      /\ Len(<<x>> \o u) = Len(<<x>>) + Len(u)
      /\ \A i \in 1..(Len(<<x>>) + Len(u)) :
           (<<x>> \o u)[i] = IF i <= Len(<<x>>) THEN <<x>>[i] ELSE u[i - Len(<<x>>)]
  BY <1>1, <1>2, ConcatProperties
<1>4. Len(<<x>>) + Len(u) = Len(s)
  BY <1>1, <1>2
<1>5. (<<x>> \o u)[1] = x
  BY <1>1, <1>2, <1>3, <1>4
<1>6. ASSUME NEW i \in 2..Len(s) PROVE (<<x>> \o u)[i] = s[i]
  <2>1. i \in 1..(Len(<<x>>) + Len(u)) /\ ~(i <= Len(<<x>>)) /\ i - Len(<<x>>) = i - 1
    BY <1>1, <1>2, <1>4
  <2>2. i - 1 \in 1..(Len(s) - 1) /\ (i - 1) + 1 = i
    BY <1>1
  <2>3. u[i - 1] = s[i]
    BY <1>1, <2>2
  <2> QED BY <1>3, <2>1, <2>3
<1> QED BY <1>3, <1>4, <1>5, <1>6 DEF u

(* The innermost call is replaced by two.                                  *)
LEMMA ReplaceTwoFacts ==
  ASSUME NEW S, NEW s \in Seq(S), s # << >>, NEW x \in S, NEW y \in S
  PROVE  /\ <<x, y>> \o Tail(s) \in Seq(S)
         /\ Len(<<x, y>> \o Tail(s)) = Len(s) + 1
         /\ (<<x, y>> \o Tail(s))[1] = x
         /\ (<<x, y>> \o Tail(s))[2] = y
         /\ \A i \in 2..Len(s) : (<<x, y>> \o Tail(s))[i + 1] = s[i]
<1> DEFINE u == Tail(s)
           q == <<x, y>>
<1>1. /\ Len(s) \in Nat \ {0} /\ u \in Seq(S) /\ Len(u) = Len(s) - 1
      /\ \A i \in 1..(Len(s) - 1) : u[i] = s[i + 1]
  BY TopFacts
<1>2. q \in Seq(S) /\ Len(q) = 2 /\ q[1] = x /\ q[2] = y
  OBVIOUS
<1> HIDE DEF u, q
<1>3. /\ q \o u \in Seq(S)
      /\ Len(q \o u) = Len(q) + Len(u)
      /\ \A i \in 1..(Len(q) + Len(u)) :
           (q \o u)[i] = IF i <= Len(q) THEN q[i] ELSE u[i - Len(q)]
  BY <1>1, <1>2, ConcatProperties
<1>4. Len(q) + Len(u) = Len(s) + 1
  BY <1>1, <1>2
<1>5. (q \o u)[1] = x /\ (q \o u)[2] = y
  BY <1>1, <1>2, <1>3, <1>4
<1>6. ASSUME NEW i \in 2..Len(s) PROVE (q \o u)[i + 1] = s[i]
  <2>1. i + 1 \in 1..(Len(q) + Len(u)) /\ ~(i + 1 <= Len(q)) /\ (i + 1) - Len(q) = i - 1
    BY <1>1, <1>2, <1>4
  <2>2. i - 1 \in 1..(Len(s) - 1) /\ (i - 1) + 1 = i
    BY <1>1
  <2>3. u[i - 1] = s[i]
    BY <1>1, <2>2
  <2> QED BY <1>3, <2>1, <2>3
<1> QED BY <1>3, <1>4, <1>5, <1>6 DEF u, q

-----------------------------------------------------------------------------

(* The call of the innermost position has the highest depth.               *)
LEMMA FreesTop ==
  ASSUME NEW s \in Seq(Calls), s # << >>, NEW c
  PROVE  Len(s) - 1 \in FreesOf(s, c) <=> s[1] = Free(c)
<1>1. Len(s) \in Nat \ {0} /\ 1 \in 1..Len(s)
  BY TopFacts
<1>2. \A k \in 1..Len(s) : Len(s) - k = Len(s) - 1 => k = 1
  BY <1>1
<1> QED BY <1>1, <1>2 DEF FreesOf

(* A call that returns takes its own position with it and no other.        *)
LEMMA FreesPop ==
  ASSUME NEW s \in Seq(Calls), s # << >>, NEW c
  PROVE  FreesOf(Tail(s), c) = FreesOf(s, c) \ {Len(s) - 1}
<1> DEFINE u == Tail(s)
<1>1. /\ Len(s) \in Nat \ {0} /\ Len(u) = Len(s) - 1
      /\ \A i \in 1..(Len(s) - 1) : u[i] = s[i + 1]
  BY TopFacts
<1> HIDE DEF u
<1>2. ASSUME NEW n \in FreesOf(u, c) PROVE n \in FreesOf(s, c) \ {Len(s) - 1}
  <2>1. PICK k \in 1..Len(u) : u[k] = Free(c) /\ n = Len(u) - k
    BY DEF FreesOf
  <2>2. k + 1 \in 1..Len(s) /\ s[k + 1] = Free(c) /\ n = Len(s) - (k + 1) /\ n # Len(s) - 1
    BY <1>1, <2>1
  <2> QED BY <2>2 DEF FreesOf
<1>3. ASSUME NEW n \in FreesOf(s, c), n # Len(s) - 1 PROVE n \in FreesOf(u, c)
  <2>1. PICK k \in 1..Len(s) : s[k] = Free(c) /\ n = Len(s) - k
    BY DEF FreesOf
  <2>2. k - 1 \in 1..Len(u) /\ u[k - 1] = Free(c) /\ n = Len(u) - (k - 1)
    BY <1>1, <1>3, <2>1
  <2> QED BY <2>2 DEF FreesOf
<1> QED BY <1>2, <1>3 DEF u

(* A call that is replaced by another one.                                 *)
LEMMA FreesReplace ==
  ASSUME NEW s \in Seq(Calls), s # << >>, NEW x \in Calls, NEW c
  PROVE  FreesOf(<<x>> \o Tail(s), c) =
           (FreesOf(s, c) \ {Len(s) - 1}) \cup (IF x = Free(c) THEN {Len(s) - 1} ELSE {})
<1> DEFINE u == <<x>> \o Tail(s)
<1>1. /\ Len(s) \in Nat \ {0} /\ Len(u) = Len(s) /\ u[1] = x
      /\ \A i \in 2..Len(s) : u[i] = s[i]
  BY TopFacts, ReplaceFacts
<1> HIDE DEF u
<1>2. ASSUME NEW k \in 1..Len(s), k # 1
      PROVE  u[k] = s[k] /\ Len(s) - k # Len(s) - 1
  BY <1>1, <1>2
<1>3. ASSUME NEW n \in FreesOf(u, c)
      PROVE  n \in (FreesOf(s, c) \ {Len(s) - 1}) \cup (IF x = Free(c) THEN {Len(s) - 1} ELSE {})
  <2>1. PICK k \in 1..Len(s) : u[k] = Free(c) /\ n = Len(s) - k
    BY <1>1 DEF FreesOf
  <2>2. CASE k = 1
    BY <1>1, <2>1, <2>2
  <2>3. CASE k # 1
    BY <1>2, <2>1, <2>3 DEF FreesOf
  <2> QED BY <2>2, <2>3
<1>4. ASSUME NEW n \in FreesOf(s, c), n # Len(s) - 1
      PROVE  n \in FreesOf(u, c)
  <2>1. PICK k \in 1..Len(s) : s[k] = Free(c) /\ n = Len(s) - k
    BY DEF FreesOf
  <2>2. k # 1
    BY <1>4, <2>1
  <2> QED BY <1>1, <1>2, <2>1, <2>2 DEF FreesOf
<1>5. x = Free(c) => Len(s) - 1 \in FreesOf(u, c)
  BY <1>1 DEF FreesOf
<1> QED BY <1>3, <1>4, <1>5 DEF u

(* A call that is replaced by two that free nothing.                       *)
LEMMA FreesReplaceTwo ==
  ASSUME NEW s \in Seq(Calls), s # << >>, NEW x \in Calls, NEW y \in Calls, NEW c,
         x # Free(c), y # Free(c)
  PROVE  FreesOf(<<x, y>> \o Tail(s), c) = FreesOf(s, c) \ {Len(s) - 1}
<1> DEFINE u == <<x, y>> \o Tail(s)
<1>1. /\ Len(s) \in Nat \ {0} /\ Len(u) = Len(s) + 1 /\ u[1] = x /\ u[2] = y
      /\ \A i \in 2..Len(s) : u[i + 1] = s[i]
  BY TopFacts, ReplaceTwoFacts
<1> HIDE DEF u
<1>2. ASSUME NEW n \in FreesOf(u, c) PROVE n \in FreesOf(s, c) \ {Len(s) - 1}
  <2>1. PICK k \in 1..Len(u) : u[k] = Free(c) /\ n = Len(u) - k
    BY DEF FreesOf
  <2>2. k # 1 /\ k # 2
    BY <1>1, <2>1
  <2>3. k - 1 \in 2..Len(s) /\ (k - 1) + 1 = k
    BY <1>1, <2>2
  <2>4. s[k - 1] = Free(c)
    BY <1>1, <2>1, <2>3
  <2>5. k - 1 \in 1..Len(s) /\ n = Len(s) - (k - 1) /\ n # Len(s) - 1
    BY <1>1, <2>1, <2>3
  <2> QED BY <2>4, <2>5 DEF FreesOf
<1>3. ASSUME NEW n \in FreesOf(s, c), n # Len(s) - 1 PROVE n \in FreesOf(u, c)
  <2>1. PICK k \in 1..Len(s) : s[k] = Free(c) /\ n = Len(s) - k
    BY DEF FreesOf
  <2>2. k \in 2..Len(s)
    BY <1>1, <1>3, <2>1
  <2>3. u[k + 1] = Free(c) /\ k + 1 \in 1..Len(u) /\ n = Len(u) - (k + 1)
    BY <1>1, <2>1, <2>2
  <2> QED BY <2>3 DEF FreesOf
<1> QED BY <1>2, <1>3 DEF u

(* The same when the call that goes does not free c.                       *)
LEMMA FreesKept ==
  ASSUME NEW s \in Seq(Calls), s # << >>, NEW c, s[1] # Free(c),
         NEW u, u = Tail(s)
  PROVE  FreesOf(u, c) = FreesOf(s, c)
<1>1. Len(s) - 1 \notin FreesOf(s, c)
  BY FreesTop
<1>2. FreesOf(Tail(s), c) = FreesOf(s, c) \ {Len(s) - 1}
  BY FreesPop
<1> QED BY <1>1, <1>2

LEMMA FreesChanged ==
  ASSUME NEW s \in Seq(Calls), s # << >>, NEW c, s[1] # Free(c), NEW x \in Calls
  PROVE  /\ Len(s) - 1 \notin FreesOf(s, c)
         /\ FreesOf(<<x>> \o Tail(s), c) =
              FreesOf(s, c) \cup (IF x = Free(c) THEN {Len(s) - 1} ELSE {})
<1>1. Len(s) - 1 \notin FreesOf(s, c)
  BY FreesTop
<1>2. FreesOf(<<x>> \o Tail(s), c) =
        (FreesOf(s, c) \ {Len(s) - 1}) \cup (IF x = Free(c) THEN {Len(s) - 1} ELSE {})
  BY FreesReplace
<1> QED BY <1>1, <1>2

(* Counting owners: one comes, one goes, or one takes the place of another.*)
LEMMA OwnerGained ==
  ASSUME NEW S, IsFiniteSet(S), NEW y, y \notin S, NEW T, T = S \cup {y}
  PROVE  IsFiniteSet(T) /\ Cardinality(T) = Cardinality(S) + 1
  BY FS_AddElement

LEMMA OwnerLost ==
  ASSUME NEW S, IsFiniteSet(S), NEW x \in S, NEW T, T = S \ {x}
  PROVE  IsFiniteSet(T) /\ Cardinality(T) = Cardinality(S) - 1
  BY FS_RemoveElement

LEMMA OwnerMoved ==
  ASSUME NEW S, IsFiniteSet(S), NEW x \in S, NEW y, y \notin S,
         NEW T, T = (S \ {x}) \cup {y}
  PROVE  IsFiniteSet(T) /\ Cardinality(T) = Cardinality(S)
<1> DEFINE R == S \ {x}
<1>1. IsFiniteSet(R) /\ Cardinality(R) = Cardinality(S) - 1
  BY OwnerLost
<1>2. y \notin R /\ T = R \cup {y}
  OBVIOUS
<1> HIDE DEF R
<1>3. IsFiniteSet(T) /\ Cardinality(T) = Cardinality(R) + 1
  BY <1>1, <1>2, OwnerGained
<1> QED BY <1>1, <1>3, FS_CardinalityType

-----------------------------------------------------------------------------

LEMMA CallFacts ==
  /\ \A c \in Cmds : Run(c) \in Calls /\ Free(c) \in Calls
  /\ \A d \in Dscs : Do(d) \in Calls /\ After(d) \in Calls
  /\ \A c, e : Free(c) = Free(e) => c = e
  /\ \A c, e : Run(c) # Free(e) /\ Do(c) # Free(e) /\ After(c) # Free(e)
  /\ \A c : /\ Run(c).fn = "cmd_run" /\ Run(c).cmd = c
           /\ Free(c).fn = "cmd_free" /\ Free(c).cmd = c
           /\ Do(c).fn = "do_every" /\ Do(c).dsc = c /\ Do(c).cmd = NULL
           /\ After(c).fn = "after" /\ After(c).dsc = c /\ After(c).cmd = NULL
  BY DEF Calls, Run, Free, Do, After

LEMMA FreesNone ==
  ASSUME NEW c PROVE FreesOf(<< >>, c) = {}
  BY DEF FreesOf

(* The count of c is exact.                                                *)
Accounted(c) ==
  /\ IsFiniteSet(Owners(c))
  /\ ref[c] = Cardinality(Owners(c)) + lost[c]
  /\ ref[c] > 0

LEMMA Accounts ==
  ASSUME CmdInv, NEW c \in live
  PROVE  /\ Accounted(c) /\ ref[c] \in Nat /\ lost[c] \in Nat
         /\ Cardinality(Owners(c)) \in Nat
  BY FS_CardinalityType DEF CmdInv, CmdTypeOK, RefsExact, Accounted

(* A step that leaves the owners and the counts of e alone.                *)
LEMMA AccountKept ==
  ASSUME NEW e, Accounted(e), Owners(e)' = Owners(e), ref'[e] = ref[e], lost'[e] = lost[e]
  PROVE  Accounted(e)'
  BY DEF Accounted

(* A reference changes hands.                                              *)
LEMMA AccountMoved ==
  ASSUME NEW e, Accounted(e), ref'[e] = ref[e], lost'[e] = lost[e],
         NEW x \in Owners(e), NEW y, y \notin Owners(e),
         Owners(e)' = (Owners(e) \ {x}) \cup {y}
  PROVE  Accounted(e)'
<1>1. IsFiniteSet(Owners(e)') /\ Cardinality(Owners(e)') = Cardinality(Owners(e))
  BY OwnerMoved DEF Accounted
<1> QED BY <1>1 DEF Accounted

(* cmd_clone: one more owner, and the count goes up.                       *)
LEMMA AccountGained ==
  ASSUME NEW e, Accounted(e), ref[e] \in Nat, lost[e] \in Nat,
         ref'[e] = ref[e] + 1, lost'[e] = lost[e],
         NEW y, y \notin Owners(e), Owners(e)' = Owners(e) \cup {y}
  PROVE  Accounted(e)'
<1>1. IsFiniteSet(Owners(e)') /\ Cardinality(Owners(e)') = Cardinality(Owners(e)) + 1
  BY OwnerGained DEF Accounted
<1>2. Cardinality(Owners(e)) \in Nat
  BY FS_CardinalityType DEF Accounted
<1> QED BY <1>1, <1>2 DEF Accounted

(* One owner less: the count goes down, or the reference is lost.          *)
LEMMA AccountLost ==
  ASSUME NEW e, Accounted(e), ref[e] \in Nat, lost[e] \in Nat,
         \/ ref'[e] = ref[e] - 1 /\ lost'[e] = lost[e] /\ ref[e] > 1
         \/ ref'[e] = ref[e] /\ lost'[e] = lost[e] + 1,
         NEW x \in Owners(e), Owners(e)' = Owners(e) \ {x}
  PROVE  Accounted(e)'
<1>1. IsFiniteSet(Owners(e)') /\ Cardinality(Owners(e)') = Cardinality(Owners(e)) - 1
  BY OwnerLost DEF Accounted
<1>2. Cardinality(Owners(e)) \in Nat
  BY FS_CardinalityType DEF Accounted
<1> QED BY <1>1, <1>2 DEF Accounted

-----------------------------------------------------------------------------

(* cmd_tc, cmd_send, cmd_poll and cmd_echo: the new command is owned by    *)
(* the parser alone.                                                       *)
LEMMA ParseLeafPreserves ==
  ASSUME CmdInv, NEW c \in Cmds, ParseLeaf(c)
  PROVE  CmdInv'
<1>0. /\ calls = << >> /\ cur = NULL /\ c \notin live
      /\ live' = live \cup {c} /\ ref' = [ref EXCEPT ![c] = 1]
      /\ child' = [child EXCEPT ![c] = NULL] /\ lost' = [lost EXCEPT ![c] = 0]
      /\ cur' = c
      /\ UNCHANGED <<var, dsc, armed, calls, terminating>>
  BY DEF ParseLeaf, Quiet, Alloc
<1>1. CmdTypeOK'
  BY <1>0 DEF CmdInv, CmdTypeOK
<1>2. ASSUME NEW e \in live PROVE Accounted(e)'
  <2>1. Owners(e)' = Owners(e)
    BY <1>0, NullAssumption DEF Owners, CmdInv, CmdTypeOK
  <2>2. ref'[e] = ref[e] /\ lost'[e] = lost[e]
    BY <1>0 DEF CmdInv, CmdTypeOK
  <2> QED BY <2>1, <2>2, Accounts, AccountKept
<1>3. Accounted(c)'
  <2>1. Owners(c)' = {<<"parser", c>>}
    BY <1>0, FreesNone, NullAssumption DEF Owners, CmdInv, CmdTypeOK, NoDangling
  <2>2. IsFiniteSet(Owners(c)') /\ Cardinality(Owners(c)') = 1
    BY <2>1, FS_Singleton
  <2>3. ref'[c] = 1 /\ lost'[c] = 0
    BY <1>0 DEF CmdInv, CmdTypeOK
  <2> QED BY <2>2, <2>3 DEF Accounted
<1>4. (RefsExact /\ \A e \in live : IsFiniteSet(Owners(e)))'
  BY <1>0, <1>2, <1>3 DEF Accounted, RefsExact
<1>5. NoDangling'
  BY <1>0 DEF CmdInv, CmdTypeOK, NoDangling
<1>6. RunsAreBacked' /\ EverysAreHeld'
  BY <1>0 DEF CmdInv, RunsAreBacked, EverysAreHeld
<1> QED BY <1>0, <1>1, <1>4, <1>5, <1>6 DEF CmdInv

(* "every": the reference of the parser becomes that of the new command.   *)
LEMMA ParseEveryPreserves ==
  ASSUME CmdInv, NEW c \in Cmds, ParseEvery(c)
  PROVE  CmdInv'
<1>0. /\ calls = << >> /\ cur # NULL /\ c \notin live
      /\ live' = live \cup {c} /\ ref' = [ref EXCEPT ![c] = 1]
      /\ child' = [child EXCEPT ![c] = cur] /\ lost' = [lost EXCEPT ![c] = 0]
      /\ cur' = c
      /\ UNCHANGED <<var, dsc, armed, calls, terminating>>
  BY DEF ParseEvery, Quiet, Alloc
<1>1. CmdTypeOK'
  BY <1>0 DEF CmdInv, CmdTypeOK
<1>2. cur \in live /\ cur # c
  BY <1>0 DEF CmdInv, NoDangling
<1>3. ASSUME NEW e \in live PROVE Accounted(e)'
  <2>1. ref'[e] = ref[e] /\ lost'[e] = lost[e]
    BY <1>0 DEF CmdInv, CmdTypeOK
  <2>2. CASE e # cur
    <3>1. Owners(e)' = Owners(e)
      BY <1>0, <2>2 DEF Owners, CmdInv, CmdTypeOK
    <3> QED BY <2>1, <3>1, Accounts, AccountKept
  <2>3. CASE e = cur
    <3>1. /\ <<"parser", e>> \in Owners(e) /\ <<"every", c>> \notin Owners(e)
          /\ Owners(e)' = (Owners(e) \ {<<"parser", e>>}) \cup {<<"every", c>>}
      BY <1>0, <1>2, <2>3 DEF Owners, CmdInv, CmdTypeOK
    <3> QED BY <2>1, <3>1, Accounts, AccountMoved
  <2> QED BY <2>2, <2>3
<1>4. Accounted(c)'
  <2>1. Owners(c)' = {<<"parser", c>>}
    BY <1>0, <1>2, FreesNone, NullAssumption DEF Owners, CmdInv, CmdTypeOK, NoDangling
  <2>2. IsFiniteSet(Owners(c)') /\ Cardinality(Owners(c)') = 1
    BY <2>1, FS_Singleton
  <2>3. ref'[c] = 1 /\ lost'[c] = 0
    BY <1>0 DEF CmdInv, CmdTypeOK
  <2> QED BY <2>2, <2>3 DEF Accounted
<1>5. (RefsExact /\ \A e \in live : IsFiniteSet(Owners(e)))'
  BY <1>0, <1>3, <1>4 DEF Accounted, RefsExact
<1>6. NoDangling'
  BY <1>0, <1>2 DEF CmdInv, CmdTypeOK, NoDangling
<1>7. RunsAreBacked' /\ EverysAreHeld'
  BY <1>0 DEF CmdInv, RunsAreBacked, EverysAreHeld
<1> QED BY <1>0, <1>1, <1>5, <1>6, <1>7 DEF CmdInv

(* "command $v" takes a reference of its own.                              *)
LEMMA ParseVariablePreserves ==
  ASSUME CmdInv, NEW v \in Vars, ParseVariable(v)
  PROVE  CmdInv'
<1>0. /\ calls = << >> /\ cur = NULL /\ var[v] # NULL
      /\ ref' = [ref EXCEPT ![var[v]] = @ + 1] /\ cur' = var[v]
      /\ UNCHANGED <<live, child, var, lost, dsc, armed, calls, terminating>>
  BY DEF ParseVariable, Quiet
<1>1. var[v] \in live /\ live \subseteq Cmds
  BY <1>0 DEF CmdInv, CmdTypeOK, NoDangling
<1>2. CmdTypeOK'
  BY <1>0, <1>1 DEF CmdInv, CmdTypeOK
<1>3. ASSUME NEW e \in live PROVE Accounted(e)'
  <2>1. lost'[e] = lost[e] /\ ref'[e] = IF e = var[v] THEN ref[e] + 1 ELSE ref[e]
    BY <1>0, <1>1 DEF CmdInv, CmdTypeOK
  <2>2. CASE e # var[v]
    <3>1. Owners(e)' = Owners(e)
      BY <1>0, <1>1, <2>2, NullAssumption DEF Owners
    <3> QED BY <2>1, <2>2, <3>1, Accounts, AccountKept
  <2>3. CASE e = var[v]
    <3>1. /\ <<"parser", e>> \notin Owners(e)
          /\ Owners(e)' = Owners(e) \cup {<<"parser", e>>}
      BY <1>0, <1>1, <2>3, NullAssumption DEF Owners
    <3> QED BY <2>1, <2>3, <3>1, Accounts, AccountGained
  <2> QED BY <2>2, <2>3
<1>4. (RefsExact /\ \A e \in live : IsFiniteSet(Owners(e)))'
  BY <1>0, <1>3 DEF Accounted, RefsExact
<1>5. NoDangling'
  BY <1>0, <1>1 DEF CmdInv, NoDangling
<1>6. RunsAreBacked' /\ EverysAreHeld'
  BY <1>0 DEF CmdInv, RunsAreBacked, EverysAreHeld
<1> QED BY <1>0, <1>2, <1>4, <1>5, <1>6 DEF CmdInv

(* "command $v = ...": the parser's reference goes to the variable, the    *)
(* one that the variable had is lost.                                      *)
LEMMA SetVarPreserves ==
  ASSUME CmdInv, NEW v \in Vars, SetVar(v)
  PROVE  CmdInv'
<1>0. /\ calls = << >> /\ cur # NULL /\ cur' = NULL
      /\ lost' = IF var[v] = NULL THEN lost ELSE [lost EXCEPT ![var[v]] = @ + 1]
      /\ var' = [var EXCEPT ![v] = cur]
      /\ UNCHANGED <<live, ref, child, dsc, armed, calls, terminating>>
  BY DEF SetVar, Quiet
<1>1. cur \in live /\ live \subseteq Cmds /\ (var[v] # NULL => var[v] \in live)
  BY <1>0 DEF CmdInv, CmdTypeOK, NoDangling
<1>2. CmdTypeOK'
  BY <1>0, <1>1 DEF CmdInv, CmdTypeOK
<1>3. ASSUME NEW e \in live PROVE Accounted(e)'
  <2>0. e # NULL
    BY <1>1, NullAssumption
  <2>1. ref'[e] = ref[e] /\ lost'[e] = IF e = var[v] THEN lost[e] + 1 ELSE lost[e]
    BY <1>0, <1>1, <2>0 DEF CmdInv, CmdTypeOK
  <2>2. CASE e # cur /\ e # var[v]
    <3>1. Owners(e)' = Owners(e)
      BY <1>0, <1>1, <2>0, <2>2 DEF Owners, CmdInv, CmdTypeOK
    <3> QED BY <2>1, <2>2, <3>1, Accounts, AccountKept
  <2>3. CASE e = cur /\ e # var[v]
    <3>1. /\ <<"parser", e>> \in Owners(e) /\ <<"var", v>> \notin Owners(e)
          /\ Owners(e)' = (Owners(e) \ {<<"parser", e>>}) \cup {<<"var", v>>}
      BY <1>0, <1>1, <2>0, <2>3 DEF Owners, CmdInv, CmdTypeOK
    <3> QED BY <2>1, <2>3, <3>1, Accounts, AccountMoved
  <2>4. CASE e # cur /\ e = var[v]
    <3>1. /\ <<"var", v>> \in Owners(e)
          /\ Owners(e)' = Owners(e) \ {<<"var", v>>}
      BY <1>0, <1>1, <2>0, <2>4 DEF Owners, CmdInv, CmdTypeOK
    <3> QED BY <2>1, <2>4, <3>1, Accounts, AccountLost
  <2>5. CASE e = cur /\ e = var[v]
    <3>1. /\ <<"parser", e>> \in Owners(e)
          /\ Owners(e)' = Owners(e) \ {<<"parser", e>>}
      BY <1>0, <1>1, <2>0, <2>5 DEF Owners, CmdInv, CmdTypeOK
    <3> QED BY <2>1, <2>5, <3>1, Accounts, AccountLost
  <2> QED BY <2>2, <2>3, <2>4, <2>5
<1>4. (RefsExact /\ \A e \in live : IsFiniteSet(Owners(e)))'
  BY <1>0, <1>3 DEF Accounted, RefsExact
<1>5. NoDangling'
  BY <1>0, <1>1 DEF CmdInv, CmdTypeOK, NoDangling
<1>6. RunsAreBacked' /\ EverysAreHeld'
  BY <1>0 DEF CmdInv, RunsAreBacked, EverysAreHeld
<1> QED BY <1>0, <1>2, <1>4, <1>5, <1>6 DEF CmdInv

(* A command as an item: the parser's reference goes to the cmd_free that  *)
(* is to come.                                                             *)
LEMMA CommandItemPreserves ==
  ASSUME CmdInv, CommandItem
  PROVE  CmdInv'
<1>0. /\ calls = << >> /\ cur # NULL /\ cur' = NULL
      /\ calls' = <<Run(cur), Free(cur)>> \/ calls' = <<Free(cur)>>
      /\ UNCHANGED <<live, ref, child, var, lost, dsc, armed, terminating>>
  BY DEF CommandItem, Quiet
<1>1. cur \in live /\ live \subseteq Cmds /\ Run(cur) \in Calls /\ Free(cur) \in Calls
  BY <1>0, CallFacts DEF CmdInv, CmdTypeOK, NoDangling
<1>2. CmdTypeOK'
  <2>1. <<Run(cur), Free(cur)>> \in Seq(Calls) /\ <<Free(cur)>> \in Seq(Calls)
    BY <1>1
  <2>2. calls' \in Seq(Calls)
    BY <1>0, <2>1
  <2> QED BY <1>0, <2>2, NullAssumption DEF CmdInv, CmdTypeOK
<1>3. ASSUME NEW e \in live
      PROVE  FreesOf(calls', e) = (IF e = cur THEN {0} ELSE {}) /\ FreesOf(calls, e) = {}
  <2>1. FreesOf(calls, e) = {}
    BY <1>0, FreesNone
  <2>2. Free(cur) = Free(e) <=> e = cur
    BY CallFacts
  <2>3. Run(cur) # Free(e)
    BY CallFacts
  <2>4. CASE calls' = <<Free(cur)>>
    <3>1. Len(calls') = 1 /\ calls'[1] = Free(cur) /\ 1..1 = {1}
      BY <2>4
    <3> QED BY <2>1, <2>2, <3>1 DEF FreesOf
  <2>5. CASE calls' = <<Run(cur), Free(cur)>>
    <3>1. Len(calls') = 2 /\ calls'[1] = Run(cur) /\ calls'[2] = Free(cur) /\ 1..2 = {1, 2}
      BY <2>5
    <3> QED BY <2>1, <2>2, <2>3, <3>1 DEF FreesOf
  <2> QED BY <1>0, <2>4, <2>5
<1>4. ASSUME NEW e \in live PROVE Accounted(e)'
  <2>0. e # NULL
    BY <1>1, NullAssumption
  <2>1. ref'[e] = ref[e] /\ lost'[e] = lost[e]
    BY <1>0
  <2>2. CASE e # cur
    <3>1. Owners(e)' = Owners(e)
      BY <1>0, <1>3, <2>0, <2>2 DEF Owners
    <3> QED BY <2>1, <3>1, Accounts, AccountKept
  <2>3. CASE e = cur
    <3>1. /\ <<"parser", e>> \in Owners(e) /\ <<"free", 0>> \notin Owners(e)
          /\ Owners(e)' = (Owners(e) \ {<<"parser", e>>}) \cup {<<"free", 0>>}
      BY <1>0, <1>3, <2>0, <2>3 DEF Owners
    <3> QED BY <2>1, <3>1, Accounts, AccountMoved
  <2> QED BY <2>2, <2>3
<1>5. (RefsExact /\ \A e \in live : IsFiniteSet(Owners(e)))'
  BY <1>0, <1>4 DEF Accounted, RefsExact
<1>6. \A i \in 1..Len(calls') : ~OfEvery(calls'[i]) /\ calls'[i].cmd = cur
  BY <1>0, CallFacts DEF OfEvery
<1>7. NoDangling'
  BY <1>0, <1>1, <1>6 DEF CmdInv, NoDangling
<1>8. RunsAreBacked'
  BY <1>0, CallFacts DEF RunsAreBacked
<1>9. EverysAreHeld'
  <2>1. \A d \in Dscs : dsc[d] # NULL => d \in armed
    BY <1>0 DEF CmdInv, EverysAreHeld
  <2> QED BY <1>0, <1>6, <2>1 DEF CmdInv, EverysAreHeld
<1> QED BY <1>0, <1>2, <1>5, <1>7, <1>8, <1>9 DEF CmdInv

-----------------------------------------------------------------------------

(* What the calls above the innermost one keep when it returns.            *)
LEMMA PopKeepsStack ==
  ASSUME CmdInv, calls # << >>, calls' = Tail(calls), ~OfEvery(calls[1]),
         dsc' = dsc, armed' = armed
  PROVE  /\ calls' \in Seq(Calls)
         /\ RunsAreBacked' /\ EverysAreHeld'
         /\ \A i \in 1..Len(calls') : i + 1 \in 1..Len(calls) /\ calls'[i] = calls[i + 1]
<1>1. calls \in Seq(Calls)
  BY DEF CmdInv, CmdTypeOK
<1>2. /\ Len(calls) \in Nat \ {0} /\ calls' \in Seq(Calls) /\ Len(calls') = Len(calls) - 1
      /\ \A i \in 1..(Len(calls) - 1) : calls'[i] = calls[i + 1]
  BY <1>1, TopFacts
<1>3. \A i \in 1..Len(calls') : i + 1 \in 1..Len(calls) /\ calls'[i] = calls[i + 1]
  BY <1>2
<1>4. RunsAreBacked'
  <2>1. \A i \in 1..Len(calls') : calls'[i].fn # "cmd_run"
    BY <1>2, <1>3 DEF CmdInv, RunsAreBacked
  <2> QED BY <2>1 DEF RunsAreBacked
<1>5. EverysAreHeld'
  <2>1. \A i \in 1..Len(calls') : OfEvery(calls'[i]) =>
          dsc'[calls'[i].dsc] # NULL /\ calls'[i].dsc \notin armed'
    BY <1>3 DEF CmdInv, EverysAreHeld
  <2>2. \A i, j \in 1..Len(calls') :
          OfEvery(calls'[i]) /\ OfEvery(calls'[j]) /\ calls'[i].dsc = calls'[j].dsc => i = j
    <3> SUFFICES ASSUME NEW i \in 1..Len(calls'), NEW j \in 1..Len(calls'),
                        OfEvery(calls'[i]), OfEvery(calls'[j]), calls'[i].dsc = calls'[j].dsc
                 PROVE  i = j
      OBVIOUS
    <3>1. i + 1 = j + 1
      BY <1>3 DEF CmdInv, EverysAreHeld
    <3> QED BY <1>2, <3>1
  <2>3. \A d \in armed' : dsc'[d] # NULL
    BY DEF CmdInv, EverysAreHeld
  <2>4. ASSUME NEW d \in Dscs, dsc'[d] # NULL, d \notin armed'
        PROVE  \E i \in 1..Len(calls') : OfEvery(calls'[i]) /\ calls'[i].dsc = d
    <3>1. PICK j \in 1..Len(calls) : OfEvery(calls[j]) /\ calls[j].dsc = d
      BY <2>4 DEF CmdInv, EverysAreHeld
    <3>2. j # 1
      BY <3>1
    <3>3. j - 1 \in 1..Len(calls') /\ calls'[j - 1] = calls[j]
      BY <1>2, <3>2
    <3> QED BY <3>1, <3>3
  <2> QED BY <2>1, <2>2, <2>3, <2>4 DEF EverysAreHeld
<1> QED BY <1>2, <1>3, <1>4, <1>5

LEMMA RunLeafPreserves ==
  ASSUME CmdInv, RunLeaf
  PROVE  CmdInv'
<1>0. /\ calls # << >> /\ Head(calls).fn = "cmd_run" /\ calls' = Tail(calls)
      /\ UNCHANGED <<live, ref, child, var, lost, dsc, armed, cur, terminating>>
  BY DEF RunLeaf, Call
<1>1. calls \in Seq(Calls) /\ calls[1].fn = "cmd_run" /\ ~OfEvery(calls[1])
  BY <1>0, TopFacts DEF CmdInv, CmdTypeOK, OfEvery
<1>2. /\ calls' \in Seq(Calls) /\ RunsAreBacked' /\ EverysAreHeld'
      /\ \A i \in 1..Len(calls') : i + 1 \in 1..Len(calls) /\ calls'[i] = calls[i + 1]
  BY <1>0, <1>1, PopKeepsStack
<1>3. CmdTypeOK'
  BY <1>0, <1>2 DEF CmdInv, CmdTypeOK
<1>4. ASSUME NEW e \in live PROVE Accounted(e)'
  <2>1. FreesOf(calls', e) = FreesOf(calls, e)
    <3>1. calls[1] # Free(e)
      BY <1>1, CallFacts
    <3> QED BY <1>0, <1>1, <3>1, FreesKept
  <2>2. Owners(e)' = Owners(e)
    BY <1>0, <2>1 DEF Owners
  <2> QED BY <1>0, <2>2, Accounts, AccountKept
<1>5. (RefsExact /\ \A e \in live : IsFiniteSet(Owners(e)))'
  BY <1>0, <1>4 DEF Accounted, RefsExact
<1>6. NoDangling'
  BY <1>0, <1>2 DEF CmdInv, NoDangling
<1> QED BY <1>0, <1>2, <1>3, <1>5, <1>6 DEF CmdInv

(* The innermost call is replaced by x, which runs nothing: what is left   *)
(* to be said of the stack.                                                *)
LEMMA ChangeKeepsStack ==
  ASSUME CmdInv, calls # << >>, NEW x \in Calls, x.fn # "cmd_run",
         calls' = <<x>> \o Tail(calls)
  PROVE  /\ calls' \in Seq(Calls) /\ Len(calls') = Len(calls) /\ calls'[1] = x
         /\ Len(calls) \in Nat \ {0} /\ 1 \in 1..Len(calls)
         /\ \A i \in 1..Len(calls) : i # 1 => calls'[i] = calls[i]
         /\ RunsAreBacked'
<1>1. /\ calls' \in Seq(Calls) /\ Len(calls') = Len(calls) /\ calls'[1] = x
      /\ Len(calls) \in Nat \ {0} /\ 1 \in 1..Len(calls)
      /\ \A i \in 2..Len(calls) : calls'[i] = calls[i]
  BY TopFacts, ReplaceFacts DEF CmdInv, CmdTypeOK
<1>2. \A i \in 1..Len(calls) : i # 1 => calls'[i] = calls[i]
  BY <1>1
<1>3. \A i \in 1..Len(calls') : calls'[i].fn # "cmd_run"
  BY <1>1, <1>2 DEF CmdInv, RunsAreBacked
<1> QED BY <1>1, <1>2, <1>3 DEF RunsAreBacked

(* cmd_run of an every: the new struct every has a reference of its own.   *)
LEMMA RunEveryPreserves ==
  ASSUME CmdInv, NEW d \in Dscs, RunEvery(d)
  PROVE  CmdInv'
<1> DEFINE k == child[Head(calls).cmd]
<1>0. calls \in Seq(Calls) /\ calls # << >> /\ Head(calls) = calls[1] /\ calls[1] \in Calls
  BY TopFacts DEF CmdInv, CmdTypeOK, RunEvery, Call
<1>1. /\ Head(calls).fn = "cmd_run" /\ k # NULL /\ dsc[d] = NULL
      /\ ref' = [ref EXCEPT ![k] = @ + 1] /\ dsc' = [dsc EXCEPT ![d] = k]
      /\ calls' = <<Do(d)>> \o Tail(calls)
      /\ UNCHANGED <<live, child, var, lost, armed, cur, terminating>>
  BY DEF RunEvery, Call
<1>2. Do(d) \in Calls /\ Do(d).fn = "do_every" /\ Do(d).dsc = d /\ Do(d).cmd = NULL
  BY CallFacts
<1>3. /\ calls' \in Seq(Calls) /\ Len(calls') = Len(calls) /\ calls'[1] = Do(d)
      /\ Len(calls) \in Nat \ {0} /\ 1 \in 1..Len(calls)
      /\ \A i \in 1..Len(calls) : i # 1 => calls'[i] = calls[i]
      /\ RunsAreBacked'
  BY <1>0, <1>1, <1>2, ChangeKeepsStack
<1>4. calls[1].cmd \in live /\ k \in live /\ live \subseteq Cmds
  <2>1. calls[1].cmd \in Cmds
    BY <1>0, <1>1 DEF Calls
  <2>2. calls[1].cmd \in live
    BY <1>3, <2>1, NullAssumption DEF CmdInv, NoDangling
  <2> QED BY <1>0, <1>1, <2>2 DEF CmdInv, CmdTypeOK, NoDangling
<1> HIDE DEF k
<1>5. CmdTypeOK'
  BY <1>1, <1>3, <1>4 DEF CmdInv, CmdTypeOK
<1>6. ASSUME NEW e \in live PROVE Accounted(e)'
  <2>1. FreesOf(calls', e) = FreesOf(calls, e)
    <3>1. calls[1] # Free(e) /\ Do(d) # Free(e)
      BY <1>0, <1>1, CallFacts
    <3>2. FreesOf(<<Do(d)>> \o Tail(calls), e) =
            FreesOf(calls, e) \cup (IF Do(d) = Free(e) THEN {Len(calls) - 1} ELSE {})
      BY <1>0, <1>2, <3>1, FreesChanged
    <3> QED BY <1>1, <3>1, <3>2
  <2>2. /\ lost'[e] = lost[e] /\ ref'[e] = (IF e = k THEN ref[e] + 1 ELSE ref[e])
        /\ \A f \in Dscs : dsc'[f] = IF f = d THEN k ELSE dsc[f]
    BY <1>1, <1>4 DEF CmdInv, CmdTypeOK
  <2>3. e # NULL
    BY <1>4, NullAssumption
  <2>4. CASE e # k
    <3>1. Owners(e)' = Owners(e)
      BY <1>1, <2>1, <2>2, <2>3, <2>4 DEF Owners
    <3> QED BY <2>2, <2>4, <3>1, Accounts, AccountKept
  <2>5. CASE e = k
    <3>1. /\ <<"dsc", d>> \notin Owners(e)
          /\ Owners(e)' = Owners(e) \cup {<<"dsc", d>>}
      BY <1>1, <2>1, <2>2, <2>3, <2>5 DEF Owners
    <3> QED BY <2>2, <2>5, <3>1, Accounts, AccountGained
  <2> QED BY <2>4, <2>5
<1>7. (RefsExact /\ \A e \in live : IsFiniteSet(Owners(e)))'
  BY <1>1, <1>6 DEF Accounted, RefsExact
<1>8. \A f \in Dscs : dsc'[f] = IF f = d THEN k ELSE dsc[f]
  BY <1>1 DEF CmdInv, CmdTypeOK
<1>9. NoDangling'
  BY <1>1, <1>2, <1>3, <1>4, <1>8 DEF CmdInv, NoDangling
<1>10. EverysAreHeld'
  <2>0. ~OfEvery(calls[1]) /\ OfEvery(calls'[1])
    BY <1>0, <1>1, <1>2, <1>3 DEF OfEvery
  <2>1. d \notin armed /\ armed \subseteq Dscs
    BY <1>1 DEF CmdInv, CmdTypeOK, EverysAreHeld
  <2>2. ASSUME NEW i \in 1..Len(calls), OfEvery(calls'[i]), i # 1
        PROVE  /\ calls'[i] = calls[i] /\ calls[i].dsc \in Dscs /\ calls[i].dsc # d
               /\ dsc[calls[i].dsc] # NULL /\ calls[i].dsc \notin armed
    <3>1. calls'[i] = calls[i] /\ calls[i] \in Calls
      BY <1>0, <1>3, <2>2, ElementOfSeq
    <3>2. calls[i].dsc \in Dscs
      BY <2>2, <3>1 DEF Calls, OfEvery
    <3> QED BY <1>1, <2>2, <3>1, <3>2 DEF CmdInv, EverysAreHeld
  <2>3. \A i \in 1..Len(calls') : OfEvery(calls'[i]) =>
          dsc'[calls'[i].dsc] # NULL /\ calls'[i].dsc \notin armed'
    BY <1>1, <1>2, <1>3, <1>8, <2>1, <2>2
  <2>4. \A i, j \in 1..Len(calls') :
          OfEvery(calls'[i]) /\ OfEvery(calls'[j]) /\ calls'[i].dsc = calls'[j].dsc => i = j
    BY <1>2, <1>3, <2>2 DEF CmdInv, EverysAreHeld
  <2>5. \A f \in armed' : dsc'[f] # NULL
    BY <1>1, <1>8, <2>1 DEF CmdInv, EverysAreHeld
  <2>6. ASSUME NEW f \in Dscs, dsc'[f] # NULL, f \notin armed'
        PROVE  \E i \in 1..Len(calls') : OfEvery(calls'[i]) /\ calls'[i].dsc = f
    <3>1. CASE f = d
      BY <1>2, <1>3, <2>0, <3>1
    <3>2. CASE f # d
      <4>1. PICK i \in 1..Len(calls) : OfEvery(calls[i]) /\ calls[i].dsc = f
        BY <1>1, <1>8, <2>6, <3>2 DEF CmdInv, EverysAreHeld
      <4> QED BY <1>3, <2>0, <4>1
    <3> QED BY <3>1, <3>2
  <2> QED BY <2>3, <2>4, <2>5, <2>6 DEF EverysAreHeld
<1> QED BY <1>0, <1>1, <1>3, <1>5, <1>7, <1>9, <1>10 DEF CmdInv

(* What the innermost call says when it belongs to a struct every.         *)
LEMMA TopEvery ==
  ASSUME CmdInv, calls # << >>, OfEvery(Head(calls))
  PROVE  /\ calls \in Seq(Calls) /\ Head(calls) = calls[1] /\ calls[1] \in Calls
         /\ Len(calls) \in Nat \ {0} /\ 1 \in 1..Len(calls)
         /\ calls[1].dsc \in Dscs /\ dsc[calls[1].dsc] \in live
         /\ calls[1].dsc \notin armed
         /\ \A i \in 1..Len(calls) : OfEvery(calls[i]) =>
              calls[i].dsc \in Dscs /\ (i # 1 => calls[i].dsc # calls[1].dsc)
         /\ \A e : calls[1] # Free(e)
         /\ live \subseteq Cmds /\ NULL \notin live
<1>1. /\ calls \in Seq(Calls) /\ Head(calls) = calls[1] /\ calls[1] \in Calls
      /\ Len(calls) \in Nat \ {0} /\ 1 \in 1..Len(calls)
  BY TopFacts DEF CmdInv, CmdTypeOK
<1>2. ASSUME NEW i \in 1..Len(calls), OfEvery(calls[i])
      PROVE  calls[i].dsc \in Dscs /\ dsc[calls[i].dsc] # NULL /\ calls[i].dsc \notin armed
  <2>1. calls[i] \in Calls
    BY <1>1, ElementOfSeq
  <2> QED BY <1>2, <2>1 DEF Calls, OfEvery, CmdInv, EverysAreHeld
<1>3. OfEvery(calls[1]) /\ calls[1].dsc \in Dscs /\ dsc[calls[1].dsc] \in live
  BY <1>1, <1>2 DEF CmdInv, NoDangling
<1>4. ASSUME NEW i \in 1..Len(calls), OfEvery(calls[i]), i # 1
      PROVE  calls[i].dsc # calls[1].dsc
  BY <1>1, <1>3, <1>4 DEF CmdInv, EverysAreHeld
<1>5. \A e : calls[1] # Free(e)
  BY <1>3, CallFacts DEF OfEvery
<1>6. live \subseteq Cmds /\ NULL \notin live
  BY NullAssumption DEF CmdInv, CmdTypeOK
<1> QED BY <1>1, <1>2, <1>3, <1>4, <1>5, <1>6

(* do_every at its end: the reference of the struct every goes to the      *)
(* cmd_free that gives it up.                                              *)
LEMMA ReleasePreserves ==
  ASSUME CmdInv, calls # << >>, OfEvery(Head(calls)), Release(Head(calls).dsc),
         UNCHANGED <<live, ref, child, var, lost, cur, terminating>>
  PROVE  CmdInv'
<1> DEFINE d == calls[1].dsc
           k == dsc[d]
<1>0. /\ calls \in Seq(Calls) /\ Head(calls) = calls[1] /\ calls[1] \in Calls
      /\ Len(calls) \in Nat \ {0} /\ 1 \in 1..Len(calls)
      /\ d \in Dscs /\ k \in live /\ d \notin armed
      /\ \A i \in 1..Len(calls) : OfEvery(calls[i]) =>
              calls[i].dsc \in Dscs /\ (i # 1 => calls[i].dsc # d)
      /\ \A e : calls[1] # Free(e)
      /\ live \subseteq Cmds /\ NULL \notin live
  BY TopEvery
<1>1. /\ dsc' = [dsc EXCEPT ![d] = NULL] /\ calls' = <<Free(k)>> \o Tail(calls)
      /\ UNCHANGED armed
  BY <1>0 DEF Release
<1> HIDE DEF d, k
<1>2. Free(k) \in Calls /\ Free(k).fn = "cmd_free" /\ Free(k).cmd = k
  BY <1>0, CallFacts
<1>3. /\ calls' \in Seq(Calls) /\ Len(calls') = Len(calls) /\ calls'[1] = Free(k)
      /\ \A i \in 1..Len(calls) : i # 1 => calls'[i] = calls[i]
      /\ RunsAreBacked'
  BY <1>1, <1>2, ChangeKeepsStack
<1>4. CmdTypeOK'
  BY <1>0, <1>1, <1>3 DEF CmdInv, CmdTypeOK
<1>5. \A f \in Dscs : dsc'[f] = IF f = d THEN NULL ELSE dsc[f]
  BY <1>0, <1>1 DEF CmdInv, CmdTypeOK
<1>6. ASSUME NEW e \in live PROVE Accounted(e)'
  <2>0. e # NULL /\ ref'[e] = ref[e] /\ lost'[e] = lost[e]
    BY <1>0
  <2>1. /\ Len(calls) - 1 \notin FreesOf(calls, e)
        /\ FreesOf(<<Free(k)>> \o Tail(calls), e) =
             FreesOf(calls, e) \cup (IF Free(k) = Free(e) THEN {Len(calls) - 1} ELSE {})
    BY <1>0, <1>2, FreesChanged
  <2>2. Free(k) = Free(e) <=> e = k
    BY CallFacts
  <2>3. FreesOf(calls', e) = FreesOf(calls, e) \cup (IF e = k THEN {Len(calls) - 1} ELSE {})
    BY <1>1, <2>1, <2>2
  <2>4. CASE e # k
    <3>1. Owners(e)' = Owners(e)
      BY <1>5, <2>0, <2>3, <2>4 DEF Owners, k
    <3> QED BY <2>0, <3>1, Accounts, AccountKept
  <2>5. CASE e = k
    <3>1. <<"dsc", d>> \in Owners(e) /\ <<"free", Len(calls) - 1>> \notin Owners(e)
      BY <1>0, <2>1, <2>5 DEF Owners, k
    <3>2. Owners(e)' = (Owners(e) \ {<<"dsc", d>>}) \cup {<<"free", Len(calls) - 1>>}
      BY <1>5, <2>0, <2>3, <2>5 DEF Owners, k
    <3> QED BY <2>0, <3>1, <3>2, Accounts, AccountMoved
  <2> QED BY <2>4, <2>5
<1>7. (RefsExact /\ \A e \in live : IsFiniteSet(Owners(e)))'
  BY <1>6 DEF Accounted, RefsExact
<1>8. NoDangling'
  BY <1>0, <1>2, <1>3, <1>5 DEF CmdInv, NoDangling
<1>9. EverysAreHeld'
  <2>0. ~OfEvery(calls'[1])
    BY <1>2, <1>3 DEF OfEvery
  <2>1. \A i \in 1..Len(calls') : OfEvery(calls'[i]) =>
          dsc'[calls'[i].dsc] # NULL /\ calls'[i].dsc \notin armed'
    BY <1>0, <1>1, <1>3, <1>5, <2>0 DEF CmdInv, EverysAreHeld
  <2>2. \A i, j \in 1..Len(calls') :
          OfEvery(calls'[i]) /\ OfEvery(calls'[j]) /\ calls'[i].dsc = calls'[j].dsc => i = j
    BY <1>3, <2>0 DEF CmdInv, EverysAreHeld
  <2>3. \A f \in armed' : dsc'[f] # NULL
    BY <1>0, <1>1, <1>5 DEF CmdInv, CmdTypeOK, EverysAreHeld
  <2>4. ASSUME NEW f \in Dscs, dsc'[f] # NULL, f \notin armed'
        PROVE  \E i \in 1..Len(calls') : OfEvery(calls'[i]) /\ calls'[i].dsc = f
    <3>1. f # d /\ dsc[f] # NULL
      BY <1>5, <2>4
    <3>2. PICK i \in 1..Len(calls) : OfEvery(calls[i]) /\ calls[i].dsc = f
      BY <1>1, <2>4, <3>1 DEF CmdInv, EverysAreHeld
    <3>3. i # 1
      BY <3>1, <3>2 DEF d
    <3> QED BY <1>3, <3>2, <3>3
  <2> QED BY <2>1, <2>2, <2>3, <2>4 DEF EverysAreHeld
<1>10. calls' # << >> => cur' = NULL
  BY DEF CmdInv
<1> QED BY <1>3, <1>4, <1>7, <1>8, <1>9, <1>10 DEF CmdInv

(* do_every that runs its command: the struct every stays on the stack,    *)
(* behind the command that it keeps alive.                                 *)
LEMMA DoEveryPreserves ==
  ASSUME CmdInv, DoEvery
  PROVE  CmdInv'
<1> DEFINE d == calls[1].dsc
           k == dsc[d]
<1>a. calls # << >> /\ OfEvery(Head(calls))
  BY DEF DoEvery, Call, OfEvery
<1>0. /\ calls \in Seq(Calls) /\ Head(calls) = calls[1] /\ calls[1] \in Calls
      /\ Len(calls) \in Nat \ {0} /\ 1 \in 1..Len(calls)
      /\ d \in Dscs /\ k \in live /\ d \notin armed
      /\ \A i \in 1..Len(calls) : OfEvery(calls[i]) =>
              calls[i].dsc \in Dscs /\ (i # 1 => calls[i].dsc # d)
      /\ \A e : calls[1] # Free(e)
      /\ live \subseteq Cmds /\ NULL \notin live
  BY <1>a, TopEvery
<1>b. CASE Release(Head(calls).dsc)
  BY <1>a, <1>b, ReleasePreserves DEF DoEvery
<1>c. CASE ~Release(Head(calls).dsc)
  <2>1. /\ calls' = <<Run(k), After(d)>> \o Tail(calls)
        /\ UNCHANGED <<live, ref, child, var, lost, dsc, armed, cur, terminating>>
    BY <1>0, <1>c DEF DoEvery
  <2> HIDE DEF d, k
  <2>2. /\ Run(k) \in Calls /\ After(d) \in Calls
        /\ Run(k).fn = "cmd_run" /\ Run(k).cmd = k
        /\ After(d).fn = "after" /\ After(d).cmd = NULL /\ After(d).dsc = d
    BY <1>0, CallFacts
  <2>3. /\ calls' \in Seq(Calls) /\ Len(calls') = Len(calls) + 1
        /\ calls'[1] = Run(k) /\ calls'[2] = After(d)
        /\ \A i \in 2..Len(calls) : calls'[i + 1] = calls[i]
    BY <1>a, <1>0, <2>1, <2>2, ReplaceTwoFacts
  <2>4. \A j \in 1..Len(calls') : j = 1 \/ j = 2 \/
          (j - 1 \in 1..Len(calls) /\ j - 1 # 1 /\ calls'[j] = calls[j - 1])
    <3> SUFFICES ASSUME NEW j \in 1..Len(calls'), j # 1, j # 2
                 PROVE  j - 1 \in 1..Len(calls) /\ j - 1 # 1 /\ calls'[j] = calls[j - 1]
      OBVIOUS
    <3>1. j - 1 \in 2..Len(calls) /\ (j - 1) + 1 = j
      BY <1>0, <2>3
    <3> QED BY <1>0, <2>3, <3>1
  <2>5. CmdTypeOK'
    BY <2>1, <2>3 DEF CmdInv, CmdTypeOK
  <2>6. ASSUME NEW e \in live PROVE Accounted(e)'
    <3>1. Run(k) # Free(e) /\ After(d) # Free(e)
      BY CallFacts
    <3>2. Len(calls) - 1 \notin FreesOf(calls, e)
      BY <1>a, <1>0, FreesTop
    <3>3. FreesOf(<<Run(k), After(d)>> \o Tail(calls), e) = FreesOf(calls, e) \ {Len(calls) - 1}
      BY <1>a, <1>0, <2>2, <3>1, FreesReplaceTwo
    <3>4. FreesOf(calls', e) = FreesOf(calls, e)
      BY <2>1, <3>2, <3>3
    <3>5. Owners(e)' = Owners(e)
      BY <2>1, <3>4 DEF Owners
    <3> QED BY <2>1, <3>5, Accounts, AccountKept
  <2>7. (RefsExact /\ \A e \in live : IsFiniteSet(Owners(e)))'
    BY <2>1, <2>6 DEF Accounted, RefsExact
  <2>8. NoDangling'
    <3>1. \A j \in 1..Len(calls') : calls'[j].cmd # NULL => calls'[j].cmd \in live
      BY <1>0, <2>2, <2>3, <2>4 DEF CmdInv, NoDangling
    <3> QED BY <2>1, <3>1 DEF CmdInv, NoDangling
  <2>9. RunsAreBacked'
    <3>1. \A j \in 1..Len(calls') : calls'[j].fn = "cmd_run" => j = 1
      BY <2>2, <2>3, <2>4 DEF CmdInv, RunsAreBacked
    <3>2. 1 < Len(calls')
      BY <1>0, <2>3
    <3> QED BY <2>1, <2>2, <2>3, <3>1, <3>2 DEF RunsAreBacked, k
  <2>10. EverysAreHeld'
    <3>0. ~OfEvery(calls'[1]) /\ OfEvery(calls'[2]) /\ calls'[2].dsc = d
          /\ 1 \in 1..Len(calls') /\ 2 \in 1..Len(calls')
      BY <1>0, <2>2, <2>3 DEF OfEvery
    <3>1. \A i \in 1..Len(calls') : OfEvery(calls'[i]) =>
            dsc'[calls'[i].dsc] # NULL /\ calls'[i].dsc \notin armed'
      BY <1>0, <2>1, <2>4, <3>0 DEF CmdInv, EverysAreHeld, k
    <3>2. ASSUME NEW i \in 1..Len(calls'), NEW j \in 1..Len(calls'),
                 OfEvery(calls'[i]), OfEvery(calls'[j]), calls'[i].dsc = calls'[j].dsc
          PROVE  i = j
      <4>1. CASE i = 2 \/ j = 2
        BY <1>0, <2>4, <3>0, <3>2, <4>1
      <4>2. CASE i # 2 /\ j # 2
        <5>1. /\ i - 1 \in 1..Len(calls) /\ calls'[i] = calls[i - 1]
              /\ j - 1 \in 1..Len(calls) /\ calls'[j] = calls[j - 1]
          BY <2>4, <3>0, <3>2, <4>2
        <5>2. /\ OfEvery(calls[i - 1]) /\ OfEvery(calls[j - 1])
              /\ calls[i - 1].dsc = calls[j - 1].dsc
          BY <3>2, <5>1
        <5>3. i - 1 = j - 1
          BY <5>1, <5>2 DEF CmdInv, EverysAreHeld
        <5> QED BY <5>3
      <4> QED BY <4>1, <4>2
    <3>3. \A f \in armed' : dsc'[f] # NULL
      BY <2>1 DEF CmdInv, EverysAreHeld
    <3>4. ASSUME NEW f \in Dscs, dsc'[f] # NULL, f \notin armed'
          PROVE  \E i \in 1..Len(calls') : OfEvery(calls'[i]) /\ calls'[i].dsc = f
      <4>1. PICK i \in 1..Len(calls) : OfEvery(calls[i]) /\ calls[i].dsc = f
        BY <2>1, <3>4 DEF CmdInv, EverysAreHeld
      <4>2. CASE i = 1
        BY <3>0, <4>1, <4>2 DEF d
      <4>3. CASE i # 1
        <5>1. i \in 2..Len(calls) /\ i + 1 \in 1..Len(calls')
          BY <1>0, <2>3, <4>3
        <5>2. calls'[i + 1] = calls[i]
          BY <2>3, <5>1
        <5> QED BY <4>1, <5>1, <5>2
      <4> QED BY <4>2, <4>3
    <3> QED BY <3>1, <3>2, <3>3, <3>4 DEF EverysAreHeld
  <2> QED BY <1>a, <2>1, <2>5, <2>7, <2>8, <2>9, <2>10 DEF CmdInv
<1> QED BY <1>b, <1>c

(* ... and afterwards it waits for its timer, or END makes it stop.        *)
LEMMA AfterEveryPreserves ==
  ASSUME CmdInv, AfterEvery
  PROVE  CmdInv'
<1> DEFINE d == calls[1].dsc
<1>a. calls # << >> /\ OfEvery(Head(calls))
  BY DEF AfterEvery, Call, OfEvery
<1>0. /\ calls \in Seq(Calls) /\ Head(calls) = calls[1] /\ calls[1] \in Calls
      /\ Len(calls) \in Nat \ {0} /\ 1 \in 1..Len(calls)
      /\ d \in Dscs /\ dsc[d] \in live /\ d \notin armed
      /\ \A i \in 1..Len(calls) : OfEvery(calls[i]) =>
              calls[i].dsc \in Dscs /\ (i # 1 => calls[i].dsc # d)
      /\ \A e : calls[1] # Free(e)
      /\ live \subseteq Cmds /\ NULL \notin live
  BY <1>a, TopEvery
<1>b. CASE terminating
  <2>1. Release(Head(calls).dsc) /\ UNCHANGED <<live, ref, child, var, lost, cur, terminating>>
    BY <1>b DEF AfterEvery
  <2> QED BY <1>a, <2>1, ReleasePreserves
<1>c. CASE ~terminating
  <2>1. /\ armed' = armed \cup {d} /\ calls' = Tail(calls)
        /\ UNCHANGED <<live, ref, child, var, lost, dsc, cur, terminating>>
    BY <1>0, <1>c DEF AfterEvery
  <2> HIDE DEF d
  <2>2. /\ calls' \in Seq(Calls) /\ Len(calls') = Len(calls) - 1
        /\ \A i \in 1..(Len(calls) - 1) : calls'[i] = calls[i + 1]
    BY <1>a, <1>0, <2>1, TopFacts
  <2>3. \A i \in 1..Len(calls') : i + 1 \in 1..Len(calls) /\ i + 1 # 1 /\ calls'[i] = calls[i + 1]
    BY <1>0, <2>2
  <2>4. CmdTypeOK'
    BY <1>0, <2>1, <2>2 DEF CmdInv, CmdTypeOK
  <2>5. ASSUME NEW e \in live PROVE Accounted(e)'
    <3>1. FreesOf(calls', e) = FreesOf(calls, e)
      BY <1>a, <1>0, <2>1, FreesKept
    <3>2. Owners(e)' = Owners(e)
      BY <2>1, <3>1 DEF Owners
    <3> QED BY <2>1, <3>2, Accounts, AccountKept
  <2>6. (RefsExact /\ \A e \in live : IsFiniteSet(Owners(e)))'
    BY <2>1, <2>5 DEF Accounted, RefsExact
  <2>7. NoDangling'
    BY <2>1, <2>3 DEF CmdInv, NoDangling
  <2>8. RunsAreBacked'
    <3>1. \A i \in 1..Len(calls') : calls'[i].fn # "cmd_run"
      BY <2>3 DEF CmdInv, RunsAreBacked
    <3> QED BY <3>1 DEF RunsAreBacked
  <2>9. EverysAreHeld'
    <3>1. \A i \in 1..Len(calls') : OfEvery(calls'[i]) =>
            dsc'[calls'[i].dsc] # NULL /\ calls'[i].dsc \notin armed'
      BY <1>0, <2>1, <2>3 DEF CmdInv, EverysAreHeld
    <3>2. ASSUME NEW i \in 1..Len(calls'), NEW j \in 1..Len(calls'),
                 OfEvery(calls'[i]), OfEvery(calls'[j]), calls'[i].dsc = calls'[j].dsc
          PROVE  i = j
      <4>1. i + 1 = j + 1
        BY <2>3, <3>2 DEF CmdInv, EverysAreHeld
      <4> QED BY <2>2, <4>1
    <3>3. \A f \in armed' : dsc'[f] # NULL
      BY <1>0, <2>1 DEF CmdInv, EverysAreHeld
    <3>4. ASSUME NEW f \in Dscs, dsc'[f] # NULL, f \notin armed'
          PROVE  \E i \in 1..Len(calls') : OfEvery(calls'[i]) /\ calls'[i].dsc = f
      <4>1. PICK i \in 1..Len(calls) : OfEvery(calls[i]) /\ calls[i].dsc = f
        BY <2>1, <3>4 DEF CmdInv, EverysAreHeld
      <4>2. i # 1
        BY <2>1, <3>4, <4>1 DEF d
      <4>3. i - 1 \in 1..Len(calls') /\ calls'[i - 1] = calls[i]
        BY <1>0, <2>2, <4>2
      <4> QED BY <4>1, <4>3
    <3> QED BY <3>1, <3>2, <3>3, <3>4 DEF EverysAreHeld
  <2>10. calls' # << >> => cur' = NULL
    BY <1>a, <2>1 DEF CmdInv
  <2> QED BY <2>2, <2>4, <2>6, <2>7, <2>8, <2>9, <2>10 DEF CmdInv
<1> QED BY <1>b, <1>c

(* cmd_free.  While others hold the command, one owner goes.  When nobody  *)
(* does, the call itself is the only owner, so nothing is left that could  *)
(* reach the command; the reference of an every to its command goes to the *)
(* cmd_free that follows.                                                  *)
LEMMA CmdFreePreserves ==
  ASSUME CmdInv, CmdFree
  PROVE  CmdInv'
<1> DEFINE c == calls[1].cmd
           o == <<"free", Len(calls) - 1>>
<1>0. /\ calls # << >> /\ calls \in Seq(Calls) /\ Head(calls) = calls[1] /\ calls[1] \in Calls
      /\ Len(calls) \in Nat \ {0} /\ 1 \in 1..Len(calls)
  BY TopFacts DEF CmdInv, CmdTypeOK, CmdFree, Call
<1>1. /\ calls[1].fn = "cmd_free"
      /\ UNCHANGED <<child, var, lost, dsc, armed, cur, terminating>>
  BY <1>0 DEF CmdFree, Call
<1>2. /\ ref' = [ref EXCEPT ![c] = @ - 1]
      /\ IF ref[c] > 1
           THEN live' = live /\ calls' = Tail(calls)
           ELSE /\ live' = live \ {c}
                /\ calls' = IF child[c] = NULL THEN Tail(calls)
                            ELSE <<Free(child[c])>> \o Tail(calls)
  BY <1>0 DEF CmdFree
<1>3. calls[1] = Free(c) /\ c \in Cmds /\ c # NULL /\ ~OfEvery(calls[1])
  BY <1>0, <1>1, NullAssumption DEF Calls, Free, OfEvery
<1>4. c \in live /\ live \subseteq Cmds /\ NULL \notin live
  BY <1>0, <1>3, NullAssumption DEF CmdInv, CmdTypeOK, NoDangling
<1> HIDE DEF c, o
<1>5. Len(calls) - 1 \in FreesOf(calls, c) /\ o \in Owners(c)
  <2>1. Len(calls) - 1 \in FreesOf(calls, c)
    BY <1>0, <1>3, FreesTop
  <2> QED BY <2>1 DEF Owners, o
<1>6. /\ Accounted(c) /\ ref[c] \in Nat /\ lost[c] \in Nat /\ Cardinality(Owners(c)) \in Nat
      /\ \A e \in Cmds : ref'[e] = IF e = c THEN ref[e] - 1 ELSE ref[e]
      /\ ref \in [Cmds -> Nat]
  BY <1>2, <1>4, Accounts DEF CmdInv, CmdTypeOK
<1>7. ref' \in [Cmds -> Nat]
  BY <1>2, <1>3, <1>6 DEF Accounted
<1>8. ASSUME NEW e \in live, e # c
      PROVE  /\ calls[1] # Free(e) /\ Accounted(e)
             /\ ref'[e] = ref[e] /\ lost'[e] = lost[e]
  BY <1>1, <1>3, <1>4, <1>6, <1>8, CallFacts, Accounts
<1>9. cur = NULL
  BY <1>0 DEF CmdInv
<1>a. CASE ref[c] > 1
  <2>1. live' = live /\ calls' = Tail(calls)
    BY <1>2, <1>a
  <2>2. /\ calls' \in Seq(Calls) /\ RunsAreBacked' /\ EverysAreHeld'
        /\ \A i \in 1..Len(calls') : i + 1 \in 1..Len(calls) /\ calls'[i] = calls[i + 1]
    BY <1>0, <1>1, <1>3, <2>1, PopKeepsStack
  <2>3. CmdTypeOK'
    BY <1>1, <1>7, <2>1, <2>2 DEF CmdInv, CmdTypeOK
  <2>4. ASSUME NEW e \in live PROVE Accounted(e)'
    <3>a. CASE e # c
      <4>1. FreesOf(calls', e) = FreesOf(calls, e)
        BY <1>0, <1>8, <2>1, <3>a, FreesKept
      <4>2. Owners(e)' = Owners(e)
        BY <1>1, <2>1, <4>1 DEF Owners
      <4> QED BY <1>8, <3>a, <4>2, AccountKept
    <3>b. CASE e = c
      <4>1. FreesOf(Tail(calls), e) = FreesOf(calls, e) \ {Len(calls) - 1}
        BY <1>0, FreesPop
      <4>2. o \in Owners(e) /\ Owners(e)' = Owners(e) \ {o}
        BY <1>1, <1>5, <2>1, <3>b, <4>1 DEF Owners, o
      <4>3. ref'[e] = ref[e] - 1 /\ lost'[e] = lost[e] /\ ref[e] > 1
        BY <1>1, <1>3, <1>6, <1>a, <3>b
      <4>4. Accounted(e) /\ ref[e] \in Nat /\ lost[e] \in Nat
        BY <1>6, <3>b
      <4> QED BY <4>2, <4>3, <4>4, AccountLost
    <3> QED BY <3>a, <3>b
  <2>6. (RefsExact /\ \A e \in live : IsFiniteSet(Owners(e)))'
    BY <2>1, <2>4 DEF Accounted, RefsExact
  <2>7. NoDangling'
    BY <1>1, <2>1, <2>2 DEF CmdInv, NoDangling
  <2> QED BY <1>1, <1>9, <2>2, <2>3, <2>6, <2>7 DEF CmdInv
<1>b. CASE ~(ref[c] > 1)
  <2>1. /\ live' = live \ {c}
        /\ calls' = IF child[c] = NULL THEN Tail(calls) ELSE <<Free(child[c])>> \o Tail(calls)
    BY <1>2, <1>b
  <2>2. Owners(c) = {o}
    <3>1. Cardinality(Owners(c)) <= 1 /\ IsFiniteSet(Owners(c))
      BY <1>6, <1>b DEF Accounted
    <3>2. Cardinality(Owners(c)) # 0
      BY <1>5, <3>1, FS_EmptySet
    <3>3. Cardinality(Owners(c)) = 1
      BY <1>6, <3>1, <3>2
    <3>4. PICK x : Owners(c) = {x}
      BY <3>1, <3>3, FS_Singleton
    <3> QED BY <1>5, <3>4
  <2>3. /\ \A v \in Vars : var[v] # c
        /\ \A p \in live : child[p] # c
        /\ \A d \in Dscs : dsc[d] # c
        /\ \A n \in FreesOf(calls, c) : n = Len(calls) - 1
    <3>1. /\ \A v \in Vars : var[v] = c => <<"var", v>> \in Owners(c)
          /\ \A p \in live : child[p] = c => <<"every", p>> \in Owners(c)
          /\ \A d \in Dscs : dsc[d] = c => <<"dsc", d>> \in Owners(c)
          /\ \A n \in FreesOf(calls, c) : <<"free", n>> \in Owners(c)
      BY DEF Owners
    <3>2. /\ \A x : <<"var", x>> # o /\ <<"every", x>> # o /\ <<"dsc", x>> # o
          /\ \A n : <<"free", n>> = o => n = Len(calls) - 1
      BY DEF o
    <3> QED BY <2>2, <3>1, <3>2
  <2>4. ASSUME NEW i \in 1..Len(calls), i # 1, calls[i].cmd # NULL
        PROVE  calls[i].cmd \in live \ {c}
    <3>1. calls[i].cmd \in live
      BY <2>4 DEF CmdInv, NoDangling
    <3>2. calls[i] \in Calls /\ calls[i].fn # "cmd_run"
      BY <1>0, <2>4, ElementOfSeq DEF CmdInv, RunsAreBacked
    <3>3. calls[i] = Free(calls[i].cmd)
      BY <2>4, <3>2 DEF Calls, Free
    <3>4. calls[i].cmd = c => Len(calls) - i \in FreesOf(calls, c)
      BY <3>3 DEF FreesOf
    <3>5. Len(calls) - i # Len(calls) - 1
      BY <1>0, <2>4
    <3> QED BY <2>3, <3>1, <3>4, <3>5
  <2>5. child[c] # NULL => child[c] \in live /\ child[c] # c
    BY <1>4, <2>3 DEF CmdInv, NoDangling
  <2>a. CASE child[c] = NULL
    <3>1. calls' = Tail(calls)
      BY <2>1, <2>a
    <3>2. /\ calls' \in Seq(Calls) /\ RunsAreBacked' /\ EverysAreHeld'
          /\ \A i \in 1..Len(calls') : i + 1 \in 1..Len(calls) /\ calls'[i] = calls[i + 1]
      BY <1>0, <1>1, <1>3, <3>1, PopKeepsStack
    <3>3. CmdTypeOK'
      BY <1>1, <1>7, <2>1, <3>2 DEF CmdInv, CmdTypeOK
    <3>4. ASSUME NEW e \in live, e # c PROVE Accounted(e)'
      <4>1. FreesOf(calls', e) = FreesOf(calls, e)
        BY <1>0, <1>8, <3>1, <3>4, FreesKept
      <4>2. Owners(e)' = Owners(e)
        BY <1>1, <1>4, <2>1, <2>a, <4>1 DEF Owners
      <4> QED BY <1>8, <3>4, <4>2, AccountKept
    <3>5. (RefsExact /\ \A e \in live : IsFiniteSet(Owners(e)))'
      BY <2>1, <3>4 DEF Accounted, RefsExact
    <3>6. \A i \in 1..Len(calls') : calls'[i].cmd # NULL => calls'[i].cmd \in live'
      BY <2>1, <2>4, <3>2
    <3>7. NoDangling'
      BY <1>1, <1>9, <2>1, <2>3, <3>6 DEF CmdInv, NoDangling
    <3> QED BY <1>1, <1>9, <3>2, <3>3, <3>5, <3>7 DEF CmdInv
  <2>b. CASE child[c] # NULL
    <3> DEFINE k == child[c]
    <3>0. calls' = <<Free(k)>> \o Tail(calls) /\ k \in live /\ k # c
      BY <2>1, <2>5, <2>b
    <3> HIDE DEF k
    <3>1. Free(k) \in Calls /\ Free(k).fn = "cmd_free" /\ Free(k).cmd = k
      BY <1>4, <3>0, CallFacts
    <3>2. /\ calls' \in Seq(Calls) /\ Len(calls') = Len(calls) /\ calls'[1] = Free(k)
          /\ \A i \in 1..Len(calls) : i # 1 => calls'[i] = calls[i]
          /\ RunsAreBacked'
      BY <1>0, <3>0, <3>1, ChangeKeepsStack
    <3>3. CmdTypeOK'
      BY <1>1, <1>7, <2>1, <3>2 DEF CmdInv, CmdTypeOK
    <3>4. ASSUME NEW e \in live, e # c PROVE Accounted(e)'
      <4>0. e # NULL
        BY <1>4
      <4>1. /\ Len(calls) - 1 \notin FreesOf(calls, e)
            /\ FreesOf(<<Free(k)>> \o Tail(calls), e) =
                 FreesOf(calls, e) \cup (IF Free(k) = Free(e) THEN {Len(calls) - 1} ELSE {})
        BY <1>0, <1>8, <3>1, <3>4, FreesChanged
      <4>2. Free(k) = Free(e) <=> e = k
        BY CallFacts
      <4>3. FreesOf(calls', e) = FreesOf(calls, e) \cup (IF e = k THEN {Len(calls) - 1} ELSE {})
        BY <3>0, <4>1, <4>2
      <4>4. CASE e # k
        <5>1. Owners(e)' = Owners(e)
          BY <1>1, <2>1, <4>3, <4>4 DEF Owners, k
        <5> QED BY <1>8, <3>4, <5>1, AccountKept
      <4>5. CASE e = k
        <5>1. <<"every", c>> \in Owners(e) /\ o \notin Owners(e)
          BY <1>4, <4>1, <4>5 DEF Owners, k, o
        <5>2. Owners(e)' = (Owners(e) \ {<<"every", c>>}) \cup {o}
          BY <1>1, <1>4, <1>9, <2>1, <4>0, <4>3, <4>5 DEF Owners, k, o
        <5> QED BY <1>8, <3>4, <5>1, <5>2, AccountMoved
      <4> QED BY <4>4, <4>5
    <3>5. (RefsExact /\ \A e \in live : IsFiniteSet(Owners(e)))'
      BY <2>1, <3>4 DEF Accounted, RefsExact
    <3>6. \A i \in 1..Len(calls') : calls'[i].cmd # NULL => calls'[i].cmd \in live'
      BY <2>1, <2>4, <3>0, <3>1, <3>2
    <3>7. NoDangling'
      BY <1>1, <1>9, <2>1, <2>3, <3>6 DEF CmdInv, NoDangling
    <3>8. EverysAreHeld'
      <4>0. \A i \in 1..Len(calls) : /\ OfEvery(calls'[i]) <=> OfEvery(calls[i])
                                     /\ OfEvery(calls[i]) => calls'[i] = calls[i]
        BY <1>3, <3>1, <3>2 DEF OfEvery
      <4> QED BY <1>1, <3>2, <4>0 DEF CmdInv, EverysAreHeld
    <3> QED BY <1>1, <1>9, <3>2, <3>3, <3>5, <3>7, <3>8 DEF CmdInv
  <2> QED BY <2>a, <2>b
<1> QED BY <1>a, <1>b

(* The timer of a struct every expires.                                    *)
LEMMA TimerPreserves ==
  ASSUME CmdInv, NEW d \in Dscs, Timer(d)
  PROVE  CmdInv'
<1>0. /\ calls = << >> /\ cur = NULL /\ d \in armed /\ armed' = armed \ {d}
      /\ calls' = <<Do(d)>>
      /\ UNCHANGED <<live, ref, child, var, lost, dsc, cur, terminating>>
  BY DEF Timer, Quiet
<1>1. Do(d) \in Calls /\ Do(d).fn = "do_every" /\ Do(d).dsc = d /\ Do(d).cmd = NULL
  BY CallFacts
<1>2. calls' \in Seq(Calls) /\ Len(calls') = 1 /\ calls'[1] = Do(d)
  BY <1>0, <1>1
<1>3. CmdTypeOK'
  BY <1>0, <1>2 DEF CmdInv, CmdTypeOK
<1>4. ASSUME NEW e \in live PROVE Accounted(e)'
  <2>1. FreesOf(calls, e) = {}
    BY <1>0, FreesNone
  <2>2. Do(d) # Free(e)
    BY CallFacts
  <2>3. FreesOf(calls', e) = {}
    BY <1>2, <2>2 DEF FreesOf
  <2>4. Owners(e)' = Owners(e)
    BY <1>0, <2>1, <2>3 DEF Owners
  <2> QED BY <1>0, <2>4, Accounts, AccountKept
<1>5. (RefsExact /\ \A e \in live : IsFiniteSet(Owners(e)))'
  BY <1>0, <1>4 DEF Accounted, RefsExact
<1>6. \A i \in 1..Len(calls') : calls'[i] = Do(d) /\ i = 1
  BY <1>2
<1>7. NoDangling'
  BY <1>0, <1>1, <1>6 DEF CmdInv, NoDangling
<1>8. RunsAreBacked'
  BY <1>1, <1>6 DEF RunsAreBacked
<1>9. EverysAreHeld'
  <2>0. OfEvery(Do(d)) /\ 1 \in 1..Len(calls')
    BY <1>1, <1>2 DEF OfEvery
  <2>1. \A f \in Dscs : dsc[f] # NULL => f \in armed
    BY <1>0 DEF CmdInv, EverysAreHeld
  <2>2. \A f \in armed : dsc[f] # NULL
    BY DEF CmdInv, EverysAreHeld
  <2> QED BY <1>0, <1>1, <1>6, <2>0, <2>1, <2>2 DEF EverysAreHeld
<1> QED BY <1>0, <1>3, <1>5, <1>7, <1>8, <1>9 DEF CmdInv

-----------------------------------------------------------------------------

(* END, and steps of other parts of tcsim.                                 *)
LEMMA IdlePreserves ==
  ASSUME CmdInv, terminating' \in BOOLEAN,
         UNCHANGED <<live, ref, child, var, lost, dsc, armed, cur, calls>>
  PROVE  CmdInv'
<1>1. CmdTypeOK'
  BY DEF CmdInv, CmdTypeOK
<1>2. ASSUME NEW e \in live PROVE Accounted(e)'
  <2>1. Owners(e)' = Owners(e)
    BY DEF Owners
  <2> QED BY <2>1, Accounts, AccountKept
<1>3. (RefsExact /\ \A e \in live : IsFiniteSet(Owners(e)))'
  BY <1>2 DEF Accounted, RefsExact
<1>4. NoDangling' /\ RunsAreBacked' /\ EverysAreHeld'
  BY DEF CmdInv, NoDangling, RunsAreBacked, EverysAreHeld
<1> QED BY <1>1, <1>3, <1>4 DEF CmdInv

LEMMA InitCmdInv == CmdInit => CmdInv
<1> SUFFICES ASSUME CmdInit PROVE CmdInv
  OBVIOUS
<1>1. calls \in Seq(Calls) /\ Len(calls) = 0
  BY DEF CmdInit
<1>2. CmdTypeOK
  BY <1>1 DEF CmdInit, CmdTypeOK
<1> QED BY <1>1, <1>2 DEF CmdInit, CmdInv, RefsExact, NoDangling, RunsAreBacked, EverysAreHeld

LEMMA NextCmdInv == CmdInv /\ [CmdNext]_cmdVars => CmdInv'
<1> SUFFICES ASSUME CmdInv, [CmdNext]_cmdVars PROVE CmdInv'
  OBVIOUS
<1>1. CASE UNCHANGED cmdVars
  BY <1>1, IdlePreserves DEF cmdVars, CmdInv, CmdTypeOK
<1>2. CASE End
  BY <1>2, IdlePreserves DEF End
<1>3. CASE \E c \in Cmds : ParseLeaf(c) \/ ParseEvery(c)
  BY <1>3, ParseLeafPreserves, ParseEveryPreserves
<1>4. CASE \E v \in Vars : ParseVariable(v) \/ SetVar(v)
  BY <1>4, ParseVariablePreserves, SetVarPreserves
<1>5. CASE CommandItem \/ RunLeaf \/ DoEvery \/ AfterEvery \/ CmdFree
  BY <1>5, CommandItemPreserves, RunLeafPreserves, DoEveryPreserves, AfterEveryPreserves,
     CmdFreePreserves
<1>6. CASE \E d \in Dscs : RunEvery(d) \/ Timer(d)
  BY <1>6, RunEveryPreserves, TimerPreserves
<1> QED BY <1>1, <1>2, <1>3, <1>4, <1>5, <1>6 DEF CmdNext

(* The inductive invariant holds: every reference that command.c counts    *)
(* has an owner, a command about to run lives on the call behind it, and a *)
(* struct every is on the stack once or has its timer pending.             *)
THEOREM CommandsInvariant == CmdSpec => []CmdInv
  BY InitCmdInv, NextCmdInv, PTL DEF CmdSpec

(* cmd->ref is the number of places that will free the command plus the    *)
(* references that set_var drops, however commands are shared.             *)
THEOREM CountsExact == CmdSpec => []RefsExact
<1>1. CmdInv => RefsExact
  BY DEF CmdInv
<1> QED BY <1>1, CommandsInvariant, PTL

(* Neither a variable, an every, a running struct every, a call on the     *)
(* stack nor the parser holds a command that cmd_free has released.        *)
THEOREM NothingDangles == CmdSpec => []NoDangling
<1>1. CmdInv => NoDangling
  BY DEF CmdInv
<1> QED BY <1>1, CommandsInvariant, PTL

(* Once END was seen and the last timer has run, a command that is still   *)
(* allocated is that of a variable, inside another command or lost.        *)
THEOREM EndFreesAll == CmdSpec => []EndFrees
<1>1. CmdInv => EndFrees
  <2> SUFFICES ASSUME CmdInv, calls = << >>, cur = NULL, armed = {}, NEW c \in live,
                      ~(lost[c] > 0)
               PROVE  (\E v \in Vars : var[v] = c) \/ \E p \in live : child[p] = c
    BY DEF EndFrees, Quiet
  <2>1. \A d \in Dscs : dsc[d] = NULL
    BY DEF CmdInv, EverysAreHeld
  <2>2. c # NULL
    BY NullAssumption DEF CmdInv, CmdTypeOK
  <2>3. Owners(c) # {}
    <3>1. Cardinality(Owners(c)) # 0
      BY Accounts DEF Accounted
    <3> QED BY <3>1, FS_EmptySet
  <2>4. FreesOf(calls, c) = {}
    BY FreesNone
  <2> QED BY <2>1, <2>2, <2>3, <2>4 DEF Owners
<1> QED BY <1>1, CommandsInvariant, PTL

=============================================================================
