----------------------------- MODULE ScriptTime ----------------------------
(***************************************************************************)
(* The times written in a tcsim script (TOK_UJIFFIES of tcsim/cfg.l) and   *)
(* the "time" item that passes them to advance_time (tcsim/cfg.y).         *)
(*                                                                         *)
(* A literal is an integer, decimal digits, a prefix M, k, m, u or none,   *)
(* and the unit s or j.  The code computes in base ten with six decimals;  *)
(* here the base is a parameter and a thousand is Base to the power        *)
(* HalfDigits, so that small instances have all the carries and            *)
(* truncations.                                                            *)
(***************************************************************************)
EXTENDS TimerQueue

CONSTANTS
  Base,          \* 10 in the code
  HalfDigits,    \* 3 in the code
  HZ,            \* jiffies per second, 100 in the code
  Ints,          \* the integer parts in the script
  Fracs,         \* the sequences of decimals
  SIPrefixes,    \* the prefixes, "none" for a literal without
  MaxClock       \* bound: the clock goes up to this jiffy

(* Base to the power n.                                                    *)
Power[n \in Nat] == IF n = 0 THEN 1 ELSE Base * Power[n - 1]

K == Power[HalfDigits]

ASSUME BaseAssumption ==
  /\ Base \in Nat \ {0, 1}
  /\ HalfDigits \in Nat
  /\ HZ \in Nat \ {0}
  /\ UJ = K * K
ASSUME LiteralAssumption ==
  /\ Ints \subseteq Nat
  /\ MaxClock \in Nat
  /\ Fracs \subseteq Seq(0..(Base - 1))
  /\ SIPrefixes \subseteq {"M", "k", "m", "u", "none"}

Literals == [int : Ints, frac : Fracs, prefix : SIPrefixes, unit : {"s", "j"}]

-----------------------------------------------------------------------------

(* value at decimal i: a tenth of a unit at the first, zero at the end.    *)
Weight[i \in Nat] == IF i = 0 THEN UJ ELSE Weight[i - 1] \div Base

(* res.ujiffies of atoj after each of the decimals; those that have no     *)
(* weight are ignored.                                                     *)
Ujiffies(frac) ==
  LET u[i \in 0..Len(frac)] == IF i = 0 THEN 0 ELSE u[i - 1] + Weight[i] * frac[i]
  IN  u

atoj(lit) == JV(lit.int, Ujiffies(lit.frac)[Len(lit.frac)])

(* Slip: "m" forgets the part of the integer below a thousand.             *)
SlipPrefix(jv, prefix) ==
  CASE prefix = "M" -> JV(jv.jiffies * UJ + jv.ujiffies, 0)
    [] prefix = "k" -> JV(jv.jiffies * K + jv.ujiffies \div K, (jv.ujiffies % K) * K)
    [] prefix = "m" -> JV(jv.jiffies \div K, jv.ujiffies \div K)
    [] prefix = "u" -> JV(0, jv.jiffies)
    [] OTHER        -> jv

si_prefix(jv, prefix) ==
  CASE prefix = "M" -> JV(jv.jiffies * UJ + jv.ujiffies, 0)
    [] prefix = "k" -> JV(jv.jiffies * K + jv.ujiffies \div K, (jv.ujiffies % K) * K)
    [] prefix = "m" -> JV(jv.jiffies \div K, jv.ujiffies \div K + (jv.jiffies % K) * K)
    [] prefix = "u" -> JV(0, jv.jiffies)
    [] OTHER        -> jv

(* Seconds to jiffies.                                                     *)
stoj(secs) == dtojiffval(jiffvaltod(secs) * HZ)

(* The two lexer rules: only seconds are normalized.                       *)
TokUjiffies(lit) ==
  LET jv == si_prefix(atoj(lit), lit.prefix)
  IN  IF lit.unit = "s" THEN stoj(jv) ELSE jv

-----------------------------------------------------------------------------

(* The rule time: an absolute time, or one from now on.                    *)
AbsTime(jv, relative) == IF relative THEN jv_add(now, jv) ELSE jv

(* "time t" and "time +t".                                                 *)
TimeItem(jv, relative) ==
  /\ AbsTime(jv, relative).jiffies <= MaxClock
  /\ AdvanceTime(AbsTime(jv, relative))

Tokens == {TokUjiffies(lit) : lit \in Literals}

(* The other callers of the timer list are those of TimerQueue.            *)
TimeNext ==
  \/ \E jv \in Tokens, relative \in BOOLEAN : TimeItem(jv, relative)
  \/ Next

TimeSpec == Init /\ [][TimeNext]_vars

-----------------------------------------------------------------------------

(* The digits of a literal as one integer, after each of the decimals.     *)
Digits(int, frac) ==
  LET v[i \in 0..Len(frac)] == IF i = 0 THEN int ELSE v[i - 1] * Base + frac[i]
  IN  v

(* What a literal says, as a whole number of micro-units: the digits as an *)
(* integer, scaled by the prefix and rounded down.  Digits beyond the      *)
(* resolution are left out.                                                *)
Says(lit) ==
  LET n     == Len(lit.frac)
      whole == Digits(lit.int, lit.frac)[n]
      P     == CASE lit.prefix = "M" -> UJ * UJ * UJ
                 [] lit.prefix = "k" -> UJ * UJ * K
                 [] lit.prefix = "m" -> UJ * K
                 [] lit.prefix = "u" -> UJ
                 [] OTHER            -> UJ * UJ
      micro == (whole * P) \div (UJ * Power[n])
  IN  IF lit.unit = "s" THEN micro * HZ ELSE micro

(* The literals that have no more digits than there are weights, as what   *)
(* the lexer makes of them and what they say.                              *)
Written ==
  {<<TokUjiffies(lit), Says(lit)>> :
     lit \in {l \in Literals : Len(l.frac) <= 2 * HalfDigits}}

(* The time that "time" advances to is the time that the script says,      *)
(* whatever path through atoj, si_prefix, stoj and jv_add it takes, and    *)
(* whatever time the timers before it have left on the clock.              *)
TargetAsWritten ==
  \A w \in Written, relative \in BOOLEAN :
    jiffvaltod(AbsTime(w[1], relative)) =
      w[2] + (IF relative THEN jiffvaltod(now) ELSE 0)

=============================================================================
