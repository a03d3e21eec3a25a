---------------------------- MODULE MCScriptTime ---------------------------
(* Literals in base two with two decimals, one of which may be too many,   *)
(* and a few timers at all times that the clock can reach (jv_add carries  *)
(* only above UJ micro-jiffies).                                           *)
EXTENDS ScriptTime

CONSTANT MaxInt

MCInts == 0..MaxInt
MCFracs == SeqOf(0..(Base - 1), 2 * HalfDigits + 1)
MCTimes == [jiffies : 0..MaxClock, ujiffies : 0..UJ]

Symmetry == Permutations(Timers)

=============================================================================
