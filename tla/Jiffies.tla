------------------------------ MODULE Jiffies ------------------------------
(***************************************************************************)
(* Simulation time of tcsim: struct jiffval and the functions of           *)
(* tcsim/jiffies.c, plus the two comparisons of tcsim/timer.c.             *)
(*                                                                         *)
(* A time is a pair of unsigned longs, whole jiffies and micro-jiffies.    *)
(* The code compares the pairs lexicographically, which agrees with the    *)
(* time they denote only while ujiffies stays below one jiffy.  UJ is the  *)
(* number of micro-jiffies in a jiffy: 1000000 in the code, small in the   *)
(* model runs.                                                             *)
(***************************************************************************)
EXTENDS Integers

CONSTANT UJ

ASSUME UJAssumption == UJ \in Nat \ {0}

Jiffval == [jiffies : Nat, ujiffies : Nat]

JV(j, u) == [jiffies |-> j, ujiffies |-> u]

(* timer_lt and timer_le order expiry times exactly as jiffval_cmp orders  *)
(* struct jiffval, so one pair of operators stands for the three functions.*)
timer_lt(a, b) ==
  \/ a.jiffies < b.jiffies
  \/ a.jiffies = b.jiffies /\ a.ujiffies < b.ujiffies

timer_le(a, b) ==
  \/ a.jiffies < b.jiffies
  \/ a.jiffies = b.jiffies /\ a.ujiffies <= b.ujiffies

jiffval_cmp(a, b) == IF timer_lt(a, b) THEN -1 ELSE IF a = b THEN 0 ELSE 1

(* The time a pair denotes, in micro-jiffies: jiffvaltod without the       *)
(* rounding of a double.                                                   *)
jiffvaltod(t) == t.jiffies * UJ + t.ujiffies

(* The pair of a time in micro-jiffies: floor, remainder, normalize_jiffval*)
dtojiffval(v) == JV(v \div UJ, v % UJ)

(* jv_add carries only while ujiffies > UJ, so a sum of exactly one jiffy  *)
(* keeps ujiffies = UJ.                                                    *)
jv_add(a, b) ==
  LET u     == a.ujiffies + b.ujiffies
      carry == IF u = 0 THEN 0 ELSE (u - 1) \div UJ
  IN  JV(a.jiffies + b.jiffies + carry, u - carry * UJ)

=============================================================================
