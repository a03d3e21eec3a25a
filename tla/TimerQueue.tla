---------------------------- MODULE TimerQueue -----------------------------
(***************************************************************************)
(* The timer list of tcsim (tcsim/timer.c): the simulated kernel's         *)
(* add_timer, del_timer and mod_timer, tcsim's own add_hires_timer, and    *)
(* advance_time, which moves the simulation clock and runs the timers      *)
(* that expire on the way.                                                 *)
(*                                                                         *)
(* The functions that timers run (device polling, "every" commands, the    *)
(* timers of the simulated queuing disciplines) are the environment here:  *)
(* while a timer function runs it may add, delete and modify timers in any *)
(* way, and so may the script between two "time" commands.                 *)
(***************************************************************************)
EXTENDS Jiffies, SequencesExt

CONSTANTS
  Timers,    \* the struct timer_list objects
  Times,     \* the times that callers pass in
  MaxAdds    \* bound: how many timers are added in one behaviour

ASSUME TimesAssumption == Times \subseteq Jiffval
ASSUME MaxAddsAssumption == MaxAdds \in Nat

VARIABLES
  now,       \* struct jiffval now
  timers,    \* the list, soonest first
  pc,        \* where advance_time is, see PCs
  target,    \* its argument "next"
  adds       \* history: number of timers added so far

vars == <<now, timers, pc, target, adds>>

(* "script": advance_time is not running; "loop": at the head of its while *)
(* loop; "callback": inside this->function(this->data) and the kernel_poll *)
(* that follows; "exit": errorf or yyerror ended the program.              *)
PCs == {"script", "loop", "callback", "exit"}

(* A list element.  The field added is history: the order of the calls.    *)
Entry == [id : Timers, jiffies : Nat, ujiffies : Nat, added : Nat]

At(e) == JV(e.jiffies, e.ujiffies)

Pending == {timers[i].id : i \in 1..Len(timers)}

Callable == pc \in {"script", "callback"}

Init ==
  /\ now = JV(0, 0)
  /\ timers = << >>
  /\ pc = "script"
  /\ target = JV(0, 0)
  /\ adds = 0

-----------------------------------------------------------------------------

(* Slip: the walk passes only earlier timers, so that a new timer runs     *)
(* before older ones of the same time.                                     *)
SlipWalkStop(list, t, k) ==
  /\ \A i \in 1..(k - 1) : timer_lt(list[i], t)
  /\ k <= Len(list) => ~timer_lt(list[k], t)

(* The walk of add_hires_timer stops at the first element that is not      *)
(* timer_le the new one, so k is the position of the new element in list.  *)
WalkStop(list, t, k) ==
  /\ \A i \in 1..(k - 1) : timer_le(list[i], t)
  /\ k <= Len(list) => ~timer_le(list[k], t)

(* Shared by the three ways to add: insert into list, a past expiry time   *)
(* ends the program.                                                       *)
Insert(list, id, t) ==
  IF timer_lt(t, now)
    THEN /\ pc' = "exit"
         /\ timers' = list
         /\ UNCHANGED <<now, target, adds>>
    ELSE /\ \E k \in 1..(Len(list) + 1) :
              /\ WalkStop(list, t, k)
              /\ timers' = InsertAt(list, k,
                             [id |-> id, jiffies |-> t.jiffies,
                              ujiffies |-> t.ujiffies, added |-> adds])
         /\ adds' = adds + 1
         /\ UNCHANGED <<now, target, pc>>

(* There is no check that the timer is not pending already.                *)
AddHiresTimer(id, t) ==
  /\ Callable
  /\ adds < MaxAdds
  /\ Insert(timers, id, t)

(* add_timer clears expires_ujiffies first.                                *)
AddTimer(id, t) == AddHiresTimer(id, JV(t.jiffies, 0))

DelTimer(id) ==
  /\ Callable
  /\ \/ \E k \in 1..Len(timers) :
          /\ timers[k].id = id
          /\ timers' = RemoveAt(timers, k)
     \/ id \notin Pending /\ UNCHANGED timers
  /\ UNCHANGED <<now, pc, target, adds>>

(* Slip: mod_timer does not unlink the timer first.                        *)
SlipModTimer(id, t) ==
  /\ Callable
  /\ adds < MaxAdds
  /\ Insert(timers, id, JV(t.jiffies, 0))

ModTimer(id, t) ==
  /\ Callable
  /\ adds < MaxAdds
  /\ \/ \E k \in 1..Len(timers) :
          /\ timers[k].id = id
          /\ Insert(RemoveAt(timers, k), id, JV(t.jiffies, 0))
     \/ id \notin Pending /\ Insert(timers, id, JV(t.jiffies, 0))

(* errorf or yyerror called by the script or by a timer function, for      *)
(* reasons of its own: tcsim ends where it is.                             *)
CallerExits ==
  /\ Callable
  /\ pc' = "exit"
  /\ UNCHANGED <<now, timers, target, adds>>

-----------------------------------------------------------------------------

(* Slip: the clock may be turned back.                                     *)
SlipAdvanceTime(next) ==
  /\ pc = "script"
  /\ target' = next
  /\ pc' = "loop"
  /\ UNCHANGED <<now, timers, adds>>

(* The "time" command: turning back time is an error that ends tcsim.      *)
AdvanceTime(next) ==
  /\ pc = "script"
  /\ target' = next
  /\ pc' = IF jiffval_cmp(next, now) < 0 THEN "exit" ELSE "loop"
  /\ UNCHANGED <<now, timers, adds>>

(* Slip: a timer at the target itself is not run.                          *)
SlipDue == timers # << >> /\ timer_lt(Head(timers), target)

(* The condition of the while loop.                                        *)
Due == timers # << >> /\ timer_le(Head(timers), target)

(* Slip: the last timer of the list is taken instead of the first.         *)
SlipFire ==
  /\ pc = "loop"
  /\ Due
  /\ timers' = Front(timers)
  /\ now' = At(Last(timers))
  /\ pc' = "callback"
  /\ UNCHANGED <<target, adds>>

(* Unlink the first timer, set the clock to its expiry time, call it.      *)
Fire ==
  /\ pc = "loop"
  /\ Due
  /\ timers' = Tail(timers)
  /\ now' = At(Head(timers))
  /\ pc' = "callback"
  /\ UNCHANGED <<target, adds>>

(* The timer function and kernel_poll(NULL,0) have returned.               *)
Return ==
  /\ pc = "callback"
  /\ pc' = "loop"
  /\ UNCHANGED <<now, timers, target, adds>>

(* No timer left up to the target: now = next.                             *)
Finish ==
  /\ pc = "loop"
  /\ ~Due
  /\ now' = target
  /\ pc' = "script"
  /\ UNCHANGED <<timers, target, adds>>

(* The callers' obligation, as in the kernel: a timer is not added while   *)
(* it is pending.  Adding it twice would tie the list into a loop.         *)
Next ==
  \/ \E id \in Timers \ Pending, t \in Times :
       AddHiresTimer(id, t) \/ AddTimer(id, t)
  \/ \E id \in Timers, t \in Times : ModTimer(id, t)
  \/ \E id \in Timers : DelTimer(id)
  \/ \E t \in Times : AdvanceTime(t)
  \/ CallerExits
  \/ Fire
  \/ Return
  \/ Finish

Spec == Init /\ [][Next]_vars

-----------------------------------------------------------------------------

TypeOK ==
  /\ now \in Jiffval
  /\ timers \in Seq(Entry)
  /\ pc \in PCs
  /\ target \in Jiffval
  /\ adds \in Nat

(* e runs before f: it expires earlier, or at the same time and was added  *)
(* first (add_hires_timer passes elements that are timer_le the new one).  *)
Before(e, f) ==
  \/ timer_lt(e, f)
  \/ At(e) = At(f) /\ e.added < f.added

Ordered(list) ==
  \A i, j \in 1..Len(list) : i < j => Before(list[i], list[j])

Distinct(list) ==
  \A i, j \in 1..Len(list) : list[i].id = list[j].id => i = j

NoneBefore(list, t) == \A i \in 1..Len(list) : timer_le(t, list[i])

Stamped(list, n) == \A i \in 1..Len(list) : list[i].added < n

(* The list is in the order in which the timers have to run.               *)
Sorted == Ordered(timers)

(* No timer waits for a time that is already over.  A timer left behind    *)
(* would make advance_time set the clock back when it runs.                *)
NoneOverdue == NoneBefore(timers, now)

(* While advance_time runs, the clock has not passed its target.           *)
TargetAhead == pc \in {"loop", "callback"} => timer_le(now, target)

(* The inductive invariant: order alone is not inductive, inserting needs  *)
(* the call numbers and the clock, and removing a timer by its identity    *)
(* needs to know that it is linked only once.                              *)
IInv ==
  /\ TypeOK
  /\ Sorted
  /\ NoneOverdue
  /\ TargetAhead
  /\ Distinct(timers)
  /\ Stamped(timers, adds)

(* The simulation clock never goes backward, whatever the timer functions  *)
(* do while advance_time walks the list.                                   *)
ClockMonotone == [][timer_le(now, now')]_vars

(* When advance_time returns, the clock is at its target and every timer   *)
(* up to and including the target has been run, timers that were added by  *)
(* other timers on the way included.                                       *)
AdvanceComplete ==
  [][pc = "loop" /\ pc' = "script" =>
       /\ now' = target
       /\ \A i \in 1..Len(timers') : timer_lt(now', timers'[i])]_vars

-----------------------------------------------------------------------------

(* Refinement: the ordered list is an event calendar.                      *)
Calendar == INSTANCE EventCalendar WITH
  Ids   <- Timers,
  Goals <- Times,
  cal   <- {timers[i] : i \in 1..Len(timers)},
  mode  <- CASE pc = "script" -> "stopped"
             [] pc \in {"loop", "callback"} -> "running"
             [] OTHER -> "dead",
  goal  <- target,
  stamp <- adds

(* add_hires_timer, del_timer, mod_timer and advance_time together behave  *)
(* as an event calendar: the list position of a timer is never observable  *)
(* except as "earliest first, first added first among equals".             *)
ImplementsCalendar == Calendar!CalSpec

=============================================================================
