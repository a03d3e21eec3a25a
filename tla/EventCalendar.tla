--------------------------- MODULE EventCalendar ---------------------------
(***************************************************************************)
(* What the timer functions of tcsim promise, without a list: a set of     *)
(* scheduled events and a clock.  An advance of the clock takes the events *)
(* one at a time, always the earliest one, the first scheduled among       *)
(* equals, and ends exactly at its goal with no event left up to there.    *)
(* Specification only: no code of its own; TimerQueue implements it.       *)
(***************************************************************************)
EXTENDS Jiffies

CONSTANTS
  Ids,      \* what can be scheduled
  Goals     \* the times of events and of advances

VARIABLES
  now,      \* the clock
  cal,      \* set of scheduled events
  mode,     \* "stopped", "running" (an advance is under way) or "dead"
  goal,     \* where the advance under way leads
  stamp     \* how many events were scheduled so far

calVars == <<now, cal, mode, goal, stamp>>

CalInit ==
  /\ now = JV(0, 0)
  /\ cal = {}
  /\ mode = "stopped"
  /\ goal = JV(0, 0)
  /\ stamp = 0

(* Event e runs before event f.                                            *)
Earlier(e, f) ==
  \/ timer_lt(e, f)
  \/ /\ e.jiffies = f.jiffies
     /\ e.ujiffies = f.ujiffies
     /\ e.added < f.added

(* Schedule id, which replaces the event of that id if there is one.  The  *)
(* code schedules at whole jiffies as well as at the given time.           *)
Schedule(id, t) ==
  /\ mode # "dead"
  /\ timer_le(now, t)
  /\ cal' = {e \in cal : e.id # id} \cup
              {[id |-> id, jiffies |-> t.jiffies, ujiffies |-> t.ujiffies,
                added |-> stamp]}
  /\ stamp' = stamp + 1
  /\ UNCHANGED <<now, mode, goal>>

Cancel(id) ==
  /\ mode # "dead"
  /\ cal' = {e \in cal : e.id # id}
  /\ UNCHANGED <<now, mode, goal, stamp>>

Start(t) ==
  /\ mode = "stopped"
  /\ timer_le(now, t)
  /\ mode' = "running"
  /\ goal' = t
  /\ UNCHANGED <<now, cal, stamp>>

RunEarliest(e) ==
  /\ mode = "running"
  /\ timer_le(e, goal)
  /\ \A f \in cal \ {e} : Earlier(e, f)
  /\ cal' = cal \ {e}
  /\ now' = JV(e.jiffies, e.ujiffies)
  /\ UNCHANGED <<mode, goal, stamp>>

Arrive ==
  /\ mode = "running"
  /\ \A e \in cal : timer_lt(goal, e)
  /\ now' = goal
  /\ mode' = "stopped"
  /\ UNCHANGED <<cal, goal, stamp>>

(* A request for the past ends the program; the clock is not touched.      *)
Abort ==
  /\ mode # "dead"
  /\ mode' = "dead"
  /\ cal' \subseteq cal
  /\ UNCHANGED <<now, stamp>>

CalNext ==
  \/ \E id \in Ids, t \in Goals : Schedule(id, t) \/ Schedule(id, JV(t.jiffies, 0))
  \/ \E id \in Ids : Cancel(id)
  \/ \E t \in Goals : Start(t)
  \/ \E e \in cal : RunEarliest(e)
  \/ Arrive
  \/ Abort

CalSpec == CalInit /\ [][CalNext]_calVars

=============================================================================
