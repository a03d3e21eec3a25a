\* The prefixes that the documentation names.
CONSTANTS
  UJ = 4
  Base = 2
  HalfDigits = 1
  HZ = 2
  MaxInt = 3
  Ints <- MCInts
  Fracs <- MCFracs
  SIPrefixes = {"none", "m", "k", "M"}
  Timers = {t1, t2, t3}
  Times <- MCTimes
  MaxAdds = 3
  MaxClock = 1
SPECIFICATION TimeSpec
SYMMETRY Symmetry
INVARIANT Sorted
INVARIANT IInv
INVARIANT TargetAsWritten
PROPERTY ClockMonotone
PROPERTY AdvanceComplete
PROPERTY ImplementsCalendar
CHECK_DEADLOCK FALSE
