SPECIFICATION Spec
CONSTANTS
  Seats = {exit}
  ExitSeat = exit
  Budget = 1
  Days = 2
  MaxFree = 2
  MaxFaults = 1
  MaxStarts = 2
INVARIANTS RecordsKept NoAlertSkipped
PROPERTIES LatchFollowed
CHECK_DEADLOCK FALSE
