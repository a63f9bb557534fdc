SPECIFICATION FairSpec
CONSTANTS
  c1 = c1  c2 = c2
  Commands = {c1, c2}
  Ending = {c1}
  NoCommand = NoCommand
  Capacity = 2
  Window = 1
  MaxEvents = 1
  MaxFailures = 2
  MaxReboots = 1
INVARIANTS LossIsCounted NoOvertaking NotReappliedInWindow
PROPERTIES CommandsAnswered
CHECK_DEADLOCK FALSE
