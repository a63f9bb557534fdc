SPECIFICATION FairSpec
CONSTANTS
  c1 = c1  c2 = c2
  Commands = {c1}
  Ending = {c1}
  NoCommand = NoCommand
  Capacity = 2
  MaxEvents = 1
  MaxFailures = 1
  MaxSwitches = 1
  MaxReboots = 1
INVARIANTS LossIsCountedUnlessRaced
PROPERTIES CommandsAnswered
CHECK_DEADLOCK FALSE
