SPECIFICATION FairSpec
CONSTANTS
  hub = hub  auth = auth  reporter = reporter  reader = reader  http = http  clock = clock
  m1 = m1  m2 = m2  s1 = s1  s2 = s2  bus = bus
  None = None  Hub = hub  Auth = auth  Reporter = reporter  Reader = reader
  Http = http  Clock = clock
  Files <- BoardFiles
INVARIANTS NumbersIdentifyPorts
PROPERTIES GenerationEnds
CHECK_DEADLOCK FALSE
