SPECIFICATION Spec
CONSTANTS
  g1 = g1  g2 = g2  m1 = m1  m2 = m2  mx = mx  r1 = r1
  reader = reader  alice = alice  bob = bob
  NoGrant = NoGrant  Anyone = Anyone
  GrantIds = {g1, g2}
  Meters = {m1, m2}
  Relays = {}
  Manual = {}
  Devices = {Anyone, reader}
  Tokens = {Anyone, alice, bob}
  Specs <- BudgetSpecs
  MinPourTicks = 1
  MaxBurst = 1
  MaxSession = 2
  MaxOwed = 2
PROPERTIES UpdateKeepsCounters
