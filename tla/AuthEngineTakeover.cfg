SPECIFICATION Spec
CONSTANTS
  g1 = g1  g2 = g2  m1 = m1  m2 = m2  mx = mx  r1 = r1
  reader = reader  alice = alice  bob = bob
  NoGrant = NoGrant  Anyone = Anyone
  GrantIds = {g1, g2}
  Meters = {m1, m2}
  Relays = {r1}
  Manual = {r1}
  Devices = {Anyone, reader}
  Tokens = {Anyone, alice, bob}
  Specs <- TakeoverSpecs
  MinPourTicks = 2
  MaxBurst = 1
  MaxSession = 2
  MaxOwed = 2
INVARIANTS OneGrantPerMeter AttributionFollowsGrants PourHasOneDrinker NoOvercharge
PROPERTIES ValveNeedsGrant ValveHeldOpen EveryReleaseReported PourPrecedesGrantEnd ImplementsTaps
