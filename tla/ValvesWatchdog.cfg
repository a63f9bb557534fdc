SPECIFICATION ValvesSpec
CONSTANTS
  g1 = g1  g2 = g2  m1 = m1  r1 = r1  alice = alice  bob = bob
  NoGrant = NoGrant  Anyone = Anyone
  GrantIds = {g1, g2}
  Meters = {m1}
  Specs <- TurnSpecs
  Detachments = {}
  Clamp = 3
  ClockRange = 10
  MaxLag = 1
  MaxPoured = 1
  Relays = {r1}
  Timeout = 5
PROPERTIES NeverCutMidGrant
