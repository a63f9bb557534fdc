SPECIFICATION Spec
CONSTANTS
  g1 = g1  g2 = g2  m1 = m1  m2 = m2  fob = fob 
  Meters = {m1, m2}
  GrantIds = {g1, g2}
  Specs <- PourSpecs
  Button = Button
  Glasses = {1, 2}
  Steps = 2
  MaxFlow = 1
  MaxGrants = 2
  MaxReboots = 1
INVARIANTS PouredIsReported ChargedIsReported
PROPERTIES PourPrecedesGrantEnd
