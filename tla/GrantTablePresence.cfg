SPECIFICATION PresenceSpec
CONSTANTS
  g1 = g1  g2 = g2  m1 = m1  m2 = m2  reader = reader  b1 = b1  alice = alice  bob = bob
  NoGrant = NoGrant  Anyone = Anyone
  GrantIds = {g1, g2}
  Meters = {m1, m2}
  Specs <- LimitSpecs
  Detachments <- Removals
  Clamp = 2
  ClockRange = 10
  MaxLag = 2
  MaxPoured = 2
  Buttons = {b1}
  Reader = reader
  TokenOf <- ButtonTokens
  MaxMissed = 1
  ByteRange = 4
  MaxSearches = 2
INVARIANTS ClampBoundsLifetime AbsenceNoticed
PROPERTIES PollEndsTheDue NoEarlyExpiry CountersCarryOver EndTellsTheTruth NoFlapping
