SPECIFICATION LiveSpec
CONSTANTS
  Worlds <- MCWorlds
  HeadersPerPacket = 10
  Flaps = 1
INVARIANTS
  Reliable
  RouterLsaCurrent
  DrAgreement
PROPERTIES
  Converges
