SPECIFICATION TrackerSpec
CONSTANTS
  Player = {p1, p2, p3}
  NoPlayer = NoPlayer
  Party = {g1, g2}
  Code <- MCCode
  NoCode = NoCode
  Crc <- MCCrc
  MaxChanges = 4
SYMMETRY Sameness
INVARIANTS
  CodesMatchParties
CHECK_DEADLOCK FALSE
