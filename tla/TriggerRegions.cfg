SPECIFICATION MCSpec
CONSTANTS
  Map = {m1, m2}
  Nowhere = Nowhere
  Uuid = {u1, u2}
  Unnamed = Unnamed
  Gate = Gate
  Name <- Names
  SetName = {set}
  Ptr = {p1, p2, p3, p4}
  Absent = Absent
  Torn = Torn
  MaxSteps = 11
SYMMETRY Symmetry
INVARIANTS
  UuidsDistinct
  SignalledOnce
  OnlyReplacementBreaks
PROPERTIES
  ImplementsRegionLists
CHECK_DEADLOCK FALSE
