SPECIFICATION Spec
CONSTANTS
  Session = {s1, s2}
  GroupId = {g1, g2}
  Default = Default
  Party = Party
  Untitled = Untitled
  NoGroup = NoGroup
  MaxLines = 3
  GroupName <- Names
INVARIANTS
  ReceiversRead
  OneObjectPerName
  StatesInOneOrder
PROPERTIES
  ImplementsRelay
  QueueDrains
  BrokenLeaves
CHECK_DEADLOCK FALSE
