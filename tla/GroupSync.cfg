SPECIFICATION SyncSpec
CONSTANTS
  Session = {s1, s2}
  GroupId = {g1, g2}
  Default = Default
  Party = Party
  Untitled = Untitled
  NoGroup = NoGroup
  Empty = Empty
  Custom = Custom
  MaxLines = 5
  MaxPosts = 1
  MaxMoves = 2
  GroupName <- Names
  CustomId <- CustomIds
  Suffixed <- Suffixes
  Place <- Travels
SYMMETRY Symmetry
INVARIANTS
  StatesReachAims
  GroupsAgree
PROPERTIES
  ImplementsServer
CHECK_DEADLOCK FALSE
