SPECIFICATION SyncSpec
CONSTANTS
  Session = {s1, s2}
  GroupId = {g1, g2}
  Default = Default
  Party = Party
  Untitled = Untitled
  NoGroup = NoGroup
  Empty = Empty
  Custom = Custom
  MaxLines = 4
  MaxPosts = 1
  MaxMoves = 0
  GroupName <- Names
  CustomId <- CustomIds
  Suffixed <- Suffixes
  Place <- Travels
PROPERTIES
  RelayedEventsAreShared
CHECK_DEADLOCK FALSE
