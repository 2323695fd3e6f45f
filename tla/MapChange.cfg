SPECIFICATION MapSpec
CONSTANTS
  Lobby = Lobby
  Raid = Raid
  ServerA = ServerA
  ServerB = ServerB
  Here = Here
  There = There
  Nowhere = Nowhere
  Origin = Origin
  Unread = Unread
  NoCode = NoCode
  NoName = NoName
  Map <- Maps
  Overridden <- JustLobby
  Instance <- Maps
  AutoPrepare <- Maps
  Enabled <- Maps
  Server <- TwoServers
  Ipv4 <- TwoServers
  Axis <- TwoAxes
  Coordinate <- TwoCoordinates
  Position <- TwoPlaces
  Entry <- AnyMap
  Delay = 1
  Patience = 1
  MaxNow = 1
  MaxTravels = 1
  MaxWalks = 1
  MaxPrepares = 1
  Uuid <- MCUuid
  Name <- MCName
  TimeMax = 20
INVARIANTS
  PrepareComesLast
  LogNamesTheMap
  InstanceIdIsTheServers
PROPERTIES
  TrackerCatchesUp
  StartsAreMoves
CHECK_DEADLOCK FALSE
