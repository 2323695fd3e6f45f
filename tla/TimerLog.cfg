SPECIFICATION MCSpec
CONSTANTS
  Lobby = Lobby
  Fractal = Fractal
  NoName = NoName
  TimeMax = 10
  MaxEvents = 5
  Uuid <- MCUuid
  Name <- MCName
  RegionUuid <- MCRegionUuid
  Input <- MCInput
INVARIANTS
  ReevaluationStable
  HistoryIsTheRuns
  PruningIsExact
  SegmentsChain
CHECK_DEADLOCK FALSE
