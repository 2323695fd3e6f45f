SPECIFICATION MCSpec
CONSTANTS
  Render = Render
  Combat = Combat
  Window = Window
  Deferred = Deferred
  Fractal = Fractal
  NoThread = NoThread
  NoEvent = NoEvent
  NoName = NoName
  TimeMax = 10
  Lag = 1
  StartWindow = 2
  MaxNow = 4
  Uuid <- MCUuid
  RegionUuid <- MCRegionUuid
  Draw <- MCDraw
  Name <- MCName
  Thread <- Threads
  Role <- Roles
PROPERTIES
  ImplementsTimerLog
  EventsArrive
INVARIANTS
  LogCanonical
  RunsOrdered
  EntriesArePosted
  SlotInBounds
  
  AutoStartsWerePrepared
