----------------------------- MODULE MapChange -----------------------------
(***************************************************************************)
(* A map change from the game's shared memory to the event log: the map    *)
(* tracker (maptracker.cpp) on the render thread, its handlers (mod.cpp),  *)
(* one of which asks for the name of the map and thereby watches again,    *)
(* and the timer (timer.cpp): its frame, which looks at the state, then    *)
(* compares positions axis by axis and then starts, and the prepares,      *)
(* which copy the position axis by axis while frames go on.  As in         *)
(* TimerLog an event is sorted into the log and the log evaluated at once; *)
(* history and segments have no part here.                                 *)
(***************************************************************************)
EXTENDS EventLog, FiniteSets

CONSTANTS
  Map,          \* map ids; the tracker starts with Nowhere, 0
  Nowhere,
  Overridden,   \* maps whose name needs no request: map_name_overrides
  Instance,     \* maps of the type MAPTYPE_INSTANCE
  AutoPrepare,  \* maps for whose kind the settings ask for auto prepare
  Enabled,      \* maps for which is_enabled holds
  Server,       \* addresses of game servers
  Ipv4,         \* those that are of AF_INET
  NoCode,       \* "", the map code before the first change
  Axis,         \* of a position, three of them
  Coordinate,
  Position,     \* positions of the avatar
  Entry,        \* where the player may be as the addon is loaded
  Origin,       \* 0, the coordinates last_position starts with
  Unread,       \* a coordinate that a copy has not read
  Delay,        \* 500 milliseconds
  Patience,     \* 8000 milliseconds, the timeout of a request
  MaxNow, MaxTravels, MaxWalks, MaxPrepares   \* bounds

ASSUME MapAssumption ==
  /\ Nowhere \notin Map /\ Map \cup {"Unknown"} \subseteq Name
  /\ Overridden \subseteq Map /\ Instance \subseteq Map
  /\ AutoPrepare \subseteq Map /\ Enabled \subseteq Map
ASSUME ServerAssumption == Ipv4 \subseteq Server /\ NoCode \notin Server
ASSUME PositionAssumption ==
  /\ Axis \subseteq Nat /\ Axis # {} /\ Position \subseteq [Axis -> Coordinate] /\ Unread \notin Coordinate
ASSUME EntryAssumption == Entry \subseteq [map : Map, server : Server, avatar : Position]
ASSUME StampAssumption == 1 .. TimeMax - 1 \subseteq Uuid
ASSUME TimesAssumption ==
  /\ Delay \in Nat \ {0} /\ Patience \in Nat /\ MaxNow \in Nat

VARIABLES
  link,           \* the shared memory: the map, the server, the avatar
  now,            \* in units of the delay
  stamps,         \* how often the clock was read for an event
  map_id, map_code, last_position,
  calls,          \* the calls of watch on the render thread, the innermost last
  frame,          \* where a frame of the render thread is
  deferred,       \* what prepares the timer: threads, and the button in its frame
  travels, walks, prepares

VARIABLES log, state   \* of the event store

VARIABLES
  arrival,        \* of the last change: was it to be prepared, was its event late,
                  \* did another change come during its handlers, did the player
                  \* come to another server of the same map since
  still           \* the position was stored as a whole and the avatar did not move since

logVars == <<log, state>>
trackerVars == <<map_id, map_code, calls>>
timerVars == <<last_position, deferred, frame>>
playerVars == <<link, travels, walks, prepares>>
timeVars == <<now, stamps>>
mapVars == <<playerVars, timeVars, trackerVars, timerVars, logVars, arrival, still>>

-----------------------------------------------------------------------------

Call ==
  [stage : {"track", "signal", "name", "request", "code"}, asked : Map \cup {Nowhere},
   since : Nat, stamp : Nat]

(* What prepares the timer: until when it sleeps, the coordinate it read   *)
(* last, the axes it stored.  The avatar moved while it copied, or another *)
(* copy of which that is so ended meanwhile.                               *)
Prepare ==
  [source : {"other", "manual"}, change : Nat, due : Nat,
   read : Coordinate \cup {Unread}, stored : SUBSET Axis, moved : BOOLEAN]

(* Of a frame that is under way: the axes that are left to compare, and    *)
(* that still held when it looked, and nothing moved since.                *)
Frame ==
  [stage : {"over", "look", "compare", "start", "button"}, axes : SUBSET Axis,
   still : BOOLEAN]

FrameOver == [stage |-> "over", axes |-> {}, still |-> FALSE]

(* The CRC of an address: nothing but which address it is matters.         *)
Crc(server) == server

Top == calls[Len(calls)]

WithTop(call) == [calls EXCEPT ![Len(calls)] = call]

Idle == calls = <<>>

(* The first of some axes.                                                 *)
First(a, axes) == a \in axes /\ \A b \in axes : a <= b

UnderWay(d) == (d.read # Unread \/ d.stored # {}) /\ d.stored # Axis

Disturbed(ds) == {[d EXCEPT !.moved = @ \/ UnderWay(d)] : d \in ds}

MapInit ==
  /\ log = <<>>
  /\ state = [status |-> "stopped", start_time |-> 0, was_prepared |-> FALSE]
  /\ link \in Entry
  /\ now = 0 /\ stamps = 0
  /\ map_id = Nowhere /\ map_code = NoCode
  /\ last_position = [a \in Axis |-> Origin]
  /\ frame = FrameOver
  /\ calls = <<>> /\ deferred = {}
  /\ travels = 0 /\ walks = 0 /\ prepares = 0
  /\ arrival = [prepare |-> FALSE, late |-> FALSE, nested |-> FALSE, moved |-> FALSE]
  /\ still = FALSE

(* std::chrono::system_clock::now() in an EventEntry, and the entry.  Of   *)
(* two time stamps only the order matters to the log; no two are equal,    *)
(* and the log has one sorted form.  The clock does not reach max().       *)
Stamp == stamps + 1

AddEvent(time, type, source, name) ==
  LET event == [time |-> time, type |-> type, source |-> source,
                uuid |-> time, name |-> name]
      before == {k \in 1 .. Len(log) : Before(log[k], event)}
      result == Eval(InsertAt(log, Cardinality(before) + 1, event))
  IN  time < TimeMax /\ log' = result.kept /\ state' = Verdict(result.fsm)

AddEventNow(type, source) ==
  AddEvent(Stamp, type, source, NoName) /\ stamps' = Stamp

-----------------------------------------------------------------------------
(* The game.                                                               *)

Travel ==
  /\ travels < MaxTravels /\ travels' = travels + 1
  /\ \E m \in Map, a \in Server :
       /\ m # link.map \/ a # link.server
       /\ link' = [link EXCEPT !.map = m, !.server = a]
       /\ arrival' = [arrival EXCEPT !.moved = @ \/ m = map_id]
  /\ UNCHANGED <<walks, prepares, timeVars, trackerVars, timerVars, logVars, still>>

(* Also what follows a change of maps.                                     *)
Walk ==
  /\ walks < MaxWalks /\ walks' = walks + 1
  /\ \E p \in Position \ {link.avatar} : link' = [link EXCEPT !.avatar = p]
  /\ still' = FALSE /\ frame' = [frame EXCEPT !.still = FALSE]
  /\ deferred' = Disturbed(deferred)
  /\ UNCHANGED <<travels, prepares, timeVars, trackerVars, last_position, logVars, arrival>>

(* The render thread takes no time to speak of unless it waits for a name. *)
Waiting ==
  /\ ~ Idle /\ Top.stage = "request" /\ Top.asked \notin Overridden
  /\ now < Top.since + Patience

Tick ==
  /\ now < MaxNow
  /\ Idle \/ Waiting
  /\ now' = now + 1
  /\ UNCHANGED <<stamps, playerVars, trackerVars, timerVars, logVars, arrival, still>>

-----------------------------------------------------------------------------
(* MapTracker::watch                                                       *)

NewCall == [stage |-> "track", asked |-> Nowhere, since |-> 0, stamp |-> 0]

(* A frame begins.  watch compares the map id ...                          *)
Watch ==
  /\ Idle /\ frame.stage = "over" /\ map_id # link.map
  /\ calls' = <<NewCall>>
  /\ frame' = [frame EXCEPT !.stage = "look"]
  /\ UNCHANGED <<playerVars, timeVars, map_id, map_code, last_position, deferred,
                 logVars, arrival, still>>

(* Mutant: the map id is not stored when the handlers watch again.         *)
TrackOuterMap ==
  /\ ~ Idle /\ Top.stage = "track" /\ Len(calls) < 4
  /\ UNCHANGED map_id
  /\ calls' = WithTop([Top EXCEPT !.stage = "signal", !.since = now])
  /\ arrival' = [prepare |-> FALSE, late |-> FALSE, nested |-> Len(calls) > 1,
                 moved |-> FALSE]
  /\ UNCHANGED <<playerVars, timeVars, map_code, timerVars, logVars, still>>

(* ... and reads it a second time to store it: the player may be elsewhere *)
(* by then, or back.                                                       *)
TrackMap ==
  /\ ~ Idle /\ Top.stage = "track"
  /\ map_id' = link.map
  /\ calls' = WithTop([Top EXCEPT !.stage = "signal", !.since = now])
  /\ arrival' = [prepare |-> FALSE, late |-> FALSE, nested |-> Len(calls) > 1,
                 moved |-> FALSE]
  /\ UNCHANGED <<playerVars, timeVars, map_code, timerVars, logVars, still>>

(* Settings::should_autoprepare, which reads the type of the live map and  *)
(* the kind of the tracked one.                                            *)
ShouldAutoprepare == link.map \in Instance /\ map_id \in AutoPrepare

NewPrepare(source, due) ==
  [source |-> source, change |-> travels, due |-> due, read |-> Unread, stored |-> {},
   moved |-> FALSE]

(* Timer::map_change.  The other handlers are those of TriggerRegions.     *)
TimerMapChange ==
  /\ ~ Idle /\ Top.stage = "signal"
  /\ deferred' = IF ShouldAutoprepare
                 THEN deferred \cup {NewPrepare("other", now + Delay)}
                 ELSE deferred
  /\ arrival' = [arrival EXCEPT !.prepare = ShouldAutoprepare]
  /\ calls' = WithTop([Top EXCEPT !.stage = "name"])
  /\ UNCHANGED <<playerVars, timeVars, map_id, map_code, last_position, frame, logVars,
                 still>>

(* The arguments of EventEntry are evaluated in any order: the time before *)
(* the name or after it.  get_map_name watches before it asks.             *)
GetMapName ==
  /\ ~ Idle /\ Top.stage = "name"
  /\ \E stamp \in {Stamp, 0} :
       LET outer == WithTop([Top EXCEPT !.stage = "request", !.asked = map_id,
                                        !.stamp = stamp])
       IN  /\ stamp < TimeMax
           /\ stamps' = IF stamp = 0 THEN stamps ELSE stamp
           /\ calls' = IF map_id = link.map THEN outer ELSE Append(outer, NewCall)
  /\ UNCHANGED <<playerVars, now, map_id, map_code, timerVars, logVars, arrival,
                 still>>

(* Mutant: the name is that of the map the player is on by then.           *)
NamesNow(asked) == {link.map}

(* A name, or what is left when the request fails.                         *)
Names(asked) == IF asked \in Overridden THEN {asked} ELSE {asked, "Unknown"}

HandlersReturn ==
  /\ ~ Idle /\ Top.stage = "request"
  /\ calls' = WithTop([Top EXCEPT !.stage = "code"])

DispatchMapChange ==
  /\ HandlersReturn
  /\ LET time == IF Top.stamp = 0 THEN Stamp ELSE Top.stamp
     IN  /\ \E name \in Names(Top.asked) : AddEvent(time, "map_change", "other", name)
         /\ stamps' = IF Top.stamp = 0 THEN Stamp ELSE stamps
  /\ arrival' = [arrival EXCEPT !.late = @ \/ now >= Top.since + Delay]
  /\ UNCHANGED <<playerVars, now, map_id, map_code, timerVars, still>>

(* Mutant: the code is only computed for the first server.                 *)
UpdateCodeOnce ==
  /\ ~ Idle /\ Top.stage = "code"
  /\ map_code' = IF map_code = NoCode THEN Crc(link.server) ELSE map_code
  /\ calls' = SubSeq(calls, 1, Len(calls) - 1)
  /\ UNCHANGED <<playerVars, timeVars, map_id, timerVars, logVars, arrival, still>>

(* The code of the server, after the handlers; none of an IPv6 address.    *)
UpdateCode ==
  /\ ~ Idle /\ Top.stage = "code"
  /\ map_code' = IF link.server \in Ipv4 THEN Crc(link.server) ELSE map_code
  /\ calls' = SubSeq(calls, 1, Len(calls) - 1)
  /\ UNCHANGED <<playerVars, timeVars, map_id, timerVars, logVars, arrival, still>>

(* What get_instance_id returns on a map that is tracked.                  *)
get_instance_id == map_code

-----------------------------------------------------------------------------
(* What prepares the timer.  A copy reads and stores a coordinate after    *)
(* the other, and nobody waits for it.                                     *)

(* Mutant: nothing sleeps.                                                 *)
AwakeAtOnce(d) == TRUE

Awake(d) == now >= d.due

ReadAxis(d, a) ==
  /\ Awake(d) /\ d.read = Unread /\ First(a, Axis \ d.stored)
  /\ deferred' = (deferred \ {d}) \cup {[d EXCEPT !.read = link.avatar[a]]}
  /\ UNCHANGED <<playerVars, timeVars, trackerVars, last_position, frame, logVars, arrival, still>>

(* A coordinate is stored, which leaves some of the axes.                  *)
StoreAndLeave(d, a, rest) ==
  LET done == rest = {}
      after == [d EXCEPT !.read = Unread, !.stored = Axis \ rest, !.moved = @ /\ ~ done]
      others == deferred \ {d}
  IN  /\ d.read # Unread /\ First(a, Axis \ d.stored)
      /\ last_position' = [last_position EXCEPT ![a] = d.read]
      /\ deferred' = (IF done /\ d.moved THEN Disturbed(others) ELSE others) \cup {after}
      /\ still' = IF done THEN \A c \in deferred : ~ c.moved ELSE still
      /\ UNCHANGED <<playerVars, timeVars, trackerVars, frame, logVars, arrival>>

(* Mutant: the last coordinate is not copied.                              *)
StoreAllButOne(d, a) ==
  LET rest == Axis \ (d.stored \cup {a})
  IN  StoreAndLeave(d, a, IF Cardinality(rest) = 1 THEN {} ELSE rest)

StoreAxis(d, a) == StoreAndLeave(d, a, Axis \ (d.stored \cup {a}))

PrepareReturns(d) ==
  /\ Awake(d) /\ d.stored = Axis
  /\ deferred' = deferred \ {d}

DispatchPrepare(d) ==
  /\ PrepareReturns(d)
  /\ AddEventNow("prepare", d.source)
  /\ frame' = IF d.source = "manual" THEN FrameOver ELSE frame
  /\ UNCHANGED <<playerVars, now, trackerVars, last_position, arrival, still>>

(* The key does not store the position, and does not wait for frames.      *)
PrepareKey ==
  /\ prepares < MaxPrepares /\ prepares' = prepares + 1
  /\ AddEventNow("prepare", "manual")
  /\ still' = FALSE /\ frame' = [frame EXCEPT !.still = FALSE]
  /\ UNCHANGED <<link, travels, walks, now, trackerVars, last_position, deferred, arrival>>

-----------------------------------------------------------------------------
(* Timer::mod_imgui, in a frame whose watch found the map unchanged or has *)
(* returned.  What it looks at, asks and compares at once no other thread  *)
(* can tell apart from looking later or earlier; what comes between the    *)
(* look, the comparisons and the event can.                                *)

FrameMoves ==
  UNCHANGED <<playerVars, timeVars, trackerVars, last_position, deferred, logVars, arrival, still>>

(* The state is copied and the settings are asked; nothing follows if the  *)
(* timer was not prepared.                                                 *)
Look ==
  /\ Idle
  /\ frame.stage = "look" \/ (frame.stage = "over" /\ map_id = link.map)
  /\ frame' = IF state.status = "prepared" /\ link.map \in Enabled
              THEN [stage |-> "compare", axes |-> Axis, still |-> still]
              ELSE FrameOver
  /\ FrameMoves

(* The coordinates are compared until one differs.                         *)
CompareAxis(a) ==
  /\ frame.stage = "compare" /\ First(a, frame.axes)
  /\ frame' = IF last_position[a] # link.avatar[a] THEN [frame EXCEPT !.stage = "start"]
              ELSE IF frame.axes = {a} THEN FrameOver
              ELSE [frame EXCEPT !.axes = @ \ {a}]
  /\ FrameMoves

StartReturns == frame.stage = "start" /\ frame' = FrameOver

StartOnMovement ==
  /\ StartReturns
  /\ AddEventNow("start", "movement")
  /\ UNCHANGED <<playerVars, now, trackerVars, last_position, deferred, arrival, still>>

(* The button is in a window that is drawn then.                           *)
PrepareButton ==
  /\ frame.stage = "over" /\ link.map \in Enabled
  /\ prepares < MaxPrepares /\ prepares' = prepares + 1
  /\ deferred' = deferred \cup {NewPrepare("manual", now)}
  /\ frame' = [frame EXCEPT !.stage = "button"]
  /\ UNCHANGED <<link, travels, walks, timeVars, trackerVars, last_position, logVars, arrival, still>>

MapNext ==
  \/ Travel \/ Walk \/ Tick
  \/ Watch \/ TrackMap \/ TimerMapChange \/ GetMapName \/ DispatchMapChange \/ UpdateCode
  \/ \E d \in deferred :
       DispatchPrepare(d) \/ \E a \in Axis : ReadAxis(d, a) \/ StoreAxis(d, a)
  \/ PrepareKey
  \/ Look \/ StartOnMovement \/ PrepareButton
  \/ \E a \in Axis : CompareAxis(a)

(* The render thread draws frames, and what it called returns: the watch,  *)
(* the timer's part, and the copy of the button.                           *)
ButtonPrepares ==
  \E d \in deferred :
    /\ d.source = "manual"
    /\ PrepareReturns(d) \/ \E a \in Axis : ReadAxis(d, a) \/ StoreAxis(d, a)

Fairness ==
  /\ WF_calls(Watch \/ TrackMap \/ TimerMapChange \/ GetMapName \/ HandlersReturn \/ UpdateCode)
  /\ WF_frame(Look \/ StartReturns \/ \E a \in Axis : CompareAxis(a))
  /\ WF_deferred(ButtonPrepares)

MapSpec == MapInit /\ [][MapNext]_mapVars /\ Fairness

-----------------------------------------------------------------------------

MapTypeOK ==
  /\ log \in Seq(EventEntry)
  /\ state \in [status : TimerStatus, start_time : Instant, was_prepared : BOOLEAN]
  /\ link \in [map : Map, server : Server, avatar : Position]
  /\ now \in 0 .. MaxNow /\ stamps \in Nat
  /\ map_id \in Map \cup {Nowhere} /\ map_code \in Server \cup {NoCode}
  /\ last_position \in [Axis -> Coordinate \cup {Origin}] /\ frame \in Frame
  /\ calls \in Seq(Call)
  /\ deferred \subseteq Prepare

(* When everything a change caused has happened and auto prepare was asked *)
(* for, the timer is prepared, or started since: the deferred prepare      *)
(* comes after the map_change that stops the timer, also when threads of   *)
(* earlier changes are still under way - unless the map_change itself is   *)
(* late because it waits for a name, or another change comes in between.   *)
(* (timer.cpp:89-94 beside mod.cpp:77-80)                                  *)
PrepareComesLast ==
  Idle /\ deferred = {} /\ arrival.prepare /\ ~ arrival.late /\ ~ arrival.nested =>
    state.status # "stopped"

(* Between changes the run that is recorded is on the map that is tracked, *)
(* or on an unknown one, however long its name took and whatever the       *)
(* player did meanwhile - unless a change came during the handlers of      *)
(* another.  (maptracker.cpp: the id is read before the nested watch)      *)
LogNamesTheMap ==
  LET i == CHOOSE k \in 1 .. Len(log) :
             /\ log[k].type = "map_change"
             /\ \A j \in k + 1 .. Len(log) : log[j].type # "map_change"
  IN  Idle /\ map_id # Nowhere /\ ~ arrival.nested => log[i].name \in {map_id, "Unknown"}

(* A map the player stays on is tracked in the end, and its change is in   *)
(* the log: watching from inside of a handler does not go on for ever.     *)
TrackerCatchesUp ==
  \A m \in Map :
    link.map = m ~> (link.map # m \/ (Idle /\ map_id = m))

(* The id a player gets in an instance is that of the server it is on,     *)
(* also when it traveled while the handlers of a change waited - unless it *)
(* went to another server of the same map, which the code never sees.      *)
(* (maptracker.cpp:16-21, 140-149; "in instances via server IP",           *)
(* Readme.md:7)                                                            *)
InstanceIdIsTheServers ==
  Idle /\ map_id = link.map /\ link.server \in Ipv4 /\ ~ arrival.moved =>
    get_instance_id = Crc(link.server)

(* A frame does not start the timer on movement when, as it looked at the  *)
(* state, the avatar stood where its position was stored, and stands there *)
(* still: however many threads and the button copy the position meanwhile, *)
(* one over the other - unless the timer was prepared with the key.  (A    *)
(* position that is stored after the look may start the timer on the spot: *)
(* timer.cpp:28, 41-48, 92-93, 136-137 beside mod.cpp:127-131; "start on   *)
(* movement/skillcast", lang.h:50)                                         *)
StartsAreMoves == [][StartOnMovement => ~ frame.still]_mapVars

=============================================================================
