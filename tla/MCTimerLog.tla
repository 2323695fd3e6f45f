----------------------------- MODULE MCTimerLog -----------------------------
(***************************************************************************)
(* Instances of TimerLog for TLC.  The largest uuid is a trigger region's, *)
(* which several events share; the others are generated ones.              *)
(***************************************************************************)
EXTENDS TimerLog

CONSTANTS
  Lobby, Fractal,
  MaxEvents   \* bound on the number of arrivals

MCName == {Lobby, Fractal}

Plain(type, times, uuids) ==
  [time : times, type : {type}, source : {"manual"}, uuid : uuids, name : {NoName}]

PlainTypes ==
  {"start", "stop", "reset", "prepare", "segment", "segment_clear", "history_clear"}

(* Every kind of event at a time of the set, with a generated uuid, a map  *)
(* change to each map, and the segments of a trigger region.               *)
Events(times, uuids) ==
  UNION {Plain(type, times, uuids) : type \in PlainTypes}
  \cup [time : times, type : {"map_change"}, source : {"other"},
        uuid : uuids, name : {Lobby, Fractal}]
  \cup [time : times, type : {"segment"}, source : {"combat"},
        uuid : RegionUuid, name : {Lobby}]

(* Arrivals in any order of time, with ties.                               *)
Early == Events(1 .. 3, 1 .. 3)

(* Arrivals in the order of time: the n-th carries time n.                 *)
Clock == UNION {Events({n}, {n}) : n \in 1 .. MaxEvents}

MCInput == Early \cup Clock

AnyOrder(s) == Len(s) <= 3 /\ ToSet(s) \subseteq Early
InOrder(s) == \A n \in 1 .. Len(s) : s[n].time = n /\ s[n].uuid \in {n} \cup RegionUuid

MCUuid == 1 .. 6
MCRegionUuid == {6}

MCNext ==
  \E e \in Input :
    /\ AnyOrder(Append(received, e)) \/ InOrder(Append(received, e))
    /\ Arrive(e)

MCSpec == Init /\ [][MCNext]_vars

=============================================================================
