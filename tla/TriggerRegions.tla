--------------------------- MODULE TriggerRegions ---------------------------
(***************************************************************************)
(* The trigger regions (trigger_region.cpp): TriggerWatcher, which signals *)
(* the regions a player enters and keeps a file of them per map, and       *)
(* TriggerEditor, which edits the watcher's vector and keeps sets of       *)
(* regions.  Both run on the render thread.  The game writes the map id of *)
(* the player whenever it likes, so every read of it is a step of its own; *)
(* it may end between any two steps, also between the truncation and the   *)
(* writing of a file.                                                      *)
(*                                                                         *)
(* Regions are held by shared pointers: saving or loading a set copies the *)
(* pointers, so the set and the vector share their objects.  The shape of  *)
(* a region is left out: the player may be inside any of them.             *)
(***************************************************************************)
EXTENDS Integers, Sequences

CONSTANTS
  Map, Nowhere,    \* map ids, and the id 0 the trackers start with
  Uuid,            \* identities of regions: the bound on regions in being
  Name, Unnamed,   \* names of regions; a new one has the empty name
  SetName,
  Ptr,             \* addresses of region objects
  Absent,          \* no file, no set, no object
  Torn             \* a file that was opened for writing and not written

ASSUME NowhereAssumption == Nowhere \notin Map
ASSUME NameAssumption == Unnamed \in Name

VARIABLES
  mapId,           \* the map in the mumble link
  tracked,         \* MapTracker::map_id
  stage,           \* where the render thread is: see Stage
  last_map_id, regions,                        \* TriggerWatcher
  trigger_sets, selected_line,                 \* TriggerEditor
  object,          \* the regions that are pointed to
  files, set_files,                            \* on disk, per map
  saved_map,       \* the map whose file of sets is being written
  broken,          \* a vector was indexed out of its bounds
  replaced,        \* the vector was replaced under a selected line
  signals          \* uuids signalled since regions were last read or set

watcher == <<last_map_id, regions>>
editor == <<trigger_sets, selected_line>>
disk == <<files, set_files>>
history == <<broken, replaced, signals>>
vars == <<mapId, tracked, stage, watcher, editor, object, disk, saved_map, history>>

-----------------------------------------------------------------------------

(* "idle" between two handlers; then, in a map change, what was done last: *)
(* the ids differed, the new id was stored and the signal called, the file *)
(* of the left map was opened, and written, the regions were entered, the  *)
(* new map was found to have a file of sets.  "saving" is between opening  *)
(* and writing a file of sets; the last two are the destructor.            *)
Stage ==
  {"idle", "changed", "signalled", "opened", "written", "entered", "found",
   "saving", "closing", "closed"}

TriggerRegion == [uuid : Uuid, name : Name, is_triggered : BOOLEAN]

ASSUME AbsentAssumption == Absent \notin TriggerRegion

(* What is written to a file: everything but is_triggered.                 *)
Stored == [uuid : Uuid, name : Name]

ToJson(rs) ==
  [i \in DOMAIN rs |-> [uuid |-> object[rs[i]].uuid, name |-> object[rs[i]].name]]

FromJson(json) == [uuid |-> json.uuid, name |-> json.name, is_triggered |-> FALSE]

Elements(s) == {s[i] : i \in DOMAIN s}

(* The objects that sets point to, and those that anything points to.      *)
InSets(sets) == UNION {Elements(sets[n]) : n \in {n \in SetName : sets[n] # Absent}}
Live(rs, sets) == Elements(rs) \cup InSets(sets)

(* An object lives until nothing points to it.                             *)
Collect(objects, rs, sets) ==
  [p \in Ptr |-> IF p \in Live(rs, sets) THEN objects[p] ELSE Absent]

(* Addresses for new objects; which ones new returns makes no difference.  *)
Allocations(I, taken) ==
  {a \in [I -> Ptr \ taken] : \A i, j \in I : a[i] = a[j] => i = j}

(* The objects after new ones were read from json at the addresses a.      *)
Read(json, a) ==
  [p \in Ptr |-> IF p \in {a[i] : i \in DOMAIN a}
                 THEN FromJson(json[CHOOSE i \in DOMAIN a : a[i] = p])
                 ELSE object[p]]

(* A file that input >> json can read.                                     *)
Readable(file) == file \notin {Absent, Torn}

(* The uuids of the random generator are new.                              *)
NewUuid ==
  {u \in Uuid :
     /\ \A p \in Ptr : object[p] # Absent => object[p].uuid # u
     /\ \A m \in Map : Readable(files[m]) => \A s \in Elements(files[m]) : s.uuid # u
     /\ \A m \in Map, n \in SetName :
          Readable(set_files[m]) /\ set_files[m][n] # Absent =>
            \A s \in Elements(set_files[m][n]) : s.uuid # u
     /\ u \notin Elements(signals)}

NoSets == [n \in SetName |-> Absent]

Init ==
  /\ mapId \in Map
  /\ tracked = Nowhere /\ stage = "idle"
  /\ last_map_id = Nowhere /\ regions = <<>>
  /\ trigger_sets = NoSets /\ selected_line = -1
  /\ object = [p \in Ptr |-> Absent]
  /\ files = [m \in Map \cup {Nowhere} |-> Absent]
  /\ set_files = [m \in Map |-> Absent] /\ saved_map = Nowhere
  /\ broken = FALSE /\ replaced = FALSE /\ signals = <<>>

-----------------------------------------------------------------------------
(* The player travels (external).                                          *)
Travel(m) ==
  /\ m # mapId
  /\ mapId' = m
  /\ UNCHANGED <<tracked, stage, watcher, editor, object, disk, saved_map, history>>

(* The game ends, and starts again with the trackers as in Init: after the *)
(* destructors ran, or wherever the render thread is.                      *)
GameEnds ==
  /\ tracked' = Nowhere /\ stage' = "idle"
  /\ last_map_id' = Nowhere /\ regions' = <<>>
  /\ trigger_sets' = NoSets /\ selected_line' = -1 /\ saved_map' = Nowhere
  /\ object' = [p \in Ptr |-> Absent]
  /\ broken' = FALSE /\ replaced' = FALSE /\ signals' = <<>>
  /\ UNCHANGED <<mapId, disk>>

-----------------------------------------------------------------------------
(* A map change.  MapTracker::watch compares the map id with the last one, *)
(* and reads it again to store it.                                         *)

Goes(from, to) == stage = from /\ stage' = to

WatchMap ==
  /\ ~broken /\ tracked # mapId
  /\ Goes("idle", "changed")
  /\ UNCHANGED <<mapId, tracked, watcher, editor, object, disk, saved_map, history>>

(* Mutant: the watcher's map changes before the regions are written.       *)
TrackMapAhead ==
  /\ Goes("changed", "signalled")
  /\ tracked' = mapId /\ last_map_id' = mapId
  /\ UNCHANGED <<mapId, regions, editor, object, disk, saved_map, history>>

TrackMap ==
  /\ Goes("changed", "signalled")
  /\ tracked' = mapId
  /\ UNCHANGED <<mapId, watcher, editor, object, disk, saved_map, history>>

(* TriggerWatcher::map_change: the file of the map that was left is        *)
(* truncated, and the regions are written to it.                           *)
OpenFile ==
  /\ files' = [files EXCEPT ![last_map_id] = Torn]
  /\ UNCHANGED <<mapId, tracked, watcher, editor, object, set_files, saved_map, history>>

WriteFile ==
  /\ files' = [files EXCEPT ![last_map_id] = ToJson(regions)]
  /\ UNCHANGED <<mapId, tracked, watcher, editor, object, set_files, saved_map, history>>

LeaveMap == Goes("signalled", "opened") /\ OpenFile

KeepRegions == Goes("opened", "written") /\ WriteFile

(* regions = ...: a line that stays selected may not exist any more.       *)
Replaced == replaced' = (replaced \/ selected_line >= 0) /\ signals' = <<>>

(* The regions are replaced only if the map the player is on by now has a  *)
(* file.                                                                   *)
EnterMap ==
  /\ Goes("written", "entered")
  /\ files[mapId] # Torn
  /\ last_map_id' = mapId
  /\ IF files[mapId] = Absent
     THEN UNCHANGED <<regions, object, replaced, signals>>
     ELSE /\ \E a \in Allocations(DOMAIN files[mapId], InSets(trigger_sets)) :
               /\ regions' = a
               /\ object' = Collect(Read(files[mapId], a), a, trigger_sets)
          /\ Replaced
  /\ UNCHANGED <<mapId, tracked, editor, disk, saved_map, broken>>

(* TriggerEditor::map_change: the sets of the map, if it has a file of     *)
(* sets; the map id is read to look for the file and again to open it.     *)
FindSets ==
  /\ Goes("entered", IF set_files[mapId] = Absent THEN "idle" ELSE "found")
  /\ UNCHANGED <<mapId, tracked, watcher, editor, object, disk, saved_map, history>>

ReadSets ==
  /\ Goes("found", "idle")
  /\ Readable(set_files[mapId])
  /\ LET stored == set_files[mapId]
         lines == UNION {{n} \X DOMAIN stored[n] :
                           n \in {n \in SetName : stored[n] # Absent}}
     IN  \E a \in Allocations(lines, Elements(regions)) :
           /\ trigger_sets' =
                [n \in SetName |-> IF stored[n] = Absent THEN Absent
                                   ELSE [i \in DOMAIN stored[n] |-> a[<<n, i>>]]]
           /\ object' = Collect(Read([l \in lines |-> stored[l[1]][l[2]]], a),
                                regions, trigger_sets')
  /\ UNCHANGED <<mapId, tracked, watcher, selected_line, disk, saved_map, history>>

(* A file that is torn, or not there any more, has no json: the exception  *)
(* leaves the callback of arcdps and ends the game.                        *)
ParseError ==
  /\ \/ stage = "written" /\ files[mapId] = Torn
     \/ stage = "found" /\ ~Readable(set_files[mapId])
  /\ GameEnds

-----------------------------------------------------------------------------
(* A frame draws the editor and watches the regions after it looked for a  *)
(* map change.                                                             *)
InFrame == ~broken /\ stage = "idle" /\ tracked # Nowhere

(* Mutant: the region is not marked.                                       *)
WatchUnmarked(i) ==
  /\ InFrame
  /\ ~object[regions[i]].is_triggered
  /\ signals' = Append(signals, object[regions[i]].uuid)
  /\ UNCHANGED <<mapId, tracked, stage, saved_map, watcher, editor, object, disk, broken, replaced>>

(* TriggerWatcher::watch: the first region that the player is in and that  *)
(* was not triggered before; any of them may be that one.                  *)
Watch(i) ==
  /\ InFrame
  /\ ~object[regions[i]].is_triggered
  /\ object' = [object EXCEPT ![regions[i]].is_triggered = TRUE]
  /\ signals' = Append(signals, object[regions[i]].uuid)
  /\ UNCHANGED <<mapId, tracked, stage, saved_map, watcher, editor, disk, broken, replaced>>

-----------------------------------------------------------------------------
(* The buttons of the editor.  A line is counted from 0, as in the code.   *)

Line(i) == i + 1
InBounds(i) == Line(i) \in DOMAIN regions

(* regions is indexed where it has nothing: whatever follows is undefined. *)
OutOfBounds ==
  /\ broken' = TRUE
  /\ UNCHANGED <<mapId, tracked, stage, saved_map, watcher, editor, object, disk, replaced, signals>>

Place ==
  /\ InFrame
  /\ \E u \in NewUuid, p \in Ptr \ Live(regions, trigger_sets) :
       /\ regions' = Append(regions, p)
       /\ object' = [object EXCEPT
                       ![p] = [uuid |-> u, name |-> Unnamed, is_triggered |-> FALSE]]
  /\ UNCHANGED <<mapId, tracked, stage, saved_map, last_map_id, editor, disk, history>>

Select(i) ==
  /\ InFrame /\ InBounds(i)
  /\ selected_line' = IF selected_line = i THEN -1 ELSE i
  /\ replaced' = FALSE
  /\ UNCHANGED <<mapId, tracked, stage, saved_map, watcher, trigger_sets, object, disk, broken, signals>>

Without(s, i) == SubSeq(s, 1, i - 1) \o SubSeq(s, i + 1, Len(s))

(* Mutant: the line stays selected.                                        *)
DeleteKeepsSelection ==
  /\ InFrame /\ selected_line >= 0
  /\ IF InBounds(selected_line)
     THEN /\ regions' = Without(regions, Line(selected_line))
          /\ object' = Collect(object, regions', trigger_sets)
          /\ UNCHANGED <<mapId, tracked, stage, saved_map, last_map_id, editor, disk, history>>
     ELSE OutOfBounds

Delete ==
  /\ InFrame /\ selected_line >= 0
  /\ IF InBounds(selected_line)
     THEN /\ regions' = Without(regions, Line(selected_line))
          /\ selected_line' = -1
          /\ replaced' = FALSE
          /\ object' = Collect(object, regions', trigger_sets)
          /\ UNCHANGED <<mapId, tracked, stage, saved_map, last_map_id, trigger_sets, disk,
                         broken, signals>>
     ELSE OutOfBounds

(* Mutant: the first region is overwritten before it is moved.             *)
SwapCopies(i, j) ==
  IF InBounds(i) /\ InBounds(j)
  THEN /\ regions' = [regions EXCEPT ![Line(i)] = regions[Line(j)]]
       /\ object' = Collect(object, regions', trigger_sets)
       /\ UNCHANGED <<mapId, tracked, stage, saved_map, last_map_id, editor, disk, history>>
  ELSE OutOfBounds

Swap(i, j) ==
  IF InBounds(i) /\ InBounds(j)
  THEN /\ regions' = [regions EXCEPT ![Line(i)] = regions[Line(j)],
                                     ![Line(j)] = regions[Line(i)]]
       /\ UNCHANGED <<mapId, tracked, stage, saved_map, last_map_id, editor, object, disk, history>>
  ELSE OutOfBounds

MoveUp == InFrame /\ selected_line > 0 /\ Swap(selected_line - 1, selected_line)

(* regions.size() - 1 is unsigned: for no regions it is a huge number.     *)
MoveDown ==
  /\ InFrame
  /\ selected_line >= 0
  /\ regions = <<>> \/ selected_line < Len(regions) - 1
  /\ Swap(selected_line + 1, selected_line)

Rename(name) ==
  /\ InFrame /\ selected_line >= 0
  /\ IF InBounds(selected_line)
     THEN /\ object' = [object EXCEPT ![regions[Line(selected_line)]].name = name]
          /\ UNCHANGED <<mapId, tracked, stage, saved_map, watcher, editor, disk, history>>
     ELSE OutOfBounds

(* save_sets: the file of the map the player is on now is truncated, and   *)
(* the sets are written to it.                                             *)
OpenSets ==
  /\ Goes("idle", "saving")
  /\ set_files' = [set_files EXCEPT ![mapId] = Torn] /\ saved_map' = mapId
  /\ UNCHANGED <<mapId, tracked, watcher, selected_line, files, history>>

SaveSet(n) ==
  /\ InFrame
  /\ trigger_sets' = [trigger_sets EXCEPT ![n] = regions]
  /\ object' = Collect(object, regions, trigger_sets')
  /\ OpenSets

DeleteSet(n) ==
  /\ InFrame
  /\ trigger_sets' = [trigger_sets EXCEPT ![n] = Absent]
  /\ object' = Collect(object, regions, trigger_sets')
  /\ OpenSets

WriteSets ==
  /\ Goes("saving", "idle")
  /\ set_files' = [set_files EXCEPT
                     ![saved_map] = [n \in SetName |-> IF trigger_sets[n] = Absent THEN Absent
                                                       ELSE ToJson(trigger_sets[n])]]
  /\ saved_map' = Nowhere
  /\ UNCHANGED <<mapId, tracked, watcher, editor, object, files, history>>

(* regions = trigger_sets[set_name]: a name that is not in the map gets an *)
(* empty set there.                                                        *)
LoadSet(n) ==
  /\ InFrame
  /\ trigger_sets' = IF trigger_sets[n] = Absent
                     THEN [trigger_sets EXCEPT ![n] = <<>>] ELSE trigger_sets
  /\ regions' = trigger_sets'[n]
  /\ object' = Collect(object, regions', trigger_sets')
  /\ Replaced
  /\ UNCHANGED <<mapId, tracked, stage, saved_map, last_map_id, selected_line, disk, broken>>

-----------------------------------------------------------------------------
(* ~TriggerWatcher truncates the file of its map and writes the regions.   *)
OpenToClose == ~broken /\ Goes("idle", "closing") /\ OpenFile

WriteToClose == Goes("closing", "closed") /\ WriteFile

Buttons ==
  \/ Place \/ Delete \/ MoveUp \/ MoveDown
  \/ \E i \in DOMAIN regions : Select(i - 1)
  \/ \E name \in Name : Rename(name)
  \/ \E n \in SetName : SaveSet(n) \/ DeleteSet(n) \/ LoadSet(n)

(* What begins something, and what the render thread then does to its end. *)
Begins ==
  \/ \E m \in Map : Travel(m)
  \/ WatchMap
  \/ \E i \in DOMAIN regions : Watch(i)
  \/ Buttons
  \/ OpenToClose \/ GameEnds

Continues ==
  \/ TrackMap \/ LeaveMap \/ KeepRegions \/ EnterMap \/ FindSets \/ ReadSets \/ ParseError
  \/ WriteSets \/ WriteToClose

Next == Begins \/ Continues

Spec == Init /\ [][Next]_vars

-----------------------------------------------------------------------------

TypeOK ==
  /\ mapId \in Map /\ tracked \in Map \cup {Nowhere} /\ stage \in Stage
  /\ last_map_id \in Map \cup {Nowhere} /\ regions \in Seq(Ptr)
  /\ trigger_sets \in [SetName -> Seq(Ptr) \cup {Absent}] /\ selected_line \in Int
  /\ object \in [Ptr -> TriggerRegion \cup {Absent}]
  /\ files \in [Map \cup {Nowhere} -> Seq(Stored) \cup {Absent, Torn}]
  /\ set_files \in [Map -> [SetName -> Seq(Stored) \cup {Absent}] \cup {Absent, Torn}]
  /\ saved_map \in Map \cup {Nowhere}
  /\ broken \in BOOLEAN /\ replaced \in BOOLEAN /\ signals \in Seq(Uuid)
  /\ \A p \in Ptr : p \in Live(regions, trigger_sets) <=> object[p] # Absent

Injective(s) == \A i, j \in DOMAIN s : s[i] = s[j] => i = j

DistinctUuids(stored) ==
  \A i, j \in DOMAIN stored : stored[i].uuid = stored[j].uuid => i = j

(* No list holds two regions with one uuid, in memory or on disk, whatever *)
(* was shared, moved, renamed, saved and read again: the event log takes   *)
(* two events with one uuid for the same event.  (mod.cpp: the handler of  *)
(* trigger_signal; eventstore.cpp: processed_uuids)                        *)
UuidsDistinct ==
  /\ DistinctUuids(ToJson(regions))
  /\ \A n \in SetName :
       trigger_sets[n] # Absent => DistinctUuids(ToJson(trigger_sets[n]))
  /\ \A m \in Map \cup {Nowhere} : Readable(files[m]) => DistinctUuids(files[m])
  /\ \A m \in Map, n \in SetName :
       Readable(set_files[m]) /\ set_files[m][n] # Absent => DistinctUuids(set_files[m][n])

(* A region is signalled once until the regions are read or set anew, also *)
(* when it was renamed, moved, kept in a set or taken along to a map that  *)
(* has no file.  (trigger_region.cpp: TriggerRegion::trigger and           *)
(* TriggerWatcher::watch)                                                  *)
SignalledOnce == Injective(signals)

(* Buttons index the vector out of its bounds only when it was replaced    *)
(* under the selected line, by a set that was loaded or by a map change:   *)
(* without that, the selected line exists.  (trigger_region.cpp: the       *)
(* guards of the buttons in TriggerEditor::mod_imgui)                      *)
OnlyReplacementBreaks ==
  /\ broken => replaced
  /\ ~replaced => selected_line < Len(regions)

Lists == INSTANCE RegionLists WITH
  Region <- Stored, current <- last_map_id, list <- ToJson(regions),
  kept <- [m \in Map |-> files[m]]

(* Whatever objects are shared with sets, and wherever the player travels  *)
(* while a map change is handled, every map keeps a list of its own, and   *)
(* the game loses no other than the one it was writing when it ended.      *)
ImplementsRegionLists == Lists!Spec

=============================================================================
