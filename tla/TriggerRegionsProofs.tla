------------------------ MODULE TriggerRegionsProofs ------------------------
(***************************************************************************)
(* Theorems about TriggerRegions, for any maps, names, sets and numbers of *)
(* regions.                                                                *)
(*                                                                         *)
(* The argument: an object is there exactly while something points to it   *)
(* (HeapOK), so that reading a file makes objects nothing else points to,  *)
(* and the regions of every list keep the uuids they were read with; the   *)
(* regions whose uuids were signalled are marked (SignalsOK).  The file of *)
(* the map whose list is in use is torn only while it is written, and      *)
(* holds the list from then to the arrival on the next map (KeptOK).       *)
(***************************************************************************)
EXTENDS TriggerRegions, TLAPS

Objects == [Ptr -> TriggerRegion \cup {Absent}]
Sets == [SetName -> Seq(Ptr) \cup {Absent}]

(* Objects are those that are pointed to.                                  *)
Heap(objects, rs, sets) ==
  /\ objects \in Objects /\ rs \in Seq(Ptr) /\ sets \in Sets
  /\ \A p \in Ptr : p \in Live(rs, sets) <=> objects[p] # Absent

HeapOK == Heap(object, regions, trigger_sets)

Distinct(objects, rs) ==
  \A i, j \in DOMAIN rs : objects[rs[i]].uuid = objects[rs[j]].uuid => i = j

UuidsOK ==
  /\ Distinct(object, regions)
  /\ \A n \in SetName : trigger_sets[n] # Absent => Distinct(object, trigger_sets[n])

DiskOK ==
  /\ files \in [Map \cup {Nowhere} -> Seq(Stored) \cup {Absent, Torn}]
  /\ set_files \in [Map -> [SetName -> Seq(Stored) \cup {Absent}] \cup {Absent, Torn}]
  /\ \A m \in Map \cup {Nowhere} : Readable(files[m]) => DistinctUuids(files[m])
  /\ \A m \in Map, n \in SetName :
       Readable(set_files[m]) /\ set_files[m][n] # Absent => DistinctUuids(set_files[m][n])

Marked(objects, rs, sigs) ==
  \A i \in DOMAIN rs :
    objects[rs[i]].uuid \in Elements(sigs) => objects[rs[i]].is_triggered

SignalsOK ==
  signals \in Seq(Uuid) /\ SignalledOnce /\ Marked(object, regions, signals)

SelectionOK ==
  selected_line \in Int /\ broken \in BOOLEAN /\ replaced \in BOOLEAN /\ OnlyReplacementBreaks

IdsOK ==
  /\ mapId \in Map /\ tracked \in Map \cup {Nowhere} /\ stage \in Stage
  /\ last_map_id \in Map \cup {Nowhere} /\ saved_map \in Map \cup {Nowhere}
  /\ stage = "idle" /\ tracked # Nowhere => last_map_id # Nowhere
  /\ stage \in {"entered", "found", "saving"} => last_map_id # Nowhere
  /\ stage = "saving" => saved_map # Nowhere

(* The file of the map whose list is in use.                               *)
KeptOK ==
  /\ stage \in {"opened", "closing"} => files[last_map_id] = Torn
  /\ stage \in {"written", "closed"} => files[last_map_id] = ToJson(regions)
  /\ stage \in {"idle", "entered", "found", "saving"} /\ last_map_id # Nowhere =>
       files[last_map_id] # Torn

IInv == HeapOK /\ UuidsOK /\ DiskOK /\ SignalsOK /\ SelectionOK /\ IdsOK /\ KeptOK

-----------------------------------------------------------------------------
(* Lists of addresses, and the objects they lead to.                       *)

LEMMA SomeFacts ==
  /\ \A S : \A s \in Seq(S) : Elements(s) \subseteq S
  /\ \A sets, rs, p :
       p \in Live(rs, sets) <=>
         \/ p \in Elements(rs)
         \/ \E n \in SetName : sets[n] # Absent /\ p \in Elements(sets[n])
<1>1. \A S : \A s \in Seq(S) : Elements(s) \subseteq S
  BY DEF Elements
<1>2. \A sets, rs, p :
        p \in Live(rs, sets) <=>
          \/ p \in Elements(rs)
          \/ \E n \in SetName : sets[n] # Absent /\ p \in Elements(sets[n])
  BY DEF Live, InSets
<1> QED
  BY <1>1, <1>2

(* What is pointed to is there, and is a region.                           *)
LEMMA HeapFacts ==
  ASSUME NEW objects, NEW rs, NEW sets, Heap(objects, rs, sets)
  PROVE  /\ \A i \in DOMAIN rs : rs[i] \in Ptr /\ objects[rs[i]] \in TriggerRegion
         /\ \A n \in SetName : sets[n] # Absent =>
              /\ sets[n] \in Seq(Ptr)
              /\ \A i \in DOMAIN sets[n] :
                   sets[n][i] \in Ptr /\ objects[sets[n][i]] \in TriggerRegion
<1>1. ASSUME NEW p \in Live(rs, sets), p \in Ptr PROVE objects[p] \in TriggerRegion
  BY <1>1 DEF Heap, Objects
<1>2. ASSUME NEW i \in DOMAIN rs PROVE rs[i] \in Ptr /\ objects[rs[i]] \in TriggerRegion
  <2>1. rs[i] \in Elements(rs) /\ rs[i] \in Ptr
    BY DEF Heap, Elements
  <2> QED
    BY <1>1, <2>1, SomeFacts
<1>3. ASSUME NEW n \in SetName, sets[n] # Absent, NEW i \in DOMAIN sets[n]
      PROVE  sets[n][i] \in Ptr /\ objects[sets[n][i]] \in TriggerRegion
  <2>1. sets[n] \in Seq(Ptr)
    BY <1>3 DEF Heap, Sets
  <2>2. sets[n][i] \in Elements(sets[n]) /\ sets[n][i] \in Ptr
    BY <2>1 DEF Elements
  <2> QED
    BY <1>1, <1>3, <2>2, SomeFacts
<1>4. \A n \in SetName : sets[n] # Absent => sets[n] \in Seq(Ptr)
  BY DEF Heap, Sets
<1> QED
  BY <1>2, <1>3, <1>4

(* Collecting garbage keeps what is pointed to, and nothing else.          *)
LEMMA CollectFacts ==
  ASSUME NEW objects \in Objects, NEW rs \in Seq(Ptr), NEW sets \in Sets,
         \A p \in Ptr : p \in Live(rs, sets) => objects[p] # Absent
  PROVE  /\ Heap(Collect(objects, rs, sets), rs, sets)
         /\ \A p \in Ptr : p \in Live(rs, sets) => Collect(objects, rs, sets)[p] = objects[p]
  BY DEF Heap, Collect, Objects

(* What is written of a list: its regions without their marks.             *)
LEMMA ToJsonFacts ==
  ASSUME NEW rs \in Seq(Ptr), \A i \in DOMAIN rs : object[rs[i]] \in TriggerRegion
  PROVE  /\ ToJson(rs) \in Seq(Stored)
         /\ DistinctUuids(ToJson(rs)) <=> Distinct(object, rs)
<1>1. ASSUME NEW i \in DOMAIN rs
      PROVE  [uuid |-> object[rs[i]].uuid, name |-> object[rs[i]].name] \in Stored
  BY DEF TriggerRegion, Stored
<1>2. ToJson(rs) \in Seq(Stored)
  BY <1>1 DEF ToJson
<1>3. /\ DOMAIN ToJson(rs) = DOMAIN rs
      /\ \A i \in DOMAIN rs : ToJson(rs)[i].uuid = object[rs[i]].uuid
  BY DEF ToJson
<1>4. DistinctUuids(ToJson(rs)) <=> Distinct(object, rs)
  BY <1>3 DEF DistinctUuids, Distinct
<1> QED
  BY <1>2, <1>4

(* Reading makes a region of what was written, and touches no other        *)
(* object.                                                                 *)
LEMMA ReadFacts ==
  ASSUME NEW I, NEW a \in [I -> Ptr], NEW json,
         \A i, j \in I : a[i] = a[j] => i = j,
         \A i \in I : json[i] \in Stored,
         object \in Objects
  PROVE  /\ Read(json, a) \in Objects
         /\ \A i \in I : Read(json, a)[a[i]] = FromJson(json[i])
         /\ \A p \in Ptr : (\A i \in I : a[i] # p) => Read(json, a)[p] = object[p]
<1>1. \A s \in Stored : FromJson(s) \in TriggerRegion
  BY DEF Stored, FromJson, TriggerRegion
<1>2. ASSUME NEW i \in I PROVE (CHOOSE j \in DOMAIN a : a[j] = a[i]) = i
  OBVIOUS
<1>3. ASSUME NEW p \in Ptr
      PROVE  Read(json, a)[p] = IF p \in {a[i] : i \in I}
                                THEN FromJson(json[CHOOSE i \in DOMAIN a : a[i] = p])
                                ELSE object[p]
  BY DEF Read
<1>4. ASSUME NEW i \in I PROVE Read(json, a)[a[i]] = FromJson(json[i])
  BY <1>2, <1>3
<1>5. ASSUME NEW p \in Ptr, \A i \in I : a[i] # p PROVE Read(json, a)[p] = object[p]
  BY <1>3, <1>5
<1>6. ASSUME NEW p \in Ptr PROVE Read(json, a)[p] \in TriggerRegion \cup {Absent}
  <2>1. CASE \E i \in I : a[i] = p
    BY <1>1, <1>4, <2>1
  <2>2. CASE \A i \in I : a[i] # p
    BY <1>5, <2>2 DEF Objects
  <2> QED
    BY <2>1, <2>2
<1>7. Read(json, a) \in Objects
  BY <1>6 DEF Objects, Read
<1> QED
  BY <1>4, <1>5, <1>7

-----------------------------------------------------------------------------
(* The invariant holds at first, and every step keeps it.                  *)

LEMMA InitIInv == Init => IInv
<1> SUFFICES ASSUME Init PROVE IInv
  OBVIOUS
<1>1. regions = <<>> /\ signals = <<>> /\ \A n \in SetName : trigger_sets[n] = Absent
  BY DEF Init, NoSets
<1>2. HeapOK
  <2>1. object \in Objects /\ regions \in Seq(Ptr) /\ trigger_sets \in Sets
    BY DEF Init, NoSets, Objects, Sets
  <2>2. \A p \in Ptr : p \notin Live(regions, trigger_sets) /\ object[p] = Absent
    BY <1>1, SomeFacts DEF Init, Elements
  <2> QED
    BY <2>1, <2>2 DEF HeapOK, Heap
<1>3. UuidsOK
  BY <1>1 DEF UuidsOK, Distinct
<1>4. DiskOK
  BY DEF Init, DiskOK, Readable
<1>5. SignalsOK
  BY <1>1 DEF SignalsOK, SignalledOnce, Injective, Marked
<1>6. SelectionOK
  <2>1. selected_line = -1 /\ Len(regions) = 0 /\ broken = FALSE /\ replaced = FALSE
    BY <1>1 DEF Init
  <2>2. selected_line \in Int /\ selected_line < Len(regions)
    BY <2>1
  <2> QED
    BY <2>1, <2>2, Zenon DEF SelectionOK, OnlyReplacementBreaks
<1>7. IdsOK /\ KeptOK
  BY DEF Init, IdsOK, KeptOK, Stage
<1> QED
  BY <1>2, <1>3, <1>4, <1>5, <1>6, <1>7 DEF IInv

(* The parts of the invariant that a step leaves alone.                    *)
LEMMA SameList ==
  ASSUME IInv, UNCHANGED <<regions, object, trigger_sets>>
  PROVE  HeapOK' /\ UuidsOK'
  BY DEF IInv, HeapOK, UuidsOK

LEMMA SameDisk ==
  ASSUME IInv, UNCHANGED disk
  PROVE  DiskOK'
  BY DEF IInv, DiskOK, disk, Readable

LEMMA SameSelection ==
  ASSUME IInv, UNCHANGED <<regions, selected_line, broken, replaced>>
  PROVE  SelectionOK'
  BY DEF IInv, SelectionOK, OnlyReplacementBreaks

LEMMA SameSignals ==
  ASSUME IInv, UNCHANGED <<regions, object, signals>>
  PROVE  SignalsOK'
  BY DEF IInv, SignalsOK, SignalledOnce, Marked

LEMMA SameIds ==
  ASSUME IInv, InFrame, UNCHANGED <<mapId, tracked, stage, saved_map, last_map_id>>,
         UNCHANGED disk
  PROVE  IdsOK' /\ KeptOK'
<1>1. UNCHANGED files
  BY DEF disk
<1> QED
  BY <1>1 DEF IInv, IdsOK, KeptOK, InFrame

(* A vector that was replaced: its objects are what the file or the set    *)
(* held, and no signal is remembered.                                      *)
LEMMA ReplacedFacts ==
  ASSUME IInv, Replaced, regions' \in Seq(Ptr), UNCHANGED <<selected_line, broken>>
  PROVE  SelectionOK' /\ SignalsOK'
<1>1. SelectionOK'
  <2>1. Len(regions') \in Nat
    OBVIOUS
  <2>2. replaced' = (replaced \/ selected_line >= 0)
    BY DEF Replaced
  <2>3. selected_line \in Int /\ broken \in BOOLEAN /\ (broken => replaced)
    BY DEF IInv, SelectionOK, OnlyReplacementBreaks
  <2>4. replaced' \in BOOLEAN /\ (broken => replaced')
    BY <2>2, <2>3
  <2>5. ~replaced' => selected_line < Len(regions')
    <3>1. CASE selected_line >= 0
      BY <2>2, <3>1
    <3>2. CASE ~(selected_line >= 0)
      BY <2>1, <2>3, <3>2
    <3> QED
      BY <3>1, <3>2
  <2> QED
    BY <2>3, <2>4, <2>5 DEF SelectionOK, OnlyReplacementBreaks
<1>2. SignalsOK'
  BY DEF SignalsOK, SignalledOnce, Injective, Marked, Elements, Replaced
<1> QED
  BY <1>1, <1>2

LEMMA OutOfBoundsInvariant ==
  ASSUME IInv, InFrame, OutOfBounds, replaced
  PROVE  IInv'
<1>1. /\ UNCHANGED <<regions, object, trigger_sets>> /\ UNCHANGED disk
      /\ UNCHANGED <<mapId, tracked, stage, saved_map, last_map_id>> /\ UNCHANGED signals
      /\ UNCHANGED <<selected_line, replaced>> /\ broken' = TRUE
  BY DEF OutOfBounds, watcher, editor
<1>2. SelectionOK'
  BY <1>1 DEF IInv, SelectionOK, OnlyReplacementBreaks
<1> QED
  BY <1>1, <1>2, SameList, SameDisk, SameSignals, SameIds DEF IInv

(* The steps of a map change that only read the map id.                    *)
LEMMA LookInvariant == IInv /\ (WatchMap \/ TrackMap \/ FindSets) => IInv'
<1> SUFFICES ASSUME IInv, WatchMap \/ TrackMap \/ FindSets PROVE IInv'
  OBVIOUS
<1>1. /\ UNCHANGED <<mapId, saved_map, last_map_id>> /\ UNCHANGED disk /\ UNCHANGED files
      /\ UNCHANGED <<regions, object, trigger_sets>> /\ UNCHANGED signals
      /\ UNCHANGED <<selected_line, broken, replaced>>
  BY DEF WatchMap, TrackMap, FindSets, watcher, editor, disk, history
<1>2. \/ stage = "idle" /\ stage' = "changed" /\ tracked' = tracked
      \/ stage = "changed" /\ stage' = "signalled" /\ tracked' = mapId
      \/ stage = "entered" /\ stage' \in {"idle", "found"} /\ tracked' = tracked
  BY DEF WatchMap, TrackMap, FindSets, Goes
<1>3. IdsOK' /\ KeptOK'
  BY <1>1, <1>2 DEF IInv, IdsOK, KeptOK, Stage
<1> QED
  BY <1>1, <1>3, SameList, SameDisk, SameSelection, SameSignals DEF IInv

(* The file of the map that is left, or closed on, is torn.                *)
LEMMA OpenInvariant == IInv /\ (LeaveMap \/ OpenToClose) => IInv'
<1> SUFFICES ASSUME IInv, LeaveMap \/ OpenToClose PROVE IInv'
  OBVIOUS
<1>1. /\ UNCHANGED <<mapId, tracked, saved_map, last_map_id>> /\ UNCHANGED set_files
      /\ UNCHANGED <<regions, object, trigger_sets>> /\ UNCHANGED signals
      /\ UNCHANGED <<selected_line, broken, replaced>>
      /\ files' = [files EXCEPT ![last_map_id] = Torn]
      /\ stage' \in {"opened", "closing"}
  BY DEF LeaveMap, OpenToClose, OpenFile, Goes, watcher, editor, history
<1>2. /\ files \in [Map \cup {Nowhere} -> Seq(Stored) \cup {Absent, Torn}]
      /\ last_map_id \in Map \cup {Nowhere}
  BY DEF IInv, DiskOK, IdsOK
<1>3. /\ files' \in [Map \cup {Nowhere} -> Seq(Stored) \cup {Absent, Torn}]
      /\ files'[last_map_id] = Torn
      /\ \A m \in Map \cup {Nowhere} : m # last_map_id => files'[m] = files[m]
  BY <1>1, <1>2
<1>4. DiskOK'
  <2>1. \A m \in Map \cup {Nowhere} : Readable(files'[m]) => DistinctUuids(files'[m])
    BY <1>3 DEF IInv, DiskOK, Readable
  <2> QED
    BY <1>1, <1>3, <2>1 DEF IInv, DiskOK
<1>5. IdsOK' /\ KeptOK'
  BY <1>1, <1>3 DEF IInv, IdsOK, KeptOK, Stage
<1> QED
  BY <1>1, <1>4, <1>5, SameList, SameSelection, SameSignals DEF IInv

(* What is written is in order as the regions are.                         *)
LEMMA WriteInvariant == IInv /\ (KeepRegions \/ WriteToClose) => IInv'
<1> SUFFICES ASSUME IInv, KeepRegions \/ WriteToClose PROVE IInv'
  OBVIOUS
<1>1. /\ UNCHANGED <<mapId, tracked, saved_map, last_map_id>> /\ UNCHANGED set_files
      /\ UNCHANGED <<regions, object, trigger_sets>> /\ UNCHANGED signals
      /\ UNCHANGED <<selected_line, broken, replaced>>
      /\ files' = [files EXCEPT ![last_map_id] = ToJson(regions)]
      /\ stage' \in {"written", "closed"}
  BY DEF KeepRegions, WriteToClose, WriteFile, Goes, watcher, editor, history
<1>2. ToJson(regions) \in Seq(Stored) /\ DistinctUuids(ToJson(regions))
  <2>1. regions \in Seq(Ptr) /\ (\A i \in DOMAIN regions : object[regions[i]] \in TriggerRegion)
    BY HeapFacts DEF IInv, HeapOK, Heap
  <2> QED
    BY <2>1, ToJsonFacts DEF IInv, UuidsOK
<1>3. /\ files \in [Map \cup {Nowhere} -> Seq(Stored) \cup {Absent, Torn}]
      /\ last_map_id \in Map \cup {Nowhere}
  BY DEF IInv, DiskOK, IdsOK
<1>4. /\ files' \in [Map \cup {Nowhere} -> Seq(Stored) \cup {Absent, Torn}]
      /\ files'[last_map_id] = ToJson(regions)
      /\ \A m \in Map \cup {Nowhere} : m # last_map_id => files'[m] = files[m]
  BY <1>1, <1>2, <1>3
<1>5. DiskOK'
  <2>1. \A m \in Map \cup {Nowhere} : Readable(files'[m]) => DistinctUuids(files'[m])
    BY <1>2, <1>4 DEF IInv, DiskOK, Readable
  <2> QED
    BY <1>1, <1>4, <2>1 DEF IInv, DiskOK
<1>6. ToJson(regions)' = ToJson(regions)
  BY <1>1 DEF ToJson
<1>7. IdsOK' /\ KeptOK'
  BY <1>1, <1>4, <1>6 DEF IInv, IdsOK, KeptOK, Stage
<1> QED
  BY <1>1, <1>5, <1>7, SameList, SameSelection, SameSignals DEF IInv

LEMMA EnterMapInvariant == IInv /\ EnterMap => IInv'
<1> SUFFICES ASSUME IInv, EnterMap PROVE IInv'
  OBVIOUS
<1>1. /\ last_map_id' = mapId /\ stage' = "entered" /\ files[mapId] # Torn
      /\ UNCHANGED <<mapId, tracked, saved_map, trigger_sets, selected_line, broken>>
      /\ UNCHANGED disk /\ UNCHANGED files
  BY DEF EnterMap, Goes, editor, disk
<1>2. DiskOK'
  BY <1>1, SameDisk
<1>3. IdsOK' /\ KeptOK'
  BY <1>1, NowhereAssumption DEF IInv, IdsOK, KeptOK, Stage
<1>4. CASE files[mapId] = Absent
  <2>1. UNCHANGED <<regions, object, replaced, signals>>
    BY <1>4 DEF EnterMap
  <2> QED
    BY <1>1, <1>2, <1>3, <2>1, SameList, SameSelection, SameSignals DEF IInv
<1>5. CASE files[mapId] # Absent
  <2> DEFINE json == files[mapId]
  <2>1. PICK a \in Allocations(DOMAIN json, InSets(trigger_sets)) :
          regions' = a /\ object' = Collect(Read(json, a), a, trigger_sets)
    BY <1>5 DEF EnterMap
  <2>2. Replaced
    BY <1>5 DEF EnterMap
  <2>3. json \in Seq(Stored) /\ DistinctUuids(json)
    BY <1>1, <1>5 DEF DiskOK, IInv, IdsOK, Readable
  <2> HIDE DEF json
  <2>4. /\ a \in [DOMAIN json -> Ptr] /\ a \in Seq(Ptr)
        /\ \A i, j \in DOMAIN json : a[i] = a[j] => i = j
        /\ \A i \in DOMAIN json : a[i] \notin InSets(trigger_sets)
    <3>1. a \in [DOMAIN json -> Ptr \ InSets(trigger_sets)]
          /\ (\A i, j \in DOMAIN json : a[i] = a[j] => i = j)
      BY DEF Allocations
    <3>2. DOMAIN json = 1 .. Len(json) /\ Len(json) \in Nat
      BY <2>3
    <3> QED
      BY <3>1, <3>2
  <2>5. Heap(object, regions, trigger_sets)
    BY DEF IInv, HeapOK
  <2>6. /\ Read(json, a) \in Objects
        /\ \A i \in DOMAIN json : Read(json, a)[a[i]] = FromJson(json[i])
        /\ \A p \in Ptr : (\A i \in DOMAIN json : a[i] # p) => Read(json, a)[p] = object[p]
    BY <2>3, <2>4, <2>5, ReadFacts DEF Heap
  <2>7. \A i \in DOMAIN json : FromJson(json[i]) \in TriggerRegion
                               /\ FromJson(json[i]).uuid = json[i].uuid
    <3>1. \A i \in DOMAIN json : json[i] \in Stored
      BY <2>3
    <3> QED
      BY <3>1 DEF Stored, FromJson, TriggerRegion
  <2>8. ASSUME NEW p \in Ptr, p \in Live(a, trigger_sets) PROVE Read(json, a)[p] # Absent
    <3>1. CASE \E i \in DOMAIN json : a[i] = p
      BY <2>6, <2>7, <3>1, AbsentAssumption
    <3>2. CASE \A i \in DOMAIN json : a[i] # p
      <4>1. p \notin Elements(a)
        BY <2>4, <3>2 DEF Elements
      <4>2. p \in Live(regions, trigger_sets)
        BY <2>8, <4>1 DEF Live
      <4> QED
        BY <2>5, <2>6, <3>2, <4>2 DEF Heap
    <3> QED
      BY <3>1, <3>2
  <2>9. /\ Heap(object', a, trigger_sets)
        /\ \A p \in Ptr : p \in Live(a, trigger_sets) => object'[p] = Read(json, a)[p]
    BY <2>1, <2>4, <2>5, <2>6, <2>8, CollectFacts DEF Heap
  <2>10. HeapOK'
    BY <1>1, <2>1, <2>9 DEF HeapOK
  <2>11. Distinct(object', a)
    <3>1. ASSUME NEW i \in DOMAIN json PROVE object'[a[i]].uuid = json[i].uuid
      <4>1. a[i] \in Live(a, trigger_sets) /\ a[i] \in Ptr
        BY <2>4 DEF Live, Elements
      <4> QED
        BY <2>6, <2>7, <2>9, <4>1
    <3>2. DOMAIN a = DOMAIN json
      BY <2>4
    <3> QED
      BY <2>3, <3>1, <3>2 DEF Distinct, DistinctUuids
  <2>12. ASSUME NEW n \in SetName, trigger_sets[n] # Absent
         PROVE  Distinct(object', trigger_sets[n])
    <3>1. ASSUME NEW i \in DOMAIN trigger_sets[n]
          PROVE  object'[trigger_sets[n][i]] = object[trigger_sets[n][i]]
      <4> DEFINE p == trigger_sets[n][i]
      <4>1. p \in Ptr
        BY <2>5, <2>12, HeapFacts
      <4>2. p \in Elements(trigger_sets[n])
        BY DEF Elements
      <4>3. p \in InSets(trigger_sets)
        BY <2>12, <4>2 DEF InSets
      <4>4. \A j \in DOMAIN json : a[j] # p
        BY <2>4, <4>3
      <4>5. p \in Live(a, trigger_sets)
        BY <4>3 DEF Live
      <4> QED
        BY <2>6, <2>9, <4>1, <4>4, <4>5
    <3> QED
      BY <2>12, <3>1 DEF IInv, UuidsOK, Distinct
  <2>13. UuidsOK'
    BY <1>1, <2>1, <2>11, <2>12 DEF UuidsOK
  <2>14. SelectionOK' /\ SignalsOK'
    BY <1>1, <2>1, <2>2, <2>4, ReplacedFacts
  <2> QED
    BY <1>2, <1>3, <2>10, <2>13, <2>14 DEF IInv
<1> QED
  BY <1>4, <1>5

LEMMA ReadSetsInvariant == IInv /\ ReadSets => IInv'
<1> SUFFICES ASSUME IInv, ReadSets PROVE IInv'
  OBVIOUS
<1>1. /\ stage = "found" /\ stage' = "idle" /\ Readable(set_files[mapId])
      /\ UNCHANGED <<mapId, tracked, saved_map, last_map_id, regions, selected_line>>
      /\ UNCHANGED disk /\ UNCHANGED files /\ UNCHANGED <<broken, replaced, signals>>
  BY DEF ReadSets, Goes, watcher, disk, history
<1>2. DiskOK' /\ SelectionOK'
  BY <1>1, SameDisk, SameSelection
<1>3. IdsOK' /\ KeptOK'
  BY <1>1 DEF IInv, IdsOK, KeptOK, Stage
<1>4. set_files[mapId] # Absent /\ set_files[mapId] # Torn
  BY <1>1 DEF Readable
<1>5. IInv'
  <2> DEFINE stored == set_files[mapId]
             lines == UNION {{n} \X DOMAIN stored[n] : n \in {n \in SetName : stored[n] # Absent}}
             json == [l \in lines |-> stored[l[1]][l[2]]]
  <2>1. PICK a \in Allocations(lines, Elements(regions)) :
          /\ trigger_sets' = [n \in SetName |-> IF stored[n] = Absent THEN Absent
                                                ELSE [i \in DOMAIN stored[n] |-> a[<<n, i>>]]]
          /\ object' = Collect(Read(json, a), regions, trigger_sets')
    BY DEF ReadSets
  <2>2. /\ stored \in [SetName -> Seq(Stored) \cup {Absent}]
        /\ \A n \in SetName : stored[n] # Absent => DistinctUuids(stored[n])
    BY <1>1, <1>4 DEF IInv, DiskOK, IdsOK
  <2>3. \A n \in SetName : stored[n] # Absent => stored[n] \in Seq(Stored)
    BY <2>2
  <2> HIDE DEF stored
  <2>4. \A n \in SetName : stored[n] # Absent => \A i \in DOMAIN stored[n] : <<n, i>> \in lines
    OBVIOUS
  <2>5. \A l \in lines : \E n \in SetName : /\ stored[n] # Absent
                                            /\ \E i \in DOMAIN stored[n] : l = <<n, i>>
    OBVIOUS
  <2>6. ASSUME NEW n \in SetName, stored[n] # Absent, NEW i \in DOMAIN stored[n]
        PROVE  json[<<n, i>>] = stored[n][i] /\ stored[n][i] \in Stored
    <3>1. <<n, i>> \in lines
      BY <2>4, <2>6
    <3>2. stored[n][i] \in Stored
      BY <2>3, <2>6
    <3> HIDE DEF lines
    <3> QED
      BY <3>1, <3>2
  <2>7. ASSUME NEW l \in lines PROVE json[l] \in Stored
    <3>1. PICK n \in SetName : stored[n] # Absent /\ (\E i \in DOMAIN stored[n] : l = <<n, i>>)
      BY <2>5
    <3>2. PICK i \in DOMAIN stored[n] : l = <<n, i>>
      BY <3>1
    <3>3. json[<<n, i>>] \in Stored
      BY <2>6, <3>1
    <3> QED
      BY <3>2, <3>3
  <2> HIDE DEF lines, json
  <2>8. /\ a \in [lines -> Ptr]
        /\ \A k, l \in lines : a[k] = a[l] => k = l
        /\ \A l \in lines : a[l] \notin Elements(regions)
    BY DEF Allocations
  <2>9. Heap(object, regions, trigger_sets)
    BY DEF IInv, HeapOK
  <2>10. /\ Read(json, a) \in Objects
         /\ \A l \in lines : Read(json, a)[a[l]] = FromJson(json[l])
         /\ \A p \in Ptr : (\A l \in lines : a[l] # p) => Read(json, a)[p] = object[p]
    BY <2>7, <2>8, <2>9, ReadFacts DEF Heap
  <2>11. \A l \in lines : FromJson(json[l]) \in TriggerRegion
                          /\ FromJson(json[l]).uuid = json[l].uuid
    BY <2>7 DEF Stored, FromJson, TriggerRegion
  <2>12. ASSUME NEW n \in SetName, stored[n] # Absent
         PROVE  /\ trigger_sets'[n] = [i \in DOMAIN stored[n] |-> a[<<n, i>>]]
                /\ trigger_sets'[n] \in Seq(Ptr)
                /\ DOMAIN trigger_sets'[n] = DOMAIN stored[n]
    <3>1. trigger_sets'[n] = [i \in DOMAIN stored[n] |-> a[<<n, i>>]]
      BY <2>1, <2>12
    <3>2. \A i \in DOMAIN stored[n] : a[<<n, i>>] \in Ptr
      BY <2>4, <2>8, <2>12
    <3>3. DOMAIN stored[n] = 1 .. Len(stored[n]) /\ Len(stored[n]) \in Nat
      BY <2>3, <2>12
    <3> QED
      BY <3>1, <3>2, <3>3
  <2>13. \A n \in SetName : stored[n] = Absent => trigger_sets'[n] = Absent
    BY <2>1
  <2>14. trigger_sets' \in Sets
    BY <2>1, <2>12, <2>13 DEF Sets
  <2>15. ASSUME NEW p \in Ptr, p \in Live(regions, trigger_sets')
         PROVE  Read(json, a)[p] # Absent
    <3>1. CASE \E l \in lines : a[l] = p
      BY <2>10, <2>11, <3>1, AbsentAssumption
    <3>2. CASE \A l \in lines : a[l] # p
      <4>1. ASSUME NEW n \in SetName, trigger_sets'[n] # Absent, p \in Elements(trigger_sets'[n])
            PROVE  FALSE
        <5>1. stored[n] # Absent
          BY <2>13, <4>1
        <5>2. PICK i \in DOMAIN stored[n] : p = a[<<n, i>>]
          BY <2>12, <4>1, <5>1 DEF Elements
        <5> QED
          BY <2>4, <3>2, <5>1, <5>2
      <4>2. p \in Elements(regions)
        BY <2>15, <4>1, SomeFacts
      <4>3. p \in Live(regions, trigger_sets)
        BY <4>2 DEF Live
      <4> QED
        BY <2>9, <2>10, <3>2, <4>3 DEF Heap
    <3> QED
      BY <3>1, <3>2
  <2>16. /\ Heap(object', regions, trigger_sets')
         /\ \A p \in Ptr : p \in Live(regions, trigger_sets') => object'[p] = Read(json, a)[p]
    BY <2>1, <2>9, <2>10, <2>14, <2>15, CollectFacts DEF Heap
  <2>17. HeapOK'
    BY <1>1, <2>16 DEF HeapOK
  <2>18. ASSUME NEW i \in DOMAIN regions PROVE object'[regions[i]] = object[regions[i]]
    <3>1. regions[i] \in Ptr /\ regions[i] \in Elements(regions)
      BY <2>9, HeapFacts DEF Elements
    <3>2. regions[i] \in Live(regions, trigger_sets')
      BY <3>1 DEF Live
    <3> QED
      BY <2>8, <2>10, <2>16, <3>1, <3>2
  <2>19. ASSUME NEW n \in SetName, trigger_sets'[n] # Absent
         PROVE  Distinct(object', trigger_sets'[n])
    <3>1. stored[n] # Absent
      BY <2>13, <2>19
    <3>2. ASSUME NEW i \in DOMAIN stored[n]
          PROVE  object'[trigger_sets'[n][i]].uuid = stored[n][i].uuid
      <4>1. trigger_sets'[n][i] = a[<<n, i>>] /\ <<n, i>> \in lines
        BY <2>4, <2>12, <3>1, ZenonT(40)
      <4>2. a[<<n, i>>] \in Elements(trigger_sets'[n])
        BY <2>12, <3>1, <4>1 DEF Elements
      <4>3. a[<<n, i>>] \in Live(regions, trigger_sets') /\ a[<<n, i>>] \in Ptr
        BY <2>8, <2>19, <4>1, <4>2, SomeFacts
      <4>4. json[<<n, i>>] = stored[n][i]
        BY <2>6, <3>1
      <4> QED
        BY <2>10, <2>11, <2>16, <4>1, <4>3, <4>4
    <3>3. SUFFICES ASSUME NEW i \in DOMAIN trigger_sets'[n], NEW j \in DOMAIN trigger_sets'[n],
                          object'[trigger_sets'[n][i]].uuid = object'[trigger_sets'[n][j]].uuid
                   PROVE  i = j
      BY DEF Distinct
    <3>4. i \in DOMAIN stored[n] /\ j \in DOMAIN stored[n]
      BY <2>12, <3>1
    <3>5. stored[n][i].uuid = stored[n][j].uuid
      BY <3>2, <3>3, <3>4
    <3> QED
      BY <2>2, <3>1, <3>4, <3>5 DEF DistinctUuids
  <2>20. UuidsOK'
    BY <1>1, <2>18, <2>19 DEF IInv, UuidsOK, Distinct
  <2>21. SignalsOK'
    BY <1>1, <2>18 DEF IInv, SignalsOK, SignalledOnce, Marked
  <2> QED
    BY <1>2, <1>3, <2>17, <2>20, <2>21 DEF IInv
<1> QED
  BY <1>5

(* The region that is signalled was not marked, so its uuid is new among   *)
(* the signals.                                                            *)
LEMMA WatchInvariant ==
  ASSUME IInv, NEW i \in DOMAIN regions, Watch(i)
  PROVE  IInv'
<1> DEFINE p == regions[i]
<1>1. /\ UNCHANGED <<mapId, tracked, stage, saved_map, last_map_id>> /\ UNCHANGED disk
      /\ UNCHANGED <<regions, trigger_sets, selected_line, broken, replaced>>
      /\ ~object[p].is_triggered /\ InFrame
      /\ object' = [object EXCEPT ![p].is_triggered = TRUE]
      /\ signals' = Append(signals, object[p].uuid)
  BY DEF Watch, watcher, editor
<1>2. Heap(object, regions, trigger_sets)
  BY DEF IInv, HeapOK
<1>3. p \in Ptr /\ object[p] \in TriggerRegion
  BY <1>2, HeapFacts
<1>4. /\ object'[p] \in TriggerRegion /\ object'[p].is_triggered /\ object'[p].uuid = object[p].uuid
      /\ object' \in Objects
      /\ \A q \in Ptr : q # p => object'[q] = object[q]
  <2>1. [object[p] EXCEPT !.is_triggered = TRUE] \in TriggerRegion
    BY <1>3 DEF TriggerRegion
  <2>2. object' = [object EXCEPT ![p] = [object[p] EXCEPT !.is_triggered = TRUE]]
    BY <1>1
  <2>3. [object[p] EXCEPT !.is_triggered = TRUE].uuid = object[p].uuid
        /\ [object[p] EXCEPT !.is_triggered = TRUE].is_triggered
    BY <1>3 DEF TriggerRegion
  <2> QED
    BY <1>2, <1>3, <2>1, <2>2, <2>3 DEF Heap, Objects
<1> HIDE DEF p
<1>5. HeapOK'
  BY <1>1, <1>2, <1>3, <1>4, AbsentAssumption DEF HeapOK, Heap
<1>6. \A q \in Ptr : object'[q].uuid = object[q].uuid
  BY <1>4
<1>7. UuidsOK'
  BY <1>1, <1>2, <1>6, HeapFacts DEF IInv, UuidsOK, Distinct
<1>8. object[p].uuid \notin Elements(signals)
  BY <1>1 DEF IInv, SignalsOK, Marked, p
<1>9. SignalsOK'
  <2>1. object[p].uuid \in Uuid
    BY <1>3 DEF TriggerRegion
  <2>2. signals \in Seq(Uuid) /\ Injective(signals)
    BY DEF IInv, SignalsOK, SignalledOnce
  <2>3. signals' \in Seq(Uuid)
    BY <1>1, <2>1, <2>2
  <2>4. Injective(signals')
    <3>1. \A k \in DOMAIN signals : signals[k] # object[p].uuid
      BY <1>8 DEF Elements
    <3> QED
      BY <1>1, <2>1, <2>2, <3>1 DEF Injective
  <2>5. Elements(signals') \subseteq Elements(signals) \cup {object[p].uuid}
    BY <1>1, <2>1, <2>2 DEF Elements
  <2>6. ASSUME NEW j \in DOMAIN regions, object'[regions[j]].uuid \in Elements(signals')
        PROVE  object'[regions[j]].is_triggered
    <3>1. regions[j] \in Ptr
      BY <1>2, HeapFacts
    <3>2. CASE regions[j] = p
      BY <1>4, <3>2
    <3>3. CASE regions[j] # p
      <4>1. object'[regions[j]] = object[regions[j]]
        BY <1>4, <3>1, <3>3
      <4>2. object[regions[j]].uuid # object[p].uuid
        BY <3>3 DEF IInv, UuidsOK, Distinct, p
      <4> QED
        BY <2>5, <2>6, <4>1, <4>2 DEF IInv, SignalsOK, Marked
    <3> QED
      BY <3>2, <3>3
  <2> QED
    BY <1>1, <2>3, <2>4, <2>6 DEF SignalsOK, SignalledOnce, Marked
<1> QED
  BY <1>1, <1>5, <1>7, <1>9, SameDisk, SameSelection, SameIds DEF IInv

-----------------------------------------------------------------------------
(* The buttons.                                                            *)

(* Lists that hold some of the regions, each once, in any order.           *)
LEMMA PartFacts ==
  ASSUME NEW objects, NEW rs, NEW sigs, NEW part,
         NEW f \in [DOMAIN part -> DOMAIN rs],
         \A i, j \in DOMAIN part : f[i] = f[j] => i = j,
         \A i \in DOMAIN part : part[i] = rs[f[i]],
         Distinct(objects, rs), Marked(objects, rs, sigs)
  PROVE  Distinct(objects, part) /\ Marked(objects, part, sigs)
  BY DEF Distinct, Marked

(* Fewer pointers to the same objects: nothing else changes for the        *)
(* regions and the sets that stay.                                         *)
LEMMA FewerFacts ==
  ASSUME IInv, regions' \in Seq(Ptr), trigger_sets' \in Sets,
         object' = Collect(object, regions', trigger_sets'),
         \A p \in Ptr : p \in Live(regions', trigger_sets') => p \in Live(regions, trigger_sets),
         Distinct(object, regions'), Marked(object, regions', signals'),
         \A n \in SetName : trigger_sets'[n] # Absent => Distinct(object, trigger_sets'[n])
  PROVE  HeapOK' /\ UuidsOK' /\ Marked(object', regions', signals')
<1>1. Heap(object, regions, trigger_sets)
  BY DEF IInv, HeapOK
<1>2. /\ Heap(object', regions', trigger_sets')
      /\ \A p \in Ptr : p \in Live(regions', trigger_sets') => object'[p] = object[p]
  BY <1>1, CollectFacts DEF Heap
<1>3. \A i \in DOMAIN regions' : object'[regions'[i]] = object[regions'[i]]
  <2> SUFFICES ASSUME NEW i \in DOMAIN regions'
               PROVE  object'[regions'[i]] = object[regions'[i]]
    OBVIOUS
  <2>1. regions'[i] \in Ptr /\ regions'[i] \in Elements(regions')
    BY DEF Elements
  <2> QED
    BY <1>2, <2>1 DEF Live
<1>4. ASSUME NEW n \in SetName, trigger_sets'[n] # Absent, NEW i \in DOMAIN trigger_sets'[n]
      PROVE  object'[trigger_sets'[n][i]] = object[trigger_sets'[n][i]]
  <2>1. trigger_sets'[n] \in Seq(Ptr)
    BY <1>4 DEF Sets
  <2>2. trigger_sets'[n][i] \in Ptr /\ trigger_sets'[n][i] \in Elements(trigger_sets'[n])
    BY <2>1 DEF Elements
  <2>3. trigger_sets'[n][i] \in Live(regions', trigger_sets')
    BY <1>4, <2>2, SomeFacts
  <2> QED
    BY <1>2, <2>2, <2>3
<1>5. HeapOK'
  BY <1>2 DEF HeapOK
<1>6. Distinct(object', regions') /\ Marked(object', regions', signals')
  BY <1>3 DEF Distinct, Marked
<1>7. \A n \in SetName : trigger_sets'[n] # Absent => Distinct(object', trigger_sets'[n])
  BY <1>4 DEF Distinct
<1> QED
  BY <1>5, <1>6, <1>7 DEF UuidsOK

LEMMA PlaceInvariant == IInv /\ Place => IInv'
<1> SUFFICES ASSUME IInv, Place PROVE IInv'
  OBVIOUS
<1>1. PICK u \in NewUuid, p \in Ptr \ Live(regions, trigger_sets) :
        /\ regions' = Append(regions, p)
        /\ object' = [object EXCEPT
                        ![p] = [uuid |-> u, name |-> Unnamed, is_triggered |-> FALSE]]
  BY DEF Place
<1>2. /\ UNCHANGED <<mapId, tracked, stage, saved_map, last_map_id, trigger_sets, selected_line>>
      /\ UNCHANGED disk /\ UNCHANGED <<broken, replaced, signals>> /\ InFrame
  BY DEF Place, editor, history
<1>3. Heap(object, regions, trigger_sets)
  BY DEF IInv, HeapOK
<1>4. /\ u \in Uuid /\ u \notin Elements(signals)
      /\ \A q \in Ptr : object[q] # Absent => object[q].uuid # u
  BY DEF NewUuid
<1> DEFINE new == [uuid |-> u, name |-> Unnamed, is_triggered |-> FALSE]
<1>5. new \in TriggerRegion /\ new.uuid = u
  BY <1>4, NameAssumption DEF TriggerRegion
<1> HIDE DEF new
<1>6. object' \in Objects /\ object'[p] = new /\ (\A q \in Ptr : q # p => object'[q] = object[q])
  <2>1. object' = [object EXCEPT ![p] = new]
    BY <1>1 DEF new
  <2> QED
    BY <1>3, <1>5, <2>1 DEF Heap, Objects
<1>7. /\ regions \in Seq(Ptr) /\ regions' \in Seq(Ptr)
      /\ Len(regions') = Len(regions) + 1
      /\ \A i \in DOMAIN regions : regions'[i] = regions[i]
      /\ regions'[Len(regions) + 1] = p
  BY <1>1, <1>3 DEF Heap
<1>8. \A i \in DOMAIN regions : regions[i] # p /\ regions[i] \in Ptr
                                /\ object[regions[i]] # Absent
  BY <1>1, <1>3, HeapFacts, AbsentAssumption DEF Live, Elements
<1>9. ASSUME NEW n \in SetName, trigger_sets[n] # Absent, NEW i \in DOMAIN trigger_sets[n]
      PROVE  object'[trigger_sets[n][i]] = object[trigger_sets[n][i]]
  <2>1. trigger_sets[n][i] \in Ptr /\ trigger_sets[n][i] \in Elements(trigger_sets[n])
    BY <1>3, <1>9, HeapFacts DEF Elements
  <2>2. trigger_sets[n][i] # p
    BY <1>1, <1>9, <2>1, SomeFacts
  <2> QED
    BY <1>6, <2>1, <2>2
<1>10. HeapOK'
  <2>1. Elements(regions') = Elements(regions) \cup {p}
    BY <1>7 DEF Elements
  <2>2. \A q \in Ptr : q \in Live(regions', trigger_sets) <=> q \in Live(regions, trigger_sets) \/ q = p
    BY <2>1 DEF Live
  <2> QED
    BY <1>2, <1>3, <1>5, <1>6, <1>7, <2>2, AbsentAssumption DEF HeapOK, Heap
<1>11. ASSUME NEW i \in DOMAIN regions'
       PROVE  \/ /\ i \in DOMAIN regions
                 /\ object'[regions'[i]] = object[regions[i]]
                 /\ object[regions[i]].uuid # u
              \/ i = Len(regions) + 1 /\ object'[regions'[i]] = new
  <2>1. i \in 1 .. Len(regions) + 1 /\ Len(regions) \in Nat
    BY <1>7
  <2>2. CASE i = Len(regions) + 1
    BY <1>6, <1>7, <2>2
  <2>3. CASE i # Len(regions) + 1
    <3>1. i \in DOMAIN regions
      BY <1>7, <2>1, <2>3
    <3> QED
      BY <1>4, <1>6, <1>7, <1>8, <3>1
  <2> QED
    BY <2>2, <2>3
<1>12. UuidsOK'
  <2>1. Distinct(object', regions')
    BY <1>5, <1>11 DEF IInv, UuidsOK, Distinct
  <2>2. \A n \in SetName : trigger_sets[n] # Absent => Distinct(object', trigger_sets[n])
    BY <1>9 DEF IInv, UuidsOK, Distinct
  <2> QED
    BY <1>2, <2>1, <2>2 DEF UuidsOK
<1>13. SignalsOK'
  BY <1>2, <1>4, <1>5, <1>11 DEF IInv, SignalsOK, SignalledOnce, Marked
<1>14. SelectionOK'
  <2>1. Len(regions) \in Nat
    BY <1>7
  <2> QED
    BY <1>2, <1>7, <2>1 DEF IInv, SelectionOK, OnlyReplacementBreaks
<1> QED
  BY <1>2, <1>10, <1>12, <1>13, <1>14, SameDisk, SameIds DEF IInv

LEMMA SelectInvariant ==
  ASSUME IInv, NEW i \in DOMAIN regions, Select(i - 1)
  PROVE  IInv'
<1>1. /\ UNCHANGED <<mapId, tracked, stage, saved_map, last_map_id>> /\ UNCHANGED disk
      /\ UNCHANGED <<regions, object, trigger_sets>> /\ UNCHANGED <<broken, signals>>
      /\ ~broken /\ replaced' = FALSE /\ InFrame
      /\ selected_line' = IF selected_line = i - 1 THEN -1 ELSE i - 1
  BY DEF Select, watcher, InFrame
<1>2. i \in 1 .. Len(regions) /\ Len(regions) \in Nat
  BY DEF IInv, HeapOK, Heap
<1>3. selected_line' \in Int /\ selected_line' < Len(regions)
  BY <1>1, <1>2
<1>4. SelectionOK'
  BY <1>1, <1>3 DEF IInv, SelectionOK, OnlyReplacementBreaks
<1> QED
  BY <1>1, <1>4, SameList, SameDisk, SameSignals, SameIds DEF IInv

(* A line that is selected is there, unless the vector was replaced.       *)
LEMMA SelectedFacts ==
  ASSUME IInv, selected_line >= 0, ~InBounds(selected_line)
  PROVE  replaced
<1>1. selected_line \in Int /\ (~replaced => selected_line < Len(regions))
  BY DEF IInv, SelectionOK, OnlyReplacementBreaks
<1>2. DOMAIN regions = 1 .. Len(regions) /\ Len(regions) \in Nat
  BY DEF IInv, HeapOK, Heap
<1>3. CASE selected_line < Len(regions)
  BY <1>1, <1>2, <1>3 DEF InBounds, Line
<1>4. CASE ~(selected_line < Len(regions))
  BY <1>1, <1>4
<1> QED
  BY <1>3, <1>4

(* vector::erase.                                                          *)
LEMMA WithoutFacts ==
  ASSUME NEW S, NEW s \in Seq(S), NEW k \in 1 .. Len(s)
  PROVE  /\ Without(s, k) \in Seq(S)
         /\ Len(Without(s, k)) = Len(s) - 1
         /\ \A i \in 1 .. Len(s) - 1 : Without(s, k)[i] = s[IF i < k THEN i ELSE i + 1]
<1> DEFINE left == SubSeq(s, 1, k - 1)
           right == SubSeq(s, k + 1, Len(s))
<1>1. /\ left \in Seq(S) /\ Len(left) = k - 1
      /\ \A i \in 1 .. k - 1 : left[i] = s[i]
  OBVIOUS
<1>2. /\ right \in Seq(S) /\ Len(right) = Len(s) - k
      /\ \A i \in 1 .. Len(s) - k : right[i] = s[k + i]
  OBVIOUS
<1>3. Without(s, k) = left \o right
  BY DEF Without
<1> HIDE DEF left, right
<1>4. Without(s, k) \in Seq(S) /\ Len(Without(s, k)) = Len(s) - 1
  BY <1>1, <1>2, <1>3
<1>5. ASSUME NEW i \in 1 .. Len(s) - 1
      PROVE  Without(s, k)[i] = s[IF i < k THEN i ELSE i + 1]
  <2>1. CASE i < k
    BY <1>1, <1>2, <1>3, <2>1
  <2>2. CASE ~(i < k)
    <3>1. (left \o right)[i] = right[i - (k - 1)]
      BY <1>1, <1>2, <2>2
    <3>2. i - (k - 1) \in 1 .. Len(s) - k /\ k + (i - (k - 1)) = i + 1
      BY <2>2
    <3>3. right[i - (k - 1)] = s[i + 1]
      BY <1>2, <3>2
    <3> QED
      BY <1>3, <2>2, <3>1, <3>3
  <2> QED
    BY <2>1, <2>2
<1> QED
  BY <1>4, <1>5

LEMMA DeleteInvariant == IInv /\ Delete => IInv'
<1> SUFFICES ASSUME IInv, Delete PROVE IInv'
  OBVIOUS
<1>1. CASE ~InBounds(selected_line)
  <2>1. OutOfBounds /\ selected_line >= 0 /\ InFrame
    BY <1>1 DEF Delete
  <2> QED
    BY <1>1, <2>1, SelectedFacts, OutOfBoundsInvariant
<1>2. CASE InBounds(selected_line)
  <2> DEFINE k == Line(selected_line)
             f == [i \in DOMAIN regions' |-> IF i < k THEN i ELSE i + 1]
  <2>1. /\ UNCHANGED <<mapId, tracked, stage, saved_map, last_map_id, trigger_sets>> /\ UNCHANGED disk
        /\ UNCHANGED <<broken, signals>> /\ ~broken /\ InFrame
        /\ regions' = Without(regions, k) /\ selected_line' = -1 /\ replaced' = FALSE
        /\ object' = Collect(object, regions', trigger_sets)
    BY <1>2 DEF Delete, InFrame
  <2>2. Heap(object, regions, trigger_sets) /\ regions \in Seq(Ptr)
    BY DEF IInv, HeapOK, Heap
  <2>3. k \in 1 .. Len(regions)
    BY <1>2, <2>2 DEF InBounds
  <2> HIDE DEF k
  <2>4. /\ regions' \in Seq(Ptr)
        /\ Len(regions') = Len(regions) - 1
        /\ \A i \in 1 .. Len(regions) - 1 : regions'[i] = regions[IF i < k THEN i ELSE i + 1]
    BY <2>1, <2>2, <2>3, WithoutFacts
  <2>5. /\ f \in [DOMAIN regions' -> DOMAIN regions]
        /\ \A i, j \in DOMAIN regions' : f[i] = f[j] => i = j
        /\ \A i \in DOMAIN regions' : regions'[i] = regions[f[i]]
    BY <2>2, <2>3, <2>4
  <2> HIDE DEF f
  <2>6. Distinct(object, regions') /\ Marked(object, regions', signals)
    BY <2>5, PartFacts DEF IInv, UuidsOK, SignalsOK
  <2>7. Elements(regions') \subseteq Elements(regions)
    BY <2>5 DEF Elements
  <2>8. \A p \in Ptr : p \in Live(regions', trigger_sets') => p \in Live(regions, trigger_sets)
    BY <2>1, <2>7 DEF Live
  <2>9. HeapOK' /\ UuidsOK' /\ Marked(object', regions', signals')
    BY <2>1, <2>2, <2>4, <2>6, <2>8, FewerFacts DEF Heap, IInv, UuidsOK
  <2>10. SignalsOK'
    BY <2>1, <2>9 DEF IInv, SignalsOK, SignalledOnce
  <2>11. SelectionOK'
    <3>1. Len(regions') \in Nat
      BY <2>4
    <3>2. selected_line' \in Int /\ selected_line' < Len(regions')
      BY <2>1, <3>1
    <3> QED
      BY <2>1, <3>2 DEF IInv, SelectionOK, OnlyReplacementBreaks
  <2> QED
    BY <2>1, <2>9, <2>10, <2>11, SameDisk, SameIds DEF IInv
<1> QED
  BY <1>1, <1>2

(* Two regions change places.                                              *)
LEMMA SwapInvariant ==
  ASSUME IInv, InFrame, NEW i, NEW j, (InBounds(i) /\ InBounds(j)) \/ replaced, Swap(i, j)
  PROVE  IInv'
<1>1. CASE ~(InBounds(i) /\ InBounds(j))
  BY <1>1, OutOfBoundsInvariant DEF Swap
<1>2. CASE InBounds(i) /\ InBounds(j)
  <2> DEFINE k == Line(i)
             l == Line(j)
             f == [n \in DOMAIN regions |-> IF n = l THEN k ELSE IF n = k THEN l ELSE n]
  <2>1. /\ UNCHANGED <<mapId, tracked, stage, saved_map, last_map_id, trigger_sets, object>>
        /\ UNCHANGED disk
        /\ UNCHANGED <<selected_line, broken, replaced, signals>>
        /\ regions' = [regions EXCEPT ![k] = regions[l], ![l] = regions[k]]
    BY <1>2 DEF Swap, editor, history
  <2>2. Heap(object, regions, trigger_sets) /\ regions \in Seq(Ptr)
    BY DEF IInv, HeapOK, Heap
  <2>3. k \in DOMAIN regions /\ l \in DOMAIN regions
    BY <1>2 DEF InBounds
  <2> HIDE DEF k, l
  <2>4. /\ DOMAIN regions' = DOMAIN regions
        /\ \A n \in DOMAIN regions : regions'[n] = regions[f[n]]
        /\ f \in [DOMAIN regions -> DOMAIN regions]
        /\ \A m, n \in DOMAIN regions : f[m] = f[n] => m = n
    BY <2>1, <2>2, <2>3
  <2>5. regions' \in Seq(Ptr) /\ Len(regions') = Len(regions)
    BY <2>1, <2>2, <2>3
  <2>6. Elements(regions') = Elements(regions)
    <3>1. ASSUME NEW n \in DOMAIN regions
          PROVE  \E m \in DOMAIN regions : regions'[m] = regions[n]
      <4>1. f[f[n]] = n /\ f[n] \in DOMAIN regions
        BY <2>3
      <4> HIDE DEF f
      <4> QED
        BY <2>4, <4>1
    <3>2. \A n \in DOMAIN regions : \E m \in DOMAIN regions : regions'[n] = regions[m]
      BY <2>4
    <3> HIDE DEF f
    <3> QED
      BY <2>4, <3>1, <3>2 DEF Elements
  <2> HIDE DEF f
  <2>7. Distinct(object, regions') /\ Marked(object, regions', signals)
    BY <2>4, PartFacts DEF IInv, UuidsOK, SignalsOK
  <2>8. HeapOK'
    BY <2>1, <2>2, <2>5, <2>6 DEF HeapOK, Heap, Live
  <2>9. UuidsOK' /\ SignalsOK'
    BY <2>1, <2>7 DEF IInv, UuidsOK, SignalsOK, SignalledOnce
  <2>10. SelectionOK'
    BY <2>1, <2>5 DEF IInv, SelectionOK, OnlyReplacementBreaks
  <2> QED
    BY <2>1, <2>8, <2>9, <2>10, SameDisk, SameIds DEF IInv
<1> QED
  BY <1>1, <1>2

LEMMA MoveInvariant == IInv /\ (MoveUp \/ MoveDown) => IInv'
<1> SUFFICES ASSUME IInv, MoveUp \/ MoveDown PROVE IInv'
  OBVIOUS
<1>1. /\ selected_line \in Int
      /\ DOMAIN regions = 1 .. Len(regions) /\ Len(regions) \in Nat
      /\ ~replaced => selected_line < Len(regions)
  BY DEF IInv, SelectionOK, OnlyReplacementBreaks, HeapOK, Heap
<1>2. CASE MoveUp
  <2>1. /\ InFrame /\ selected_line > 0
        /\ Swap(selected_line - 1, selected_line)
    BY <1>2 DEF MoveUp
  <2>2. ~replaced => InBounds(selected_line - 1) /\ InBounds(selected_line)
    BY <1>1, <2>1 DEF InBounds, Line
  <2> QED
    BY <2>1, <2>2, SwapInvariant
<1>3. CASE MoveDown
  <2>1. /\ InFrame /\ selected_line >= 0
        /\ regions = <<>> \/ selected_line < Len(regions) - 1
        /\ Swap(selected_line + 1, selected_line)
    BY <1>3 DEF MoveDown
  <2>2. regions # <<>> => InBounds(selected_line + 1) /\ InBounds(selected_line)
    BY <1>1, <2>1 DEF InBounds, Line
  <2>3. regions = <<>> => replaced
    <3>1. regions = <<>> => Len(regions) = 0
      OBVIOUS
    <3> QED
      BY <1>1, <2>1, <3>1
  <2> QED
    BY <2>1, <2>2, <2>3, SwapInvariant
<1> QED
  BY <1>2, <1>3

LEMMA RenameInvariant ==
  ASSUME IInv, NEW name \in Name, Rename(name)
  PROVE  IInv'
<1>1. CASE ~InBounds(selected_line)
  <2>1. OutOfBounds /\ selected_line >= 0 /\ InFrame
    BY <1>1 DEF Rename
  <2> QED
    BY <1>1, <2>1, SelectedFacts, OutOfBoundsInvariant
<1>2. CASE InBounds(selected_line)
  <2> DEFINE p == regions[Line(selected_line)]
  <2>1. /\ UNCHANGED <<mapId, tracked, stage, saved_map, last_map_id, regions, trigger_sets>>
        /\ UNCHANGED disk
        /\ UNCHANGED <<selected_line, broken, replaced>> /\ UNCHANGED signals
        /\ object' = [object EXCEPT ![p].name = name] /\ InFrame
    BY <1>2 DEF Rename, watcher, editor, history
  <2>2. Heap(object, regions, trigger_sets)
    BY DEF IInv, HeapOK
  <2>3. p \in Ptr /\ object[p] \in TriggerRegion
    BY <1>2, <2>2, HeapFacts DEF InBounds
  <2> HIDE DEF p
  <2>4. /\ object' \in Objects
        /\ object'[p] \in TriggerRegion
        /\ object'[p].uuid = object[p].uuid /\ object'[p].is_triggered = object[p].is_triggered
        /\ \A q \in Ptr : q # p => object'[q] = object[q]
    <3>1. /\ [object[p] EXCEPT !.name = name] \in TriggerRegion
          /\ [object[p] EXCEPT !.name = name].uuid = object[p].uuid
          /\ [object[p] EXCEPT !.name = name].is_triggered = object[p].is_triggered
      BY <2>3 DEF TriggerRegion
    <3>2. object' = [object EXCEPT ![p] = [object[p] EXCEPT !.name = name]]
      BY <2>1
    <3> QED
      BY <2>2, <2>3, <3>1, <3>2 DEF Heap, Objects
  <2>5. \A q \in Ptr : object'[q].uuid = object[q].uuid
                       /\ object'[q].is_triggered = object[q].is_triggered
    BY <2>4
  <2>6. HeapOK'
    BY <2>1, <2>2, <2>3, <2>4, AbsentAssumption DEF HeapOK, Heap
  <2>7. UuidsOK' /\ SignalsOK'
    <3>1. Distinct(object', regions) /\ Marked(object', regions, signals)
      BY <2>2, <2>5, HeapFacts DEF IInv, UuidsOK, SignalsOK, Distinct, Marked
    <3>2. \A n \in SetName : trigger_sets[n] # Absent => Distinct(object', trigger_sets[n])
      BY <2>2, <2>5, HeapFacts DEF IInv, UuidsOK, Distinct
    <3> QED
      BY <2>1, <3>1, <3>2 DEF IInv, UuidsOK, SignalsOK, SignalledOnce
  <2> QED
    BY <2>1, <2>6, <2>7, SameDisk, SameSelection, SameIds DEF IInv
<1> QED
  BY <1>1, <1>2

-----------------------------------------------------------------------------
(* The sets.                                                               *)

(* A file of sets that is opened holds nothing that counts.                *)
LEMMA OpenSetsFacts ==
  ASSUME IInv, OpenSets, last_map_id # Nowhere
  PROVE  DiskOK' /\ IdsOK' /\ KeptOK'
<1>1. /\ stage = "idle" /\ stage' = "saving" /\ saved_map' = mapId
      /\ UNCHANGED <<mapId, tracked, last_map_id, files>>
      /\ set_files' = [set_files EXCEPT ![mapId] = Torn]
  BY DEF OpenSets, Goes, watcher
<1>2. mapId \in Map /\ mapId # Nowhere
  BY NowhereAssumption DEF IInv, IdsOK
<1>3. set_files \in [Map -> [SetName -> Seq(Stored) \cup {Absent}] \cup {Absent, Torn}]
  BY DEF IInv, DiskOK
<1>4. /\ set_files' \in [Map -> [SetName -> Seq(Stored) \cup {Absent}] \cup {Absent, Torn}]
      /\ ~Readable(set_files'[mapId])
      /\ \A m \in Map : m # mapId => set_files'[m] = set_files[m]
  BY <1>1, <1>2, <1>3 DEF Readable
<1>5. DiskOK'
  <2>1. \A m \in Map, n \in SetName :
          Readable(set_files'[m]) /\ set_files'[m][n] # Absent => DistinctUuids(set_files'[m][n])
    BY <1>4 DEF IInv, DiskOK
  <2>2. \A m \in Map \cup {Nowhere} : Readable(files'[m]) => DistinctUuids(files'[m])
    BY <1>1 DEF IInv, DiskOK
  <2> QED
    BY <1>1, <1>4, <2>1, <2>2 DEF IInv, DiskOK, Readable
<1>6. IdsOK' /\ KeptOK'
  BY <1>1, <1>2 DEF IInv, IdsOK, KeptOK, Stage
<1> QED
  BY <1>5, <1>6

(* What is written for the sets is in order as the sets are.               *)
LEMMA WriteSetsInvariant == IInv /\ WriteSets => IInv'
<1> SUFFICES ASSUME IInv, WriteSets PROVE IInv'
  OBVIOUS
<1> DEFINE written == [n \in SetName |-> IF trigger_sets[n] = Absent THEN Absent
                                         ELSE ToJson(trigger_sets[n])]
<1>1. /\ stage = "saving" /\ stage' = "idle" /\ saved_map' = Nowhere
      /\ UNCHANGED <<mapId, tracked, last_map_id, files>>
      /\ UNCHANGED <<regions, object, trigger_sets>>
      /\ UNCHANGED <<selected_line, broken, replaced, signals>>
      /\ set_files' = [set_files EXCEPT ![saved_map] = written]
  BY DEF WriteSets, Goes, watcher, editor, history
<1>2. Heap(object, regions, trigger_sets) /\ trigger_sets \in Sets
  BY DEF IInv, HeapOK, Heap
<1>3. ASSUME NEW n \in SetName, trigger_sets[n] # Absent
      PROVE  ToJson(trigger_sets[n]) \in Seq(Stored) /\ DistinctUuids(ToJson(trigger_sets[n]))
  <2>1. trigger_sets[n] \in Seq(Ptr)
    BY <1>2, <1>3 DEF Sets
  <2>2. \A i \in DOMAIN trigger_sets[n] : object[trigger_sets[n][i]] \in TriggerRegion
    BY <1>2, <1>3, HeapFacts
  <2> QED
    BY <1>3, <2>1, <2>2, ToJsonFacts DEF IInv, UuidsOK
<1>4. /\ written \in [SetName -> Seq(Stored) \cup {Absent}]
      /\ \A n \in SetName : written[n] # Absent => DistinctUuids(written[n])
  BY <1>3
<1> HIDE DEF written
<1>5. /\ set_files \in [Map -> [SetName -> Seq(Stored) \cup {Absent}] \cup {Absent, Torn}]
      /\ saved_map \in Map
  BY <1>1 DEF IInv, DiskOK, IdsOK
<1>6. /\ set_files' \in [Map -> [SetName -> Seq(Stored) \cup {Absent}] \cup {Absent, Torn}]
      /\ set_files'[saved_map] = written
      /\ \A m \in Map : m # saved_map => set_files'[m] = set_files[m]
  BY <1>1, <1>4, <1>5
<1>7. DiskOK'
  <2>1. \A m \in Map, n \in SetName :
          Readable(set_files'[m]) /\ set_files'[m][n] # Absent => DistinctUuids(set_files'[m][n])
    BY <1>4, <1>6 DEF IInv, DiskOK
  <2>2. \A m \in Map \cup {Nowhere} : Readable(files'[m]) => DistinctUuids(files'[m])
    BY <1>1 DEF IInv, DiskOK
  <2> QED
    BY <1>1, <1>6, <2>1, <2>2 DEF IInv, DiskOK, Readable
<1>8. IdsOK' /\ KeptOK'
  BY <1>1 DEF IInv, IdsOK, KeptOK, Stage
<1> QED
  BY <1>1, <1>7, <1>8, SameList, SameSelection, SameSignals DEF IInv

LEMMA SaveSetInvariant ==
  ASSUME IInv, NEW n \in SetName, SaveSet(n)
  PROVE  IInv'
<1>1. /\ UNCHANGED <<regions, selected_line, broken, replaced, signals>>
      /\ trigger_sets' = [trigger_sets EXCEPT ![n] = regions]
      /\ OpenSets /\ InFrame
      /\ object' = Collect(object, regions, trigger_sets')
  BY DEF SaveSet, OpenSets, watcher, history
<1>2. Heap(object, regions, trigger_sets) /\ regions \in Seq(Ptr) /\ trigger_sets \in Sets
  BY DEF IInv, HeapOK, Heap
<1>3. /\ trigger_sets' \in Sets /\ trigger_sets'[n] = regions
      /\ \A m \in SetName : m # n => trigger_sets'[m] = trigger_sets[m]
  BY <1>1, <1>2 DEF Sets
<1>4. \A m \in SetName : trigger_sets'[m] # Absent =>
        /\ \A i \in DOMAIN trigger_sets'[m] : object[trigger_sets'[m][i]] \in TriggerRegion
        /\ Distinct(object, trigger_sets'[m])
  BY <1>2, <1>3, HeapFacts DEF IInv, UuidsOK
<1>5. DiskOK' /\ IdsOK' /\ KeptOK'
  <2>1. last_map_id # Nowhere
    BY <1>1 DEF IInv, IdsOK, InFrame
  <2> QED
    BY <1>1, <2>1, OpenSetsFacts
<1>6. \A p \in Ptr : p \in Live(regions, trigger_sets') => p \in Live(regions, trigger_sets)
  BY <1>3, SomeFacts
<1>7. HeapOK' /\ UuidsOK' /\ Marked(object', regions', signals')
  BY <1>1, <1>2, <1>3, <1>4, <1>6, FewerFacts DEF IInv, UuidsOK, SignalsOK
<1>8. SignalsOK'
  BY <1>1, <1>7 DEF IInv, SignalsOK, SignalledOnce
<1> QED
  BY <1>1, <1>5, <1>7, <1>8, SameSelection DEF IInv

LEMMA DeleteSetInvariant ==
  ASSUME IInv, NEW n \in SetName, DeleteSet(n)
  PROVE  IInv'
<1>1. /\ UNCHANGED <<regions, selected_line, broken, replaced, signals>>
      /\ trigger_sets' = [trigger_sets EXCEPT ![n] = Absent]
      /\ OpenSets /\ InFrame
      /\ object' = Collect(object, regions, trigger_sets')
  BY DEF DeleteSet, OpenSets, watcher, history
<1>2. Heap(object, regions, trigger_sets) /\ regions \in Seq(Ptr) /\ trigger_sets \in Sets
  BY DEF IInv, HeapOK, Heap
<1>3. /\ trigger_sets' \in Sets /\ trigger_sets'[n] = Absent
      /\ \A m \in SetName : m # n => trigger_sets'[m] = trigger_sets[m]
  BY <1>1, <1>2 DEF Sets
<1>4. \A m \in SetName : trigger_sets'[m] # Absent =>
        /\ \A i \in DOMAIN trigger_sets'[m] : object[trigger_sets'[m][i]] \in TriggerRegion
        /\ Distinct(object, trigger_sets'[m])
  BY <1>2, <1>3, HeapFacts DEF IInv, UuidsOK
<1>5. DiskOK' /\ IdsOK' /\ KeptOK'
  <2>1. last_map_id # Nowhere
    BY <1>1 DEF IInv, IdsOK, InFrame
  <2> QED
    BY <1>1, <2>1, OpenSetsFacts
<1>6. \A p \in Ptr : p \in Live(regions, trigger_sets') => p \in Live(regions, trigger_sets)
  BY <1>3, SomeFacts
<1>7. HeapOK' /\ UuidsOK' /\ Marked(object', regions', signals')
  BY <1>1, <1>2, <1>3, <1>4, <1>6, FewerFacts DEF IInv, UuidsOK, SignalsOK
<1>8. SignalsOK'
  BY <1>1, <1>7 DEF IInv, SignalsOK, SignalledOnce
<1> QED
  BY <1>1, <1>5, <1>7, <1>8, SameSelection DEF IInv

LEMMA LoadSetInvariant ==
  ASSUME IInv, NEW n \in SetName, LoadSet(n)
  PROVE  IInv'
<1>1. /\ UNCHANGED <<mapId, tracked, stage, saved_map, last_map_id>> /\ UNCHANGED disk
      /\ UNCHANGED <<selected_line, broken>> /\ Replaced /\ InFrame
      /\ trigger_sets' = IF trigger_sets[n] = Absent
                         THEN [trigger_sets EXCEPT ![n] = <<>>] ELSE trigger_sets
      /\ regions' = trigger_sets'[n]
      /\ object' = Collect(object, regions', trigger_sets')
  BY DEF LoadSet
<1>2. Heap(object, regions, trigger_sets) /\ trigger_sets \in Sets
  BY DEF IInv, HeapOK, Heap
<1>3. /\ trigger_sets' \in Sets
      /\ \A m \in SetName : trigger_sets'[m] # Absent =>
           \/ trigger_sets'[m] = <<>>
           \/ trigger_sets[m] # Absent /\ trigger_sets'[m] = trigger_sets[m]
      /\ trigger_sets[n] = Absent => regions' = <<>>
      /\ trigger_sets[n] # Absent => regions' = trigger_sets[n]
  BY <1>1, <1>2 DEF Sets
<1>4. regions' \in Seq(Ptr)
  <2>1. CASE trigger_sets[n] = Absent
    BY <1>3, <2>1
  <2>2. CASE trigger_sets[n] # Absent
    BY <1>2, <1>3, <2>2 DEF Sets
  <2> QED
    BY <2>1, <2>2
<1>5. \A m \in SetName : trigger_sets'[m] # Absent => Distinct(object, trigger_sets'[m])
  BY <1>3 DEF IInv, UuidsOK, Distinct
<1>6. Distinct(object, regions')
  BY <1>3 DEF IInv, UuidsOK, Distinct
<1>7. Marked(object, regions', signals')
  BY <1>1 DEF Replaced, Marked, Elements
<1>8. Elements(<<>>) = {}
  BY DEF Elements
<1>9. \A p \in Ptr : p \in Live(regions', trigger_sets') => p \in Live(regions, trigger_sets)
  BY <1>3, <1>8, SomeFacts
<1>10. HeapOK' /\ UuidsOK'
  BY <1>1, <1>3, <1>4, <1>5, <1>6, <1>7, <1>9, FewerFacts
<1> QED
  BY <1>1, <1>4, <1>10, ReplacedFacts, SameDisk, SameIds DEF IInv

-----------------------------------------------------------------------------
(* The end of the game, travel, and the whole.                             *)

LEMMA GameEndsInvariant == IInv /\ GameEnds => IInv'
<1> SUFFICES ASSUME IInv, GameEnds PROVE IInv'
  OBVIOUS
<1>1. /\ tracked' = Nowhere /\ stage' = "idle" /\ last_map_id' = Nowhere /\ regions' = <<>>
      /\ trigger_sets' = [n \in SetName |-> Absent] /\ selected_line' = -1
      /\ object' = [p \in Ptr |-> Absent] /\ saved_map' = Nowhere
      /\ broken' = FALSE /\ replaced' = FALSE /\ signals' = <<>>
      /\ mapId' = mapId /\ UNCHANGED disk
  BY DEF GameEnds, NoSets
<1>2. HeapOK'
  <2>1. object' \in Objects /\ regions' \in Seq(Ptr) /\ trigger_sets' \in Sets
    BY <1>1 DEF Objects, Sets
  <2>2. \A p \in Ptr : p \notin Live(regions', trigger_sets') /\ object'[p] = Absent
    BY <1>1, SomeFacts DEF Elements
  <2> QED
    BY <2>1, <2>2 DEF HeapOK, Heap
<1>3. UuidsOK'
  BY <1>1 DEF UuidsOK, Distinct
<1>4. SignalsOK'
  BY <1>1 DEF SignalsOK, SignalledOnce, Injective, Marked
<1>5. SelectionOK'
  <2>1. selected_line' \in Int /\ selected_line' < Len(regions')
    BY <1>1
  <2> QED
    BY <1>1, <2>1, Zenon DEF SelectionOK, OnlyReplacementBreaks
<1>6. IdsOK' /\ KeptOK'
  BY <1>1 DEF IInv, IdsOK, KeptOK, Stage
<1> QED
  BY <1>1, <1>2, <1>3, <1>4, <1>5, <1>6, SameDisk DEF IInv

LEMMA NextIInv == IInv /\ [Next]_vars => IInv'
<1> SUFFICES ASSUME IInv, [Next]_vars PROVE IInv'
  OBVIOUS
<1>1. ASSUME NEW m \in Map, Travel(m) PROVE IInv'
  <2>1. /\ mapId' = m /\ UNCHANGED <<tracked, stage, saved_map, last_map_id>>
        /\ UNCHANGED <<regions, object, trigger_sets>> /\ UNCHANGED files
        /\ UNCHANGED disk /\ UNCHANGED <<selected_line, broken, replaced>> /\ UNCHANGED signals
    BY <1>1 DEF Travel, watcher, editor, disk, history
  <2>2. IdsOK'
    BY <2>1 DEF IInv, IdsOK
  <2>3. ToJson(regions)' = ToJson(regions)
    BY <2>1 DEF ToJson
  <2>4. KeptOK'
    BY <2>1, <2>3 DEF IInv, KeptOK
  <2> QED
    BY <2>1, <2>2, <2>4, SameList, SameDisk, SameSignals, SameSelection DEF IInv
<1>2. CASE Buttons
  <2>1. CASE Place
    BY <2>1, PlaceInvariant
  <2>2. CASE Delete
    BY <2>2, DeleteInvariant
  <2>3. CASE MoveUp \/ MoveDown
    BY <2>3, MoveInvariant
  <2>4. CASE \E i \in DOMAIN regions : Select(i - 1)
    BY <2>4, SelectInvariant
  <2>5. CASE \E name \in Name : Rename(name)
    BY <2>5, RenameInvariant
  <2>6. CASE \E n \in SetName : SaveSet(n) \/ DeleteSet(n) \/ LoadSet(n)
    BY <2>6, SaveSetInvariant, DeleteSetInvariant, LoadSetInvariant
  <2> QED
    BY <1>2, <2>1, <2>2, <2>3, <2>4, <2>5, <2>6 DEF Buttons
<1>3. CASE ParseError \/ GameEnds
  BY <1>3, GameEndsInvariant DEF ParseError
<1>4. CASE UNCHANGED vars
  <2>1. UNCHANGED <<regions, object, trigger_sets>> /\ UNCHANGED disk
        /\ UNCHANGED <<regions, object, signals>>
        /\ UNCHANGED <<regions, selected_line, broken, replaced>>
        /\ UNCHANGED <<mapId, tracked, stage, saved_map, last_map_id, files>>
    BY <1>4 DEF vars, watcher, editor, disk, history
  <2>2. ToJson(regions)' = ToJson(regions)
    BY <2>1 DEF ToJson
  <2>3. IdsOK' /\ KeptOK'
    BY <2>1, <2>2 DEF IInv, IdsOK, KeptOK
  <2> QED
    BY <2>1, <2>3, SameList, SameDisk, SameSignals, SameSelection DEF IInv
<1>5. CASE Begins
  BY <1>1, <1>2, <1>3, <1>5, LookInvariant, OpenInvariant, WatchInvariant DEF Begins
<1>6. CASE Continues
  BY <1>3, <1>6, LookInvariant, OpenInvariant, WriteInvariant, EnterMapInvariant,
     ReadSetsInvariant, WriteSetsInvariant DEF Continues
<1> QED
  BY <1>4, <1>5, <1>6 DEF Next

(* Every behaviour keeps the inductive invariant.                          *)
THEOREM Invariance == Spec => []IInv
  BY InitIInv, NextIInv, PTL DEF Spec

(* The regions keep their type, and exactly the objects that something     *)
(* points to are there.                                                    *)
THEOREM TypeCorrect == Spec => []TypeOK
<1>1. IInv => TypeOK
  BY DEF IInv, HeapOK, Heap, Objects, Sets, DiskOK, SignalsOK, SelectionOK, IdsOK, TypeOK
<1> QED
  BY <1>1, Invariance, PTL

(* No list, in memory or on disk, holds two regions with one uuid          *)
(* (mod.cpp: the handler of trigger_signal).                               *)
THEOREM UuidsAreDistinct == Spec => []UuidsDistinct
<1>1. IInv => UuidsDistinct
  <2> SUFFICES ASSUME IInv PROVE UuidsDistinct
    OBVIOUS
  <2>1. Heap(object, regions, trigger_sets) /\ regions \in Seq(Ptr)
    BY DEF IInv, HeapOK, Heap
  <2>2. DistinctUuids(ToJson(regions))
    BY <2>1, HeapFacts, ToJsonFacts DEF IInv, UuidsOK
  <2>3. ASSUME NEW n \in SetName, trigger_sets[n] # Absent
        PROVE  DistinctUuids(ToJson(trigger_sets[n]))
    BY <2>1, <2>3, HeapFacts, ToJsonFacts DEF IInv, UuidsOK
  <2> QED
    BY <2>2, <2>3 DEF IInv, DiskOK, UuidsDistinct
<1> QED
  BY <1>1, Invariance, PTL

(* A region is signalled once until the regions are read or set anew       *)
(* (trigger_region.cpp: TriggerRegion::trigger).                           *)
THEOREM RegionsAreSignalledOnce == Spec => []SignalledOnce
<1>1. IInv => SignalledOnce
  BY DEF IInv, SignalsOK
<1> QED
  BY <1>1, Invariance, PTL

(* The vector is indexed out of its bounds only after it was replaced      *)
(* under a selected line (trigger_region.cpp: TriggerEditor::mod_imgui).   *)
THEOREM ReplacementBreaks == Spec => []OnlyReplacementBreaks
<1>1. IInv => OnlyReplacementBreaks
  BY DEF IInv, SelectionOK
<1> QED
  BY <1>1, Invariance, PTL

-----------------------------------------------------------------------------
(* The implementation of RegionLists.                                      *)

(* The list in use, after a step.                                          *)
LEMMA NextListFacts ==
  ASSUME IInv'
  PROVE  /\ ToJson(regions)' \in Seq(Stored)
         /\ \A i, j \in DOMAIN ToJson(regions)' :
              ToJson(regions)'[i].uuid = ToJson(regions)'[j].uuid => i = j
<1>1. Heap(object', regions', trigger_sets') /\ Distinct(object', regions')
  BY DEF IInv, HeapOK, UuidsOK
<1>2. \A i \in DOMAIN regions' : object'[regions'[i]] \in TriggerRegion
  BY <1>1, HeapFacts
<1>3. ToJson(regions)' = [i \in DOMAIN regions' |->
                            [uuid |-> object'[regions'[i]].uuid,
                             name |-> object'[regions'[i]].name]]
  BY DEF ToJson
<1>4. regions' \in Seq(Ptr)
  BY <1>1 DEF Heap
<1>5. \A i \in DOMAIN regions' :
        [uuid |-> object'[regions'[i]].uuid, name |-> object'[regions'[i]].name] \in Stored
  BY <1>2 DEF TriggerRegion, Stored
<1>6. ToJson(regions)' \in Seq(Stored)
  BY <1>3, <1>4, <1>5
<1>7. \A i, j \in DOMAIN ToJson(regions)' :
        ToJson(regions)'[i].uuid = ToJson(regions)'[j].uuid => i = j
  BY <1>1, <1>3 DEF Distinct
<1> QED
  BY <1>6, <1>7

(* A step that leaves the map and the files is an edit of its list.        *)
LEMMA EditsList ==
  ASSUME IInv, IInv', last_map_id # Nowhere, UNCHANGED <<last_map_id, files>>,
         stage \in {"idle", "entered", "found", "saving"}
  PROVE  Lists!Edit
<1>1. last_map_id \in Map /\ files[last_map_id] # Torn
  BY DEF IInv, IdsOK, KeptOK
<1> QED
  BY <1>1, NextListFacts DEF Lists!Edit

(* A step that leaves regions, map and files is none of the lists.         *)
LEMMA SameLists ==
  ASSUME UNCHANGED <<last_map_id, files, regions, object>>
  PROVE  UNCHANGED Lists!listVars
  BY DEF Lists!listVars, ToJson

LEMMA WritesList ==
  ASSUME IInv, LeaveMap \/ OpenToClose \/ KeepRegions \/ WriteToClose
  PROVE  Lists!Open \/ Lists!Keep \/ UNCHANGED Lists!listVars
<1>1. UNCHANGED <<last_map_id, regions, object>>
  BY DEF LeaveMap, OpenToClose, KeepRegions, WriteToClose, OpenFile, WriteFile, watcher
<1>2. ToJson(regions)' = ToJson(regions)
  BY <1>1 DEF ToJson
<1>3. /\ files \in [Map \cup {Nowhere} -> Seq(Stored) \cup {Absent, Torn}]
      /\ last_map_id \in Map \cup {Nowhere}
  BY DEF IInv, DiskOK, IdsOK
<1>4. CASE files' = [files EXCEPT ![last_map_id] = Torn]
  <2>1. CASE last_map_id = Nowhere
    BY <1>1, <1>2, <1>3, <1>4, <2>1, NowhereAssumption DEF Lists!listVars
  <2>2. CASE last_map_id # Nowhere
    BY <1>1, <1>2, <1>3, <1>4, <2>2 DEF Lists!Open
  <2> QED
    BY <2>1, <2>2
<1>5. CASE files' = [files EXCEPT ![last_map_id] = ToJson(regions)] /\ files[last_map_id] = Torn
  <2>1. CASE last_map_id = Nowhere
    BY <1>1, <1>2, <1>3, <1>5, <2>1, NowhereAssumption DEF Lists!listVars
  <2>2. CASE last_map_id # Nowhere
    BY <1>1, <1>2, <1>3, <1>5, <2>2 DEF Lists!Keep
  <2> QED
    BY <2>1, <2>2
<1> QED
  BY <1>4, <1>5 DEF LeaveMap, OpenToClose, KeepRegions, WriteToClose, OpenFile, WriteFile,
                   Goes, IInv, KeptOK

LEMMA EndsLists ==
  ASSUME GameEnds
  PROVE  Lists!End
  BY DEF GameEnds, ToJson, disk, Lists!End

LEMMA VisitsList ==
  ASSUME IInv, EnterMap
  PROVE  Lists!Visit(mapId)
<1>1. /\ last_map_id' = mapId /\ stage = "written" /\ files[mapId] # Torn
      /\ UNCHANGED files
  BY DEF EnterMap, Goes, disk
<1>2. mapId \in Map /\ last_map_id \in Map \cup {Nowhere}
  BY DEF IInv, IdsOK
<1>3. last_map_id # Nowhere => last_map_id \in Map /\ files[last_map_id] = ToJson(regions)
  BY <1>1, <1>2 DEF IInv, KeptOK
<1>4. CASE files[mapId] = Absent
  <2>1. UNCHANGED <<regions, object>>
    BY <1>4 DEF EnterMap
  <2>2. ToJson(regions)' = ToJson(regions)
    BY <2>1 DEF ToJson
  <2> QED
    BY <1>1, <1>2, <1>3, <1>4, <2>2 DEF Lists!Visit
<1>5. CASE files[mapId] # Absent
  <2> DEFINE json == files[mapId]
  <2>1. PICK a \in Allocations(DOMAIN json, InSets(trigger_sets)) :
          regions' = a /\ object' = Collect(Read(json, a), a, trigger_sets)
    BY <1>5 DEF EnterMap
  <2>2. json \in Seq(Stored)
    <3>1. files[mapId] \in Seq(Stored) \cup {Absent, Torn}
      BY <1>2 DEF IInv, DiskOK
    <3> QED
      BY <1>1, <1>5, <3>1
  <2> HIDE DEF json
  <2>3. a \in [DOMAIN json -> Ptr] /\ (\A i, j \in DOMAIN json : a[i] = a[j] => i = j)
    BY DEF Allocations
  <2>4. \A i \in DOMAIN json : Read(json, a)[a[i]] = FromJson(json[i])
    BY <2>2, <2>3, ReadFacts DEF IInv, HeapOK, Heap
  <2>5. ASSUME NEW i \in DOMAIN json PROVE object'[a[i]] = FromJson(json[i])
    <3>1. a[i] \in Live(a, trigger_sets) /\ a[i] \in Ptr
      BY <2>3 DEF Live, Elements
    <3> QED
      BY <2>1, <2>4, <3>1 DEF Collect
  <2>6. ASSUME NEW i \in DOMAIN json
        PROVE  json[i] = [uuid |-> object'[a[i]].uuid, name |-> object'[a[i]].name]
    <3>1. json[i] \in Stored
      BY <2>2
    <3>2. json[i] = [uuid |-> json[i].uuid, name |-> json[i].name]
      BY <3>1 DEF Stored
    <3>3. object'[a[i]] = [uuid |-> json[i].uuid, name |-> json[i].name,
                           is_triggered |-> FALSE]
      BY <2>5 DEF FromJson
    <3>4. object'[a[i]].uuid = json[i].uuid /\ object'[a[i]].name = json[i].name
      BY <3>3
    <3> QED
      BY <3>2, <3>4
  <2>7. ToJson(regions)' = json
    <3>1. ToJson(regions)' = [i \in DOMAIN a |-> [uuid |-> object'[a[i]].uuid,
                                                  name |-> object'[a[i]].name]]
      BY <2>1 DEF ToJson
    <3>2. DOMAIN a = DOMAIN json
      BY <2>3
    <3>3. json = [i \in DOMAIN json |-> json[i]]
      BY <2>2
    <3> QED
      BY <2>6, <3>1, <3>2, <3>3
  <2> QED
    BY <1>1, <1>2, <1>3, <1>5, <2>7 DEF Lists!Visit, json
<1> QED
  BY <1>4, <1>5

(* Whatever objects are shared with sets, and wherever the player travels  *)
(* while a map change is handled, every map keeps a list of its own, and   *)
(* the game loses no other than the one it was writing when it ended:      *)
(* every step is one of RegionLists (maptracker.cpp: MapTracker::watch,    *)
(* trigger_region.cpp: TriggerWatcher::map_change and TriggerEditor).      *)
THEOREM RegionsAreLists == Spec => ImplementsRegionLists
<1>1. Init => Lists!Init
  BY NowhereAssumption DEF Init, Lists!Init, ToJson
<1>2. ASSUME IInv, IInv', [Next]_vars PROVE [Lists!Next]_(Lists!listVars)
  <2>1. CASE UNCHANGED vars \/ (\E m \in Map : Travel(m)) \/ WatchMap \/ TrackMap \/ FindSets
             \/ WriteSets
    <3>1. UNCHANGED <<last_map_id, files, regions, object>>
      BY <2>1, Zenon DEF vars, Travel, WatchMap, TrackMap, FindSets, WriteSets, watcher, disk
    <3> QED
      BY <3>1, SameLists
  <2>2. CASE LeaveMap \/ OpenToClose \/ KeepRegions \/ WriteToClose
    BY <1>2, <2>2, WritesList DEF Lists!Next
  <2>3. CASE EnterMap
    <3>1. Lists!Visit(mapId) /\ mapId \in Map
      BY <1>2, <2>3, VisitsList DEF IInv, IdsOK
    <3>2. \E m \in Map : Lists!Visit(m)
      BY <3>1 DEF Lists!Visit
    <3> QED
      BY <3>2 DEF Lists!Next
  <2>4. CASE ReadSets \/ Buttons \/ (\E i \in DOMAIN regions : Watch(i))
    <3>1. UNCHANGED <<last_map_id, files>> /\ (stage = "found" \/ InFrame)
      <4>1. CASE ReadSets
        BY <4>1 DEF ReadSets, Goes, watcher, disk
      <4>2. CASE \E i \in DOMAIN regions : Watch(i)
        BY <4>2 DEF Watch, watcher, disk
      <4>3. CASE Buttons
        BY <4>3, Zenon DEF Buttons, watcher, disk, Place, Delete, MoveUp, MoveDown,
                    Swap, OutOfBounds, Select, Rename, SaveSet, DeleteSet, OpenSets, LoadSet
      <4> QED
        BY <2>4, <4>1, <4>2, <4>3
    <3>2. last_map_id # Nowhere /\ stage \in {"idle", "found"}
      BY <1>2, <3>1 DEF IInv, IdsOK, InFrame
    <3> QED
      BY <1>2, <3>1, <3>2, EditsList DEF Lists!Next
  <2>5. CASE ParseError \/ GameEnds
    BY <2>5, EndsLists DEF ParseError, Lists!Next
  <2>6. Next \/ UNCHANGED vars
    BY <1>2
  <2> QED
    BY <2>1, <2>2, <2>3, <2>4, <2>5, <2>6, Zenon DEF Next, Begins, Continues
<1> QED
  BY <1>1, <1>2, Invariance, PTL DEF Spec, ImplementsRegionLists, Lists!Spec

=============================================================================
