-------------------------- MODULE EventStoreProofs --------------------------
(***************************************************************************)
(* Proofs about EventStore for every set of threads and uuids, any lag of  *)
(* the combat ticks and any bound on the clock.                            *)
(***************************************************************************)
EXTENDS EventStore, EventLogProofs

-----------------------------------------------------------------------------
(* The invariant is inductive.                                             *)

(* The empty store satisfies the invariant.                                *)
LEMMA InitInvariant == Init => IInv
<1> SUFFICES ASSUME Init PROVE IInv
  OBVIOUS
<1>1. ZeroState \in TimerState
  <2>1. 0 \in Instant /\ "stopped" \in TimerStatus /\ FALSE \in BOOLEAN
    BY TimeMaxAssumption DEF Instant, TimerStatus
  <2> QED BY <2>1, Zenon DEF ZeroState, TimerState
<1>2. fsm \in Fsm /\ Ordered(fsm) /\ fsm.segment_index <= Len(fsm.segments)
      /\ fsm.processed_uuids = {}
  BY FsmInitSound DEF Init, Sound
<1>3. pc \in [Thread -> PcLabel] /\ \A t \in Thread : pc[t] = "idle" /\ ev[t] = NoEvent
  BY DEF Init, PcLabel
<1>4. field \in [Thread -> 1 .. Len(Fields)]
  BY DEF Init, Fields
<1>5. now \in 1 .. MaxNow /\ cursor \in Nat
  BY ClockAssumption DEF Init
<1>6. TypeOK
  BY <1>1, <1>2, <1>3, <1>4, <1>5, EmptyLog DEF Init, TypeOK
<1>7. LockHeld /\ Carrying /\ ~ Evaluating
  BY <1>3, NoneAssumption DEF Init, LockHeld, Carrying, Evaluating
<1>8. CanonicalOutside /\ LoopInvariant /\ RunsOrdered /\ SlotInBounds
  BY <1>2, <1>7, EmptyLog DEF Init, CanonicalOutside, LoopInvariant, RunsOrdered, SlotInBounds
<1> QED BY <1>6, <1>7, <1>8 DEF IInv

Outside == PcLabel \ {"eval", "store", "post"}

(* A thread that does not hold the lock, and does not take it, leaves the  *)
(* parts of the invariant about the log as they are.                       *)
LEMMA OutsideStep ==
  ASSUME IInv, NEW t \in Thread, NEW here \in Outside, pc[t] \in Outside,
         pc' = [pc EXCEPT ![t] = here], UNCHANGED logVars
  PROVE  LockHeld' /\ LoopInvariant' /\ CanonicalOutside' /\ RunsOrdered' /\ SlotInBounds'
<1>1. pc \in [Thread -> PcLabel] /\ holder' = holder
  BY DEF IInv, TypeOK, logVars
<1>2. holder # t
  BY <1>1 DEF IInv, LockHeld, Outside
<1>3. LockHeld'
  BY <1>1, <1>2 DEF IInv, LockHeld, Outside
<1>4. Evaluating' = Evaluating
  BY <1>1, <1>2, <1>3 DEF Evaluating, IInv, LockHeld, TypeOK
<1>5. LoopInvariant' /\ CanonicalOutside'
  BY <1>4 DEF IInv, LoopInvariant, CanonicalOutside, logVars
<1> QED BY <1>3, <1>5 DEF IInv, RunsOrdered, SlotInBounds, logVars

(* A copied or stored member is of its type.                               *)
LEMMA MemberType ==
  ASSUME NEW a \in TimerState, NEW b \in TimerState, NEW n \in 1 .. Len(Fields)
  PROVE  [a EXCEPT ![Fields[n]] = b[Fields[n]]] \in TimerState
<1>1. n = 1 \/ n = 2 \/ n = 3 \/ n = 4
  BY DEF Fields
<1>2. Fields[1] = "status" /\ Fields[2] = "start_time" /\ Fields[3] = "current_time"
      /\ Fields[4] = "was_prepared"
  BY DEF Fields
<1>3. /\ a.status \in TimerStatus /\ b.status \in TimerStatus
      /\ a.start_time \in Instant /\ b.start_time \in Instant
      /\ a.current_time \in Instant /\ b.current_time \in Instant
      /\ a.was_prepared \in BOOLEAN /\ b.was_prepared \in BOOLEAN
  BY DEF TimerState
<1>4. /\ [a EXCEPT !["status"] = b["status"]] \in TimerState
      /\ [a EXCEPT !["start_time"] = b["start_time"]] \in TimerState
      /\ [a EXCEPT !["current_time"] = b["current_time"]] \in TimerState
      /\ [a EXCEPT !["was_prepared"] = b["was_prepared"]] \in TimerState
  BY <1>3, Zenon DEF TimerState
<1> QED BY <1>1, <1>2, <1>4, Zenon

(* Stepping to the next member keeps the counter in range.                 *)
LEMMA NextFieldType ==
  ASSUME TypeOK, NEW t \in Thread, NEW here \in PcLabel, NEW there \in PcLabel,
         NextField(t, here, there)
  PROVE  /\ field' \in [Thread -> 1 .. Len(Fields)]
         /\ \E label \in {here, there} : pc' = [pc EXCEPT ![t] = label]
         /\ pc' \in [Thread -> PcLabel]
<1>1. Len(Fields) = 4
  BY DEF Fields
<1>2. field[t] \in 1 .. 4
  BY <1>1 DEF TypeOK
<1>3. (IF field[t] = 4 THEN 1 ELSE field[t] + 1) \in 1 .. 4
  BY <1>2
<1> QED BY <1>1, <1>3 DEF NextField, Goto, TypeOK

(* The events the callers make.                                            *)
LEMMA OfferedTypes ==
  ASSUME TypeOK, now < MaxNow, NEW t \in Thread
  PROVE  /\ Offered(t) \subseteq EventEntry
         /\ Plain({"start"}, "movement") \subseteq EventEntry
         /\ Plain({"start"}, "combat") \subseteq EventEntry
         /\ [time : {now + 1}, type : {"map_change"}, source : {"other"},
             uuid : NewUuids, name : Name] \subseteq EventEntry
<1>1. now \in Nat /\ now + 1 \in Time /\ now \in 1 .. MaxNow
  BY ClockAssumption, TimeMaxAssumption DEF TypeOK, Time
<1>2. NewUuids \subseteq Uuid
  BY <1>1, DrawAssumption DEF NewUuids
<1>3. ASSUME NEW types \in SUBSET EventType, NEW source \in EventSource
      PROVE  Plain(types, source) \subseteq EventEntry
  BY <1>1, <1>2, Zenon DEF Plain, EventEntry
<1>4. /\ Keys \cup {"segment_clear", "history_clear"} \in SUBSET EventType
      /\ Keys \in SUBSET EventType /\ {"stop"} \in SUBSET EventType
      /\ {"prepare"} \in SUBSET EventType /\ {"start"} \in SUBSET EventType
      /\ {"map_change"} \in SUBSET EventType /\ {"segment"} \in SUBSET EventType
      /\ "manual" \in EventSource /\ "combat" \in EventSource /\ "movement" \in EventSource
      /\ "other" \in EventSource
  BY DEF Keys, EventType, EventSource
<1>5. [time : {now + 1}, type : {"segment"}, source : {"combat"},
       uuid : RegionUuid, name : Name] \subseteq EventEntry
  BY <1>1, <1>4, RegionAssumption, Zenon DEF EventEntry
<1>6. [time : {now + 1}, type : {"map_change"}, source : {"other"},
       uuid : NewUuids, name : Name] \subseteq EventEntry
  BY <1>1, <1>2, <1>4, Zenon DEF EventEntry
<1>7. Offered(t) \subseteq EventEntry
  <2>1. /\ Plain(Keys \cup {"segment_clear", "history_clear"}, "manual") \subseteq EventEntry
        /\ Plain(Keys, "manual") \subseteq EventEntry
        /\ Plain({"stop"}, "combat") \subseteq EventEntry
        /\ Plain({"prepare"}, "other") \subseteq EventEntry
    BY <1>3, <1>4
  <2>2. Role[t] \in {"imgui", "window", "combat", "deferred"}
    BY RoleAssumption
  <2> HIDE DEF Plain
  <2> QED BY <1>5, <2>1, <2>2 DEF Offered
<1> QED BY <1>3, <1>4, <1>6, <1>7

(* Calling the store and looking at the timer, without the lock.           *)
LEMMA LookingStep ==
  ASSUME IInv, NEW t \in Thread,
         Look(t) \/ Refresh(t) \/ Clock(t) \/ SetTime(t) \/ Copy(t) \/ Rest(t) \/ Decide(t)
  PROVE  IInv'
<1>1. TypeOK /\ Carrying
  BY DEF IInv
<1>2. /\ pc \in [Thread -> PcLabel] /\ ev \in [Thread -> EventEntry \cup {NoEvent}]
      /\ snap \in [Thread -> TimerState] /\ state \in TimerState /\ now \in 1 .. MaxNow
  BY <1>1 DEF TypeOK
<1>3. ZeroState \in TimerState
  <2>1. 0 \in Instant /\ "stopped" \in TimerStatus /\ FALSE \in BOOLEAN
    BY TimeMaxAssumption DEF Instant, TimerStatus
  <2> QED BY <2>1, Zenon DEF ZeroState, TimerState
<1>4. now \in Instant
  BY <1>2, ClockAssumption, TimeMaxAssumption DEF Instant
<1>5. /\ [state EXCEPT !.current_time = snap[t].current_time] \in TimerState
      /\ [snap[t] EXCEPT !.current_time = now] \in TimerState
  <2>1. \A s \in TimerState, v \in Instant :
          [s EXCEPT !.current_time = v] \in TimerState /\ s.current_time \in Instant
    BY Zenon DEF TimerState
  <2> QED
    BY <1>2, <1>4, <2>1
<1>6. [state EXCEPT !.current_time = snap[t].current_time] \in TimerState
      /\ {"refresh", "clock", "set", "copy", "looked", "idle", "decide", "lock"} \subseteq Outside
  BY <1>5 DEF Outside, PcLabel
<1>7. CASE Look(t) \/ Refresh(t) \/ Clock(t) \/ SetTime(t) \/ Rest(t)
  <2>1. PICK here \in Outside : /\ pc' = [pc EXCEPT ![t] = here]
                              /\ here \in {"refresh", "clock", "set", "copy", "idle"}
    BY <1>6, <1>7 DEF Look, Refresh, Clock, SetTime, Rest, Goto
  <2>2. pc[t] \in Outside /\ UNCHANGED logVars /\ UNCHANGED <<ev, field, now, fileVars>>
    BY <1>6, <1>7 DEF Look, Refresh, Clock, SetTime, Rest
  <2>3. state' \in TimerState /\ snap' \in [Thread -> TimerState]
    <3>1. CASE Clock(t)
      <4>1. snap' = [snap EXCEPT ![t] = [snap[t] EXCEPT !.current_time = now]] /\ state' = state
        BY <1>2, <3>1 DEF Clock
      <4> QED
        BY <1>2, <1>5, <4>1
    <3>2. CASE ~ Clock(t)
      BY <1>2, <1>3, <1>6, <1>7, <3>2 DEF Look, Refresh, SetTime, Rest
    <3> QED
      BY <3>1, <3>2
  <2>4. TypeOK'
    BY <1>1, <2>1, <2>2, <2>3 DEF TypeOK, logVars, fileVars, Outside
  <2>5. Carrying'
    BY <1>1, <1>2, <2>1, <2>2 DEF Carrying
  <2> QED BY <2>1, <2>2, <2>4, <2>5, OutsideStep DEF IInv
<1>8. CASE Copy(t)
  <2>1. NextField(t, "copy", IF ev[t] = NoEvent THEN "looked" ELSE "decide")
        /\ pc[t] = "copy" /\ UNCHANGED <<logVars, state, ev, now, fileVars>>
    BY <1>8 DEF Copy
  <2>2. PICK here \in {"copy", IF ev[t] = NoEvent THEN "looked" ELSE "decide"} :
          pc' = [pc EXCEPT ![t] = here] /\ field' \in [Thread -> 1 .. Len(Fields)]
    BY <1>1, <2>1, NextFieldType DEF PcLabel
  <2>3. here \in Outside /\ pc[t] \in Outside
    BY <2>1 DEF Outside, PcLabel
  <2>4. snap' \in [Thread -> TimerState]
    <3>1. snap' = [snap EXCEPT ![t] = [snap[t] EXCEPT ![Member(t)] = state[Member(t)]]]
      BY <1>2, <1>8 DEF Copy
    <3>2. [snap[t] EXCEPT ![Member(t)] = state[Member(t)]] \in TimerState
      BY <1>1, <1>2, MemberType DEF Member, TypeOK
    <3> QED BY <1>2, <3>1, <3>2
  <2>5. TypeOK'
    BY <1>1, <2>1, <2>2, <2>3, <2>4 DEF TypeOK, logVars, fileVars, Outside
  <2>6. Carrying'
    BY <1>1, <1>2, <2>1, <2>2 DEF Carrying
  <2> QED BY <2>1, <2>2, <2>3, <2>5, <2>6, OutsideStep DEF IInv
<1>9. CASE Decide(t)
  <2>1. PICK here \in {"lock", "idle"} :
          /\ pc' = [pc EXCEPT ![t] = here]
          /\ \/ here = "lock" /\ ev' = ev
             \/ here = "idle" /\ ev' = [ev EXCEPT ![t] = NoEvent]
    BY <1>9 DEF Decide, Goto
  <2>2. /\ pc[t] = "decide" /\ pc[t] \in Outside /\ here \in Outside
        /\ snap' = [snap EXCEPT ![t] = ZeroState]
        /\ UNCHANGED <<logVars, state, field, now, fileVars>>
    BY <1>6, <1>9, <2>1 DEF Decide
  <2>3. ev' \in [Thread -> EventEntry \cup {NoEvent}]
    BY <1>2, <2>1
  <2>4. TypeOK'
    BY <1>1, <1>2, <1>3, <2>1, <2>2, <2>3 DEF TypeOK, logVars, fileVars, Outside
  <2>5. Carrying'
    BY <1>1, <1>2, <2>1, <2>2 DEF Carrying
  <2> QED BY <2>1, <2>2, <2>4, <2>5, OutsideStep DEF IInv
<1> QED BY <1>7, <1>8, <1>9

(* Making an event, and saving the log of a map.                           *)
FilesTyped == saving \subseteq SUBSET Uuid /\ saved \subseteq Uuid /\ unsaved \subseteq Uuid

LEMMA CallingStep ==
  ASSUME IInv, NEW t \in Thread,
         Send(t) \/ Move(t) \/ Activate(t) \/ ChangeMap(t) \/ Save(t) \/ Release(t)
  PROVE  IInv'
<1>1. TypeOK /\ Carrying
  BY DEF IInv
<1>2. /\ pc \in [Thread -> PcLabel] /\ ev \in [Thread -> EventEntry \cup {NoEvent}]
      /\ snap \in [Thread -> TimerState] /\ now \in 1 .. MaxNow /\ FilesTyped
  BY <1>1 DEF TypeOK, FilesTyped
<1>3. ZeroState \in TimerState
  <2>1. 0 \in Instant /\ "stopped" \in TimerStatus /\ FALSE \in BOOLEAN
    BY TimeMaxAssumption DEF Instant, TimerStatus
  <2> QED BY <2>1, Zenon DEF ZeroState, TimerState
<1>4. MapLog \subseteq Uuid
  <2>1. \A i \in 1 .. Len(entries) : entries[i] \in EventEntry
    BY <1>1 DEF TypeOK
  <2>2. \A i \in 1 .. Len(entries) : entries[i].uuid \in Uuid
    BY <2>1, EventTypes
  <2> QED BY <2>2 DEF MapLog
<1>5. SaveMapLog \/ Release(t) => FilesTyped'
  <2>1. \A copied \in Copies : copied \subseteq Uuid
    BY <1>4 DEF Copies
  <2>2. CopyIsMade => unsaved' \subseteq Uuid
    BY <1>2 DEF CopyIsMade, FilesTyped
  <2> QED
    BY <1>2, <2>1, <2>2 DEF SaveMapLog, Release, FilesTyped
<1>6. {"lock", "refresh", "save", "idle", "looked", "released"} \subseteq Outside
  BY DEF Outside, PcLabel
<1>7. CASE Send(t) \/ Move(t) \/ Activate(t) \/ ChangeMap(t)
  <2>1. now < MaxNow
    BY <1>7 DEF Send, Move, Activate, ChangeMap, Carry
  <2>2. \E e \in EventEntry : Carry(t, e)
    <3>1. CASE Send(t) \/ Move(t) \/ ChangeMap(t)
      BY <1>1, <2>1, <3>1, OfferedTypes DEF Send, Move, ChangeMap
    <3>2. CASE Activate(t)
      <4>1. PICK e \in Plain({"start"}, "combat"), tick \in Time : Carry(t, [e EXCEPT !.time = tick])
        BY <3>2 DEF Activate
      <4>2. e \in EventEntry
        BY <1>1, <2>1, OfferedTypes
      <4>3. [e EXCEPT !.time = tick] \in EventEntry
        BY <4>2, Zenon DEF EventEntry
      <4> QED BY <4>1, <4>3
    <3> QED BY <1>7, <3>1, <3>2
  <2>3. PICK e \in EventEntry : ev' = [ev EXCEPT ![t] = e] /\ now' = now + 1
    BY <2>2 DEF Carry
  <2>4. e # NoEvent /\ now' \in 1 .. MaxNow
    BY <1>2, <2>1, <2>3, NoneAssumption, ClockAssumption
  <2>5. PICK here \in Outside : pc' = [pc EXCEPT ![t] = here]
    BY <1>6, <1>7 DEF Send, Move, Activate, ChangeMap, Goto
  <2>6. /\ pc[t] \in Outside /\ UNCHANGED <<logVars, state, field>>
        /\ snap' = snap \/ snap' = [snap EXCEPT ![t] = ZeroState]
    BY <1>6, <1>7 DEF Send, Move, Activate, ChangeMap
  <2>7. FilesTyped'
    BY <1>2, <1>5, <1>7 DEF Send, Move, Activate, ChangeMap, FilesTyped, fileVars
  <2>8. TypeOK'
    BY <1>1, <1>2, <1>3, <2>3, <2>4, <2>5, <2>6, <2>7 DEF TypeOK, FilesTyped, logVars, Outside
  <2>9. Carrying'
    BY <1>1, <1>2, <2>3, <2>4, <2>5 DEF Carrying
  <2> QED BY <2>5, <2>6, <2>8, <2>9, OutsideStep DEF IInv
<1>8. CASE Save(t) \/ Release(t)
  <2>1. PICK here \in Outside :
          /\ pc' = [pc EXCEPT ![t] = here]
          /\ \/ here = "lock" /\ pc[t] = "save"
             \/ here = "released"
    BY <1>6, <1>8 DEF Save, Release, Goto
  <2>2. pc[t] \in Outside /\ UNCHANGED <<logVars, state, ev, snap, field, now>>
    BY <1>6, <1>8 DEF Save, Release
  <2>3. FilesTyped'
    BY <1>5, <1>8 DEF Save
  <2>4. TypeOK'
    BY <1>1, <1>2, <2>1, <2>2, <2>3 DEF TypeOK, FilesTyped, logVars, Outside
  <2>5. Carrying'
    BY <1>1, <1>2, <2>1, <2>2 DEF Carrying
  <2> QED BY <2>1, <2>2, <2>4, <2>5, OutsideStep DEF IInv
<1> QED BY <1>7, <1>8

(* Taking the lock: the log is sorted with the new event in it.            *)
LEMMA LockStep ==
  ASSUME IInv, NEW t \in Thread, Lock(t)
  PROVE  IInv'
<1>1. TypeOK /\ LockHeld /\ Carrying
  BY DEF IInv
<1>2. /\ pc[t] = "lock" /\ holder = NoThread /\ holder' = t /\ pc' = [pc EXCEPT ![t] = "eval"]
      /\ entries' \in SortedForms(Append(entries, ev[t]))
      /\ fsm' = FsmInit /\ cursor' = 0 /\ kept' = <<>>
      /\ UNCHANGED <<state, ev, snap, field, now, posted, fileVars>>
  BY DEF Lock, Goto
<1>3. /\ pc \in [Thread -> PcLabel] /\ ev[t] \in EventEntry /\ entries \in Seq(EventEntry)
  BY <1>1, <1>2 DEF TypeOK, Carrying
<1>4. entries' \in Seq(EventEntry) /\ Sorted(entries')
  <2>1. Append(entries, ev[t]) \in Seq(EventEntry)
    BY <1>3
  <2> QED BY <1>2, <2>1, SortedFormsFacts
<1>5. /\ fsm' \in Fsm /\ Ordered(fsm') /\ fsm'.segment_index <= Len(fsm'.segments)
      /\ fsm'.processed_uuids = {} /\ fsm'.status = "stopped"
  BY <1>2, FsmInitSound DEF Sound
<1>6. TypeOK'
  BY <1>1, <1>2, <1>3, <1>4, <1>5, EmptyLog DEF TypeOK, PcLabel, fileVars
<1>7. \A s \in Thread : pc[s] \notin {"eval", "store", "post"}
  BY <1>1, <1>2, NoneAssumption DEF LockHeld
<1>8. LockHeld' /\ Carrying' /\ Evaluating'
  BY <1>1, <1>2, <1>3, <1>7, NoneAssumption DEF LockHeld, Carrying, Evaluating
<1>9. LoopInvariant'
  BY <1>2, <1>4, <1>5, EmptyLog DEF LoopInvariant
<1>10. CanonicalOutside' /\ RunsOrdered' /\ SlotInBounds'
  BY <1>5, <1>8 DEF CanonicalOutside, RunsOrdered, SlotInBounds
<1> QED BY <1>6, <1>8, <1>9, <1>10 DEF IInv

(* One iteration of the loop.                                              *)
LEMMA IterateStep ==
  ASSUME IInv, NEW t \in Thread, Iterate(t)
  PROVE  IInv'
<1> DEFINE e == entries[cursor + 1]
<1>1. TypeOK /\ LockHeld /\ Carrying /\ LoopInvariant /\ RunsOrdered /\ SlotInBounds
  BY DEF IInv
<1>2. /\ pc[t] = "eval" /\ cursor < Len(entries) /\ cursor' = cursor + 1
      /\ fsm' = Iteration(fsm, e)
      /\ kept' = IF Relevant(fsm, e) THEN Append(kept, e) ELSE kept
      /\ UNCHANGED <<entries, holder, state, pc, ev, snap, field, now, posted, fileVars>>
  BY DEF Iterate
<1>3. holder = t /\ Evaluating
  BY <1>1, <1>2, NoneAssumption DEF LockHeld, Evaluating
<1>4. /\ entries \in Seq(EventEntry) /\ kept \in Seq(EventEntry) /\ cursor \in Nat
      /\ cursor + 1 \in 1 .. Len(entries) /\ e \in EventEntry
  BY <1>1, <1>2 DEF TypeOK
<1>5. Sound(fsm)
  BY <1>1 DEF TypeOK, RunsOrdered, SlotInBounds, Sound, fileVars
<1>6. /\ Sorted(entries) /\ Sorted(kept) /\ UniqueUuids(kept)
      /\ fsm.processed_uuids = UuidsOf(kept)
      /\ \A j \in cursor + 1 .. Len(entries) :
           /\ \A i \in 1 .. Len(kept) : ~ Before(entries[j], kept[i])
           /\ MarksBefore(fsm, entries[j].time)
  BY <1>1, <1>3 DEF LoopInvariant, MarksBefore
<1> HIDE DEF e
<1>7. MarksBefore(fsm, e.time) /\ \A i \in 1 .. Len(kept) : ~ Before(e, kept[i])
  BY <1>4, <1>6 DEF e
<1>8. /\ Sound(fsm') /\ MarksBefore(fsm', e.time)
      /\ fsm'.processed_uuids = IF Relevant(fsm, e) THEN fsm.processed_uuids \cup {e.uuid}
                                                    ELSE fsm.processed_uuids
  BY <1>2, <1>4, <1>5, <1>7, IterationSound
<1>9. /\ kept' \in Seq(EventEntry) /\ Sorted(kept') /\ UniqueUuids(kept')
      /\ fsm'.processed_uuids = UuidsOf(kept')
  <2>1. CASE Relevant(fsm, e)
    <3>1. e.uuid \notin UuidsOf(kept)
      BY <1>6, <2>1 DEF Relevant
    <3> QED BY <1>2, <1>4, <1>6, <1>7, <1>8, <2>1, <3>1, AppendKept
  <2>2. CASE ~ Relevant(fsm, e)
    BY <1>2, <1>4, <1>6, <1>8, <2>2
  <2> QED BY <2>1, <2>2
<1>10. ASSUME NEW j \in cursor + 2 .. Len(entries)
       PROVE  /\ ~ Before(entries[j], e) /\ e.time <= entries[j].time
              /\ \A i \in 1 .. Len(kept') : ~ Before(entries[j], kept'[i])
              /\ MarksBefore(fsm', entries[j].time)
  <2>1. j \in cursor + 1 .. Len(entries) /\ j \in 1 .. Len(entries) /\ cursor + 1 < j
    BY <1>4
  <2>2. ~ Before(entries[j], e)
    BY <1>4, <1>6, <2>1 DEF Sorted, e
  <2>3. e.time \in Int /\ entries[j].time \in Int
    <3>1. entries[j] \in EventEntry
      BY <1>4, <2>1
    <3> QED BY <1>4, <3>1, EventTypes
  <2>4. e.time <= entries[j].time
    BY <2>2, <2>3 DEF Before
  <2>5. \A i \in 1 .. Len(kept') : ~ Before(entries[j], kept'[i])
    <3>1. \A i \in 1 .. Len(kept) : ~ Before(entries[j], kept[i])
      BY <1>6, <2>1
    <3> QED BY <1>2, <1>4, <2>2, <3>1
  <2>6. MarksBefore(fsm', entries[j].time)
    <3>1. fsm'.start \in Int /\ fsm'.segment \in Int
      BY <1>8, FsmTypes DEF Sound
    <3> QED BY <1>8, <2>3, <2>4, <3>1 DEF MarksBefore
  <2> QED BY <2>2, <2>4, <2>5, <2>6
<1>11. TypeOK' /\ RunsOrdered' /\ SlotInBounds'
  BY <1>1, <1>2, <1>4, <1>8, <1>9 DEF TypeOK, RunsOrdered, SlotInBounds, Sound, fileVars
<1>12. LockHeld' /\ Carrying' /\ Evaluating'
  BY <1>1, <1>2, <1>3 DEF LockHeld, Carrying, Evaluating
<1>13. LoopInvariant'
  <2>1. cursor' = cursor + 1 /\ entries' = entries /\ cursor' <= Len(entries')
    BY <1>2, <1>4
  <2>2. \A j \in cursor' + 1 .. Len(entries') :
          /\ \A i \in 1 .. Len(kept') : ~ Before(entries'[j], kept'[i])
          /\ fsm'.status = "running" =>
               fsm'.start <= entries'[j].time /\ fsm'.segment <= entries'[j].time
    BY <1>4, <1>10, <2>1 DEF MarksBefore
  <2> QED BY <1>6, <1>9, <2>1, <2>2 DEF LoopInvariant
<1>14. CanonicalOutside'
  BY <1>12 DEF CanonicalOutside
<1> QED BY <1>11, <1>12, <1>13, <1>14 DEF IInv

(* The rest of add_event: erase, store the outcome, hand the event over.   *)
LEMMA EraseStep ==
  ASSUME IInv, NEW t \in Thread, Erase(t)
  PROVE  IInv'
<1>1. TypeOK /\ LockHeld /\ Carrying /\ LoopInvariant /\ RunsOrdered /\ SlotInBounds
  BY DEF IInv
<1>2. /\ pc[t] = "eval" /\ entries' = kept /\ pc' = [pc EXCEPT ![t] = "store"]
      /\ UNCHANGED <<fsm, cursor, kept, holder, state, ev, snap, field, now, posted, fileVars>>
  BY DEF Erase, Goto
<1>3. holder = t /\ Evaluating /\ pc \in [Thread -> PcLabel]
  BY <1>1, <1>2, NoneAssumption DEF LockHeld, Evaluating, TypeOK
<1>4. Sorted(kept) /\ UniqueUuids(kept) /\ fsm.processed_uuids = UuidsOf(kept)
  BY <1>1, <1>3 DEF LoopInvariant
<1>5. TypeOK'
  BY <1>1, <1>2, <1>3 DEF TypeOK, PcLabel, fileVars
<1>6. LockHeld' /\ Carrying' /\ ~ Evaluating'
  BY <1>1, <1>2, <1>3 DEF LockHeld, Carrying, Evaluating
<1>7. LoopInvariant' /\ CanonicalOutside'
  BY <1>2, <1>4, <1>6 DEF LoopInvariant, CanonicalOutside
<1> QED BY <1>1, <1>2, <1>5, <1>6, <1>7 DEF IInv, RunsOrdered, SlotInBounds

(* Storing the outcome and posting the event release a canonical log.      *)
LEMMA CommitStep ==
  ASSUME IInv, NEW t \in Thread, Store(t) \/ Post(t)
  PROVE  IInv'
<1>1. TypeOK /\ LockHeld /\ Carrying /\ CanonicalOutside /\ RunsOrdered /\ SlotInBounds
  BY DEF IInv
<1>2. pc[t] \in {"store", "post"}
  BY DEF Store, Post
<1>3. holder = t /\ pc \in [Thread -> PcLabel] /\ ~ Evaluating
  BY <1>1, <1>2 DEF LockHeld, TypeOK, Evaluating
<1>4. Sorted(entries) /\ UniqueUuids(entries) /\ fsm.processed_uuids = UuidsOf(entries)
  BY <1>1, <1>3 DEF CanonicalOutside
<1>5. UNCHANGED <<entries, fsm, cursor, kept, snap, now, saving, saved>>
  BY DEF Store, Post, logVars, fileVars
<1>6. CASE Store(t)
  <2>1. NextField(t, "store", "post") /\ UNCHANGED <<holder, ev, posted, unsaved>>
        /\ state' = [state EXCEPT ![Member(t)] = Result(fsm)[Member(t)]]
    BY <1>6 DEF Store, logVars, fileVars
  <2>2. PICK here \in {"store", "post"} :
          pc' = [pc EXCEPT ![t] = here] /\ field' \in [Thread -> 1 .. Len(Fields)]
    BY <1>1, <2>1, NextFieldType DEF PcLabel
  <2>3. Result(fsm) \in TimerState
    <3>1. fsm \in Fsm
      BY <1>1 DEF TypeOK
    <3>2. fsm.status \in TimerStatus /\ fsm.start \in Instant /\ fsm.stop \in Instant
          /\ fsm.was_prepared \in BOOLEAN
      BY <3>1, FsmTypes
    <3> QED BY <3>2, Zenon DEF Result, TimerState
  <2>4. state' \in TimerState
    <3>1. state \in TimerState /\ field[t] \in 1 .. Len(Fields)
      BY <1>1 DEF TypeOK
    <3> QED BY <2>1, <2>3, <3>1, MemberType DEF Member
  <2>5. TypeOK'
    BY <1>1, <1>5, <2>1, <2>2, <2>4 DEF TypeOK, PcLabel, fileVars
  <2>6. LockHeld' /\ Carrying' /\ ~ Evaluating'
    BY <1>1, <1>2, <1>3, <2>1, <2>2 DEF LockHeld, Carrying, Evaluating
  <2> QED BY <1>1, <1>4, <1>5, <2>5, <2>6
          DEF IInv, LoopInvariant, CanonicalOutside, RunsOrdered, SlotInBounds
<1>7. CASE Post(t)
  <2>1. /\ posted' = Append(posted, ev[t]) /\ ev' = [ev EXCEPT ![t] = NoEvent]
        /\ holder' = NoThread /\ pc' = [pc EXCEPT ![t] = "idle"]
        /\ unsaved' = unsaved \cup {ev[t].uuid} /\ UNCHANGED <<state, field>>
    BY <1>7 DEF Post, Goto
  <2>2. ev[t] \in EventEntry /\ ev[t].uuid \in Uuid
    BY <1>1, <1>2, EventTypes DEF Carrying, TypeOK
  <2>3. TypeOK'
    BY <1>1, <1>5, <2>1, <2>2 DEF TypeOK, PcLabel, fileVars
  <2>4. LockHeld' /\ Carrying' /\ ~ Evaluating'
    BY <1>1, <1>3, <2>1, NoneAssumption DEF LockHeld, Carrying, Evaluating, TypeOK
  <2> QED BY <1>1, <1>4, <1>5, <2>3, <2>4
          DEF IInv, LoopInvariant, CanonicalOutside, RunsOrdered, SlotInBounds
<1> QED BY <1>6, <1>7

(* The clock and the threads that write files disturb nothing.             *)
Aside == Tick \/ UNCHANGED vars \/ \E copied \in saving : WriteLog(copied)

LEMMA AsideStep ==
  ASSUME IInv, Aside
  PROVE  IInv'
<1>1. UNCHANGED <<logVars, state, pc, ev, snap, field>>
  BY DEF Aside, Tick, WriteLog, vars
<1>2. now' \in 1 .. MaxNow
  BY ClockAssumption DEF IInv, TypeOK, Aside, Tick, WriteLog, vars
<1>3. saving' \subseteq SUBSET Uuid /\ saved' \subseteq Uuid /\ unsaved' \subseteq Uuid
  <2>1. CASE Tick \/ UNCHANGED vars
    BY <2>1 DEF IInv, TypeOK, Tick, vars, fileVars
  <2>2. ASSUME NEW copied \in saving, WriteLog(copied)
        PROVE  saving' \subseteq SUBSET Uuid /\ saved' \subseteq Uuid /\ unsaved' \subseteq Uuid
    BY <2>2 DEF IInv, TypeOK, WriteLog
  <2> QED
    BY <2>1, <2>2 DEF Aside
<1> QED BY <1>1, <1>2, <1>3 DEF IInv, TypeOK, LockHeld, Carrying, LoopInvariant,
                               CanonicalOutside, RunsOrdered, SlotInBounds, Evaluating, logVars

(* Every step of every thread preserves the invariant.                     *)
LEMMA NextInvariant == IInv /\ [Next]_vars => IInv'
<1> SUFFICES ASSUME IInv, [Next]_vars PROVE IInv'
  OBVIOUS
<1>1. CASE Aside
  BY <1>1, AsideStep
<1>2. ASSUME NEW t \in Thread, Run(t) PROVE IInv'
  BY <1>2, LookingStep, CallingStep, LockStep, IterateStep, EraseStep, CommitStep DEF Run
<1>3. ASSUME NEW t \in Thread, Call(t) PROVE IInv'
  BY <1>3, LookingStep, CallingStep DEF Call
<1> QED BY <1>1, <1>2, <1>3 DEF Next, Aside

(* The invariant holds of every behaviour of the store.                    *)
THEOREM Invariance == Spec => []IInv
<1>1. Init => IInv
  BY InitInvariant
<1>2. IInv /\ [Next]_vars => IInv'
  BY NextInvariant
<1> QED BY <1>1, <1>2, PTL DEF Spec

(* The variables hold what their declarations say, whatever the threads do.*)
THEOREM TypeCorrect == Spec => []TypeOK
<1>1. IInv => TypeOK
  BY DEF IInv
<1> QED BY <1>1, Invariance, PTL

(* The log is canonical whenever log_mutex is free (reevaluate_state).     *)
THEOREM LogIsCanonical == Spec => []LogCanonical
<1>1. IInv => LogCanonical
  BY DEF IInv, CanonicalOutside, LogCanonical, Evaluating
<1> QED BY <1>1, Invariance, PTL

(* No run and no segment ends before it begins, for any lag of the ticks   *)
(* and any number of events (eventstore.cpp:162, 170, 187).                *)
THEOREM RunsAreOrdered == Spec => []RunsOrdered
<1>1. IInv => RunsOrdered
  BY DEF IInv
<1> QED BY <1>1, Invariance, PTL

(* The slot a stop or a segment fills exists (eventstore.cpp:168, 185).    *)
THEOREM SlotsAreInBounds == Spec => []SlotInBounds
<1>1. IInv => SlotInBounds
  BY DEF IInv
<1> QED BY <1>1, Invariance, PTL

-----------------------------------------------------------------------------
(* What is handed over to the group.                                       *)

(* A generated uuid is neither posted nor carried.                         *)
LEMMA NewUuidIsFresh ==
  ASSUME NEW u \in NewUuids
  PROVE  /\ u \notin UuidsOf(posted) /\ u \notin RegionUuid
         /\ \A s \in Thread : ev[s] # NoEvent => ev[s].uuid # u
BY DEF NewUuids, UuidsOf, ToSet, Carried

(* A step that leaves the log alone and changes at most what one thread    *)
(* carries, to nothing or to a fresh event.                                *)
LEMMA CarryingKeepsPosted ==
  ASSUME PostInv, IInv', NEW t \in Thread, UNCHANGED logVars, Evaluating' = Evaluating,
         pc[t] \in Outside,
         \/ ev' = ev
         \/ ev' = [ev EXCEPT ![t] = NoEvent]
         \/ \E e \in EventEntry :
              ev' = [ev EXCEPT ![t] = e] /\ (e.uuid \in RegionUuid \/ e.uuid \in NewUuids)
  PROVE  PostInv'
<1>1. ev \in [Thread -> EventEntry \cup {NoEvent}] /\ holder # t
  BY DEF PostInv, IInv, TypeOK, LockHeld, Outside
<1>2. holder # NoThread => holder \in Thread
  BY DEF PostInv, IInv, TypeOK
<1>3. EntriesArePosted'
  <2>1. holder # NoThread => ev'[holder] = ev[holder]
    BY <1>1, <1>2
  <2> QED BY <2>1 DEF PostInv, EntriesArePosted, logVars
<1>4. KeptAreEntries'
  BY DEF PostInv, KeptAreEntries, logVars
<1>5. CarriedAreFresh'
  <2>1. CASE ev' = ev \/ ev' = [ev EXCEPT ![t] = NoEvent]
    BY <1>1, <2>1 DEF PostInv, CarriedAreFresh, logVars
  <2>2. CASE \E e \in EventEntry :
               ev' = [ev EXCEPT ![t] = e] /\ (e.uuid \in RegionUuid \/ e.uuid \in NewUuids)
    <3>1. PICK e \in EventEntry :
            ev' = [ev EXCEPT ![t] = e] /\ (e.uuid \in RegionUuid \/ e.uuid \in NewUuids)
      BY <2>2
    <3>2. ev'[t] = e /\ \A s \in Thread \ {t} : ev'[s] = ev[s]
      BY <1>1, <3>1
    <3>3. posted' = posted
      BY DEF logVars
    <3>4. CASE e.uuid \in NewUuids
      BY <3>2, <3>3, <3>4, NewUuidIsFresh DEF PostInv, CarriedAreFresh
    <3>5. CASE e.uuid \in RegionUuid
      BY <3>2, <3>3, <3>5 DEF PostInv, CarriedAreFresh
    <3> QED BY <3>1, <3>4, <3>5
  <2> QED BY <2>1, <2>2
<1> QED BY <1>3, <1>4, <1>5 DEF PostInv

(* What the callers send is fresh, or a region's.                          *)
LEMMA SentIsFresh ==
  ASSUME PostInv, NEW t \in Thread,
         Send(t) \/ Move(t) \/ Activate(t) \/ ChangeMap(t)
  PROVE  \E e \in EventEntry :
           /\ ev' = [ev EXCEPT ![t] = e]
           /\ (e.uuid \in RegionUuid /\ e.type = "segment") \/ e.uuid \in NewUuids
<1>1. TypeOK /\ now < MaxNow
  BY DEF PostInv, IInv, Send, Move, Activate, ChangeMap, Carry
<1>2. ASSUME NEW types, NEW source, NEW e \in Plain(types, source)
      PROVE  e.uuid \in NewUuids
  BY <1>2 DEF Plain
<1>3. CASE Send(t)
  <2>1. PICK e \in Offered(t) : ev' = [ev EXCEPT ![t] = e]
    BY <1>3 DEF Send, Carry
  <2>2. Role[t] \in {"imgui", "window", "combat", "deferred"}
    BY RoleAssumption
  <2>3. \/ e.uuid \in RegionUuid /\ e.type = "segment"
        \/ \E types, source : e \in Plain(types, source)
    <3> HIDE DEF Plain
    <3> QED BY <2>1, <2>2 DEF Offered
  <2> QED BY <1>1, <1>2, <2>1, <2>3, OfferedTypes
<1>4. CASE Move(t)
  BY <1>1, <1>2, <1>4, OfferedTypes DEF Move, Carry
<1>5. CASE Activate(t)
  <2>1. PICK e \in Plain({"start"}, "combat"), tick \in Time :
          ev' = [ev EXCEPT ![t] = [e EXCEPT !.time = tick]]
    BY <1>5 DEF Activate, Carry
  <2>2. e \in EventEntry /\ e.uuid \in NewUuids
    BY <1>1, <1>2, OfferedTypes
  <2>3. [e EXCEPT !.time = tick] \in EventEntry /\ [e EXCEPT !.time = tick].uuid = e.uuid
    BY <2>2, Zenon DEF EventEntry
  <2> QED BY <2>1, <2>2, <2>3
<1>6. CASE ChangeMap(t)
  BY <1>1, <1>6, OfferedTypes DEF ChangeMap, Carry
<1> QED BY <1>3, <1>4, <1>5, <1>6

(* Every step preserves what is known of the posted events.                *)
LEMMA NextPostInvariant == PostInv /\ IInv' /\ [Next]_vars => PostInv'
<1> SUFFICES ASSUME PostInv, IInv', [Next]_vars PROVE PostInv'
  OBVIOUS
<1>1. CASE Aside
  <2>1. UNCHANGED <<logVars, pc, ev>>
    BY <1>1 DEF Aside, Tick, WriteLog, vars
  <2> QED BY <2>1 DEF PostInv, EntriesArePosted, KeptAreEntries, CarriedAreFresh, Evaluating, logVars
<1>2. ASSUME NEW t \in Thread,
             Look(t) \/ Refresh(t) \/ Clock(t) \/ SetTime(t) \/ Copy(t) \/ Rest(t) \/ Decide(t)
             \/ Send(t) \/ Move(t) \/ Activate(t) \/ ChangeMap(t) \/ Save(t) \/ Release(t)
      PROVE  PostInv'
  <2>1. pc[t] \in Outside /\ UNCHANGED logVars
    BY <1>2 DEF Look, Refresh, Clock, SetTime, Copy, Rest, Decide, Send, Move, Activate, ChangeMap,
                Save, Release, Outside, PcLabel
  <2>2. Evaluating' = Evaluating
    <3>1. holder' = holder /\ holder # t
      BY <2>1 DEF logVars, PostInv, IInv, LockHeld, Outside
    <3>2. \A s \in Thread \ {t} : pc'[s] = pc[s]
      BY <1>2 DEF Look, Refresh, Clock, SetTime, Copy, Rest, Decide, Send, Move, Activate, ChangeMap,
                  Save, Release, Goto, NextField, PostInv, IInv, TypeOK
    <3> QED BY <3>1, <3>2 DEF Evaluating, PostInv, IInv, TypeOK
  <2>3. \/ ev' = ev
        \/ ev' = [ev EXCEPT ![t] = NoEvent]
        \/ \E e \in EventEntry :
             ev' = [ev EXCEPT ![t] = e] /\ (e.uuid \in RegionUuid \/ e.uuid \in NewUuids)
    <3>1. CASE Send(t) \/ Move(t) \/ Activate(t) \/ ChangeMap(t)
      BY <3>1, SentIsFresh
    <3>2. CASE ~ (Send(t) \/ Move(t) \/ Activate(t) \/ ChangeMap(t))
      BY <1>2, <3>2 DEF Look, Refresh, Clock, SetTime, Copy, Rest, Decide, Save, Release
    <3> QED BY <3>1, <3>2
  <2> QED BY <2>1, <2>2, <2>3, CarryingKeepsPosted
<1>3. ASSUME NEW t \in Thread, Lock(t) PROVE PostInv'
  <2>1. /\ pc[t] = "lock" /\ holder = NoThread /\ holder' = t
        /\ entries' \in SortedForms(Append(entries, ev[t])) /\ kept' = <<>>
        /\ UNCHANGED <<ev, posted>>
    BY <1>3 DEF Lock
  <2>2. /\ ev[t] \in EventEntry /\ entries \in Seq(EventEntry)
        /\ Append(entries, ev[t]) \in Seq(EventEntry)
    BY <2>1 DEF PostInv, IInv, Carrying, TypeOK
  <2>3. \A i \in 1 .. Len(entries') :
          entries'[i] = ev[t] \/ \E j \in 1 .. Len(entries) : entries'[i] = entries[j]
    <3>1. \A i \in 1 .. Len(entries') :
            \E j \in 1 .. Len(Append(entries, ev[t])) : entries'[i] = Append(entries, ev[t])[j]
      BY <2>1, <2>2, SortedFormsFacts
    <3> QED BY <2>2, <3>1
  <2>4. EntriesArePosted'
    BY <2>1, <2>3, NoneAssumption DEF PostInv, EntriesArePosted
  <2>5. KeptAreEntries' /\ CarriedAreFresh'
    BY <2>1 DEF PostInv, KeptAreEntries, CarriedAreFresh
  <2> QED BY <2>4, <2>5 DEF PostInv
<1>4. ASSUME NEW t \in Thread, Iterate(t) PROVE PostInv'
  <2> DEFINE e == entries[cursor + 1]
  <2>1. /\ pc[t] = "eval" /\ cursor < Len(entries)
        /\ kept' = kept \/ kept' = Append(kept, e)
        /\ UNCHANGED <<entries, holder, pc, ev, posted>>
    BY <1>4 DEF Iterate
  <2>2. kept \in Seq(EventEntry) /\ cursor + 1 \in 1 .. Len(entries)
    BY <2>1 DEF PostInv, IInv, TypeOK
  <2>3. Evaluating
    BY <2>1, NoneAssumption DEF PostInv, IInv, LockHeld, Evaluating
  <2>4. KeptAreEntries'
    <3>1. \A i \in 1 .. Len(kept) : \E j \in 1 .. Len(entries) : kept[i] = entries[j]
      BY <2>3 DEF PostInv, KeptAreEntries
    <3>2. ASSUME NEW i \in 1 .. Len(kept')
          PROVE  \/ i \in 1 .. Len(kept) /\ kept'[i] = kept[i]
                 \/ kept'[i] = entries[cursor + 1]
      BY <2>1, <2>2
    <3>3. \A i \in 1 .. Len(kept') : \E j \in 1 .. Len(entries) : kept'[i] = entries[j]
      BY <2>2, <3>1, <3>2
    <3> QED
      BY <2>1, <3>3 DEF KeptAreEntries
  <2>5. EntriesArePosted' /\ CarriedAreFresh'
    BY <2>1 DEF PostInv, EntriesArePosted, CarriedAreFresh
  <2> QED BY <2>4, <2>5 DEF PostInv
<1>5. ASSUME NEW t \in Thread, Erase(t) PROVE PostInv'
  <2>1. /\ pc[t] = "eval" /\ entries' = kept /\ pc' = [pc EXCEPT ![t] = "store"]
        /\ UNCHANGED <<kept, holder, ev, posted>>
    BY <1>5 DEF Erase, Goto
  <2>2. Evaluating /\ ~ Evaluating'
    BY <2>1, NoneAssumption DEF PostInv, IInv, LockHeld, Evaluating, TypeOK
  <2>3. EntriesArePosted'
    BY <2>1, <2>2 DEF PostInv, EntriesArePosted, KeptAreEntries
  <2>4. KeptAreEntries' /\ CarriedAreFresh'
    BY <2>1, <2>2 DEF PostInv, KeptAreEntries, CarriedAreFresh
  <2> QED BY <2>3, <2>4 DEF PostInv
<1>6. ASSUME NEW t \in Thread, Store(t) PROVE PostInv'
  <2>1. UNCHANGED <<logVars, ev>> /\ pc[t] = "store"
    BY <1>6 DEF Store
  <2>2. ~ Evaluating /\ ~ Evaluating'
    BY <1>6, <2>1 DEF PostInv, IInv, LockHeld, Evaluating, TypeOK, Store, NextField, Goto, logVars
  <2> QED BY <2>1, <2>2 DEF PostInv, EntriesArePosted, KeptAreEntries, CarriedAreFresh, logVars
<1>7. ASSUME NEW t \in Thread, Post(t) PROVE PostInv'
  <2>1. /\ pc[t] = "post" /\ posted' = Append(posted, ev[t]) /\ ev' = [ev EXCEPT ![t] = NoEvent]
        /\ holder' = NoThread /\ UNCHANGED <<entries, kept>>
    BY <1>7 DEF Post
  <2>2. /\ holder = t /\ ev[t] \in EventEntry /\ posted \in Seq(EventEntry)
        /\ ev[t] # NoEvent /\ ev \in [Thread -> EventEntry \cup {NoEvent}]
    BY <2>1 DEF PostInv, IInv, LockHeld, Carrying, TypeOK
  <2>3. /\ Len(posted') = Len(posted) + 1 /\ posted'[Len(posted) + 1] = ev[t]
        /\ \A j \in 1 .. Len(posted) : posted'[j] = posted[j]
        /\ Len(posted) \in Nat
    BY <2>1, <2>2
  <2>4. \A i \in 1 .. Len(entries') : \E j \in 1 .. Len(posted') : posted'[j] = entries'[i]
    <3> TAKE i \in 1 .. Len(entries')
    <3>1. CASE \E j \in 1 .. Len(posted) : posted[j] = entries[i]
      BY <2>1, <2>3, <3>1
    <3>2. CASE ev[t] = entries[i]
      <4>1. Len(posted) + 1 \in 1 .. Len(posted')
        BY <2>3
      <4> QED BY <2>1, <2>3, <3>2, <4>1
    <3> QED BY <2>1, <2>2, <3>1, <3>2 DEF PostInv, EntriesArePosted
  <2>5. \A i, j \in 1 .. Len(posted') :
          posted'[i].uuid = posted'[j].uuid => i = j \/ posted'[i].uuid \in RegionUuid
    <3> SUFFICES ASSUME NEW i \in 1 .. Len(posted'), NEW j \in 1 .. Len(posted'),
                        posted'[i].uuid = posted'[j].uuid, posted'[i].uuid \notin RegionUuid
                 PROVE  i = j
      OBVIOUS
    <3>1. ev[t].uuid \notin RegionUuid => \A n \in 1 .. Len(posted) : posted[n].uuid # ev[t].uuid
      BY <2>2 DEF PostInv, CarriedAreFresh, UuidsOf
    <3>2. CASE i \in 1 .. Len(posted) /\ j \in 1 .. Len(posted)
      BY <2>3, <3>2 DEF PostInv, EntriesArePosted
    <3>3. CASE i = Len(posted) + 1 \/ j = Len(posted) + 1
      BY <2>3, <3>1, <3>3
    <3> QED BY <2>3, <3>2, <3>3
  <2>6. EntriesArePosted'
    BY <2>4, <2>5 DEF EntriesArePosted
  <2>7. KeptAreEntries'
    BY <2>1 DEF KeptAreEntries, Evaluating
  <2>8. CarriedAreFresh'
    <3>1. UuidsOf(posted') = UuidsOf(posted) \cup {ev[t].uuid}
      BY <2>3 DEF UuidsOf
    <3>2. ev'[t] = NoEvent /\ \A s \in Thread \ {t} : ev'[s] = ev[s]
      BY <2>1, <2>2
    <3> QED BY <2>2, <3>1, <3>2 DEF PostInv, CarriedAreFresh
  <2> QED BY <2>6, <2>7, <2>8 DEF PostInv
<1> QED BY <1>1, <1>2, <1>3, <1>4, <1>5, <1>6, <1>7 DEF Next, Run, Call, Aside

(* The empty store has nothing to hand over.                               *)
LEMMA InitPostInvariant == Init => PostInv
<1> SUFFICES ASSUME Init PROVE PostInv
  OBVIOUS
<1>1. entries = <<>> /\ kept = <<>> /\ posted = <<>> /\ \A t \in Thread : ev[t] = NoEvent
  BY DEF Init
<1>2. EntriesArePosted /\ KeptAreEntries /\ CarriedAreFresh
  BY <1>1, EmptyLog DEF EntriesArePosted, KeptAreEntries, CarriedAreFresh
<1> QED BY <1>2, InitInvariant DEF PostInv

(* What is in the log has been handed to the group, and no generated event *)
(* is handed over twice, whatever the threads do (add_event).              *)
THEOREM EntriesAreHandedOver == Spec => []EntriesArePosted
<1>1. Init => PostInv
  BY InitPostInvariant
<1>2. PostInv /\ [Next]_vars => PostInv'
  BY NextInvariant, NextPostInvariant DEF PostInv
<1>3. PostInv => EntriesArePosted
  BY DEF PostInv
<1> QED BY <1>1, <1>2, <1>3, PTL DEF Spec

-----------------------------------------------------------------------------
(* What the log files miss.  An entry that follows every map_change of the *)
(* log is in a copy, or newer than the copies, or just being added.        *)

Among(s) == {s[i] : i \in 1 .. Len(s)}

Follows(e, S) == \A m \in S : m.type = "map_change" => Before(m, e)

OnFile == saved \cup unsaved \cup UNION saving

Covered ==
  \A e \in Among(entries) :
    Follows(e, Among(entries)) =>
      e.uuid \in OnFile \/ (holder # NoThread /\ e.uuid = ev[holder].uuid)

(* Only segments repeat uuids, and the loop keeps every map_change.        *)
RegionsSplit ==
  /\ \A e \in Among(entries) : e.uuid \in RegionUuid => e.type = "segment"
  /\ \A t \in Thread : ev[t] # NoEvent /\ ev[t].uuid \in RegionUuid => ev[t].type = "segment"

ChangesDiffer ==
  \A a, b \in Among(entries) : a.type = "map_change" /\ a.uuid = b.uuid => a = b

ChangesKept ==
  Evaluating =>
    \A j \in 1 .. cursor : entries[j].type = "map_change" => entries[j] \in Among(kept)

FilesInv == RegionsSplit /\ ChangesDiffer /\ ChangesKept /\ Covered

(* Of two entries with different uuids one is before the other.            *)
LEMMA OneIsBefore ==
  ASSUME NEW a \in EventEntry, NEW b \in EventEntry, a.uuid # b.uuid
  PROVE  Before(a, b) \/ Before(b, a)
<1>1. a.time \in Int /\ b.time \in Int /\ a.uuid \in Nat /\ b.uuid \in Nat
  BY EventTypes, UuidAssumption
<1> QED
  BY <1>1 DEF Before

(* In a log at rest, to follow every map_change is to have none behind.    *)
LEMMA CurrentEntries ==
  ASSUME entries \in Seq(EventEntry), Sorted(entries), UniqueUuids(entries),
         NEW i \in 1 .. Len(entries)
  PROVE  Follows(entries[i], Among(entries))
           <=> \A k \in i .. Len(entries) : entries[k].type # "map_change"
<1>1. Len(entries) \in Nat /\ \A k \in 1 .. Len(entries) : entries[k] \in EventEntry
  OBVIOUS
<1>2. ASSUME Follows(entries[i], Among(entries)), NEW k \in i .. Len(entries),
             entries[k].type = "map_change"
      PROVE  FALSE
  <2>1. k \in 1 .. Len(entries) /\ (k = i \/ i < k)
    BY <1>1
  <2>2. Before(entries[k], entries[i])
    BY <1>2, <2>1 DEF Follows, Among
  <2>3. k = i
    BY <2>1, <2>2 DEF Sorted
  <2>4. entries[i].time \in Int /\ entries[i].uuid \in Nat
    BY <1>1, EventTypes, UuidAssumption
  <2> QED
    BY <2>2, <2>3, <2>4 DEF Before
<1>3. ASSUME \A k \in i .. Len(entries) : entries[k].type # "map_change",
             NEW k \in 1 .. Len(entries), entries[k].type = "map_change"
      PROVE  Before(entries[k], entries[i])
  <2>1. k < i
    BY <1>1, <1>3
  <2>2. ~ Before(entries[i], entries[k]) /\ entries[k].uuid # entries[i].uuid
    BY <2>1 DEF Sorted, UniqueUuids
  <2> QED
    BY <1>1, <2>2, OneIsBefore
<1>4. (\A k \in i .. Len(entries) : entries[k].type # "map_change")
        => Follows(entries[i], Among(entries))
  BY <1>3 DEF Follows, Among
<1> QED
  BY <1>2, <1>4

(* Sorting loses no entry.                                                 *)
LEMMA SortedFormsKeep ==
  ASSUME NEW q \in Seq(EventEntry), NEW s \in SortedForms(q)
  PROVE  Among(s) = Among(q)
<1>1. PICK p \in Orderings(Len(q)) : s = [i \in 1 .. Len(q) |-> q[p[i]]]
  BY DEF SortedForms
<1>2. /\ p \in [1 .. Len(q) -> 1 .. Len(q)]
      /\ \A j \in 1 .. Len(q) : \E i \in 1 .. Len(q) : p[i] = j
  BY DEF Orderings, Bijection, Injection, Surjection
<1>3. Len(s) = Len(q)
  BY SortedFormsFacts
<1>4. \A i \in 1 .. Len(q) : s[i] = q[p[i]] /\ p[i] \in 1 .. Len(q)
  BY <1>1, <1>2
<1>5. \A j \in 1 .. Len(q) : \E i \in 1 .. Len(q) : q[j] = s[i]
  <2> TAKE j \in 1 .. Len(q)
  <2>1. PICK i \in 1 .. Len(q) : p[i] = j
    BY <1>2
  <2> QED
    BY <2>1, <1>4
<1>6. ASSUME NEW e \in Among(s)
      PROVE  e \in Among(q)
  <2>1. PICK i \in 1 .. Len(q) : e = s[i]
    BY <1>3 DEF Among
  <2>2. e = q[p[i]] /\ p[i] \in 1 .. Len(q)
    BY <1>4, <2>1
  <2> QED
    BY <2>2 DEF Among
<1>7. ASSUME NEW e \in Among(q)
      PROVE  e \in Among(s)
  <2>1. PICK j \in 1 .. Len(q) : e = q[j]
    BY DEF Among
  <2>2. PICK i \in 1 .. Len(q) : q[j] = s[i]
    BY <1>5
  <2> QED
    BY <1>3, <2>1, <2>2 DEF Among
<1> QED
  BY <1>6, <1>7

(* An entry appended is one more.                                          *)
LEMMA AppendedIsAmong ==
  ASSUME NEW s \in Seq(EventEntry), NEW e \in EventEntry
  PROVE  Among(Append(s, e)) = Among(s) \cup {e}
<1>1. /\ Len(s) \in Nat /\ Len(Append(s, e)) = Len(s) + 1
      /\ Append(s, e)[Len(s) + 1] = e
      /\ \A i \in 1 .. Len(s) : Append(s, e)[i] = s[i]
  OBVIOUS
<1>2. ASSUME NEW x \in Among(Append(s, e))
      PROVE  x \in Among(s) \cup {e}
  <2>1. PICK i \in 1 .. Len(Append(s, e)) : x = Append(s, e)[i]
    BY DEF Among
  <2>2. i \in 1 .. Len(s) \/ i = Len(s) + 1
    BY <1>1
  <2>3. CASE i \in 1 .. Len(s)
    BY <1>1, <2>1, <2>3 DEF Among
  <2>4. CASE i = Len(s) + 1
    BY <1>1, <2>1, <2>4
  <2> QED
    BY <2>2, <2>3, <2>4
<1>3. ASSUME NEW x \in Among(s)
      PROVE  x \in Among(Append(s, e))
  <2>1. PICK i \in 1 .. Len(s) : x = s[i]
    BY DEF Among
  <2>2. i \in 1 .. Len(Append(s, e)) /\ x = Append(s, e)[i]
    BY <1>1, <2>1
  <2> QED
    BY <2>2 DEF Among
<1>4. e \in Among(Append(s, e))
  <2>1. Len(s) + 1 \in 1 .. Len(Append(s, e))
    BY <1>1
  <2> QED
    BY <1>1, <2>1 DEF Among
<1> QED
  BY <1>2, <1>3, <1>4

(* No more is missed after a step that copies the log as it is, or copies  *)
(* nothing, and leaves it alone.                                           *)
LEMMA CopiesCover ==
  ASSUME PostInv, Covered, UNCHANGED <<entries, holder>>,
         holder # NoThread => ev'[holder] = ev[holder],
         OnFile \subseteq OnFile' \/ (holder = NoThread /\ MapLog \subseteq OnFile')
  PROVE  Covered'
<1> SUFFICES ASSUME NEW e \in Among(entries), Follows(e, Among(entries))
             PROVE  e.uuid \in OnFile' \/ (holder # NoThread /\ e.uuid = ev[holder].uuid)
  BY DEF Covered, Among
<1>1. CASE OnFile \subseteq OnFile'
  BY <1>1 DEF Covered
<1>2. CASE holder = NoThread /\ MapLog \subseteq OnFile'
  <2>1. entries \in Seq(EventEntry) /\ Sorted(entries) /\ UniqueUuids(entries)
    BY <1>2 DEF PostInv, IInv, TypeOK, CanonicalOutside, Evaluating
  <2>2. PICK i \in 1 .. Len(entries) : e = entries[i]
    BY DEF Among
  <2>3. \A k \in i .. Len(entries) : entries[k].type # "map_change"
    BY <2>1, <2>2, CurrentEntries
  <2>4. e.uuid \in MapLog
    BY <2>2, <2>3 DEF MapLog
  <2> QED
    BY <1>2, <2>4
<1> QED
  BY <1>1, <1>2

(* What save_map_log and mod_release do to the files.                      *)
LEMMA LogIsCopied ==
  ASSUME CopyIsMade,
         SaveMapLog \/ \E copied \in Copies : saved' = saved \cup copied /\ saving' = saving
  PROVE  OnFile \subseteq OnFile' \/ (holder = NoThread /\ MapLog \subseteq OnFile')
<1>1. PICK copied \in Copies :
        \/ saving' = saving \cup ({copied} \ {{}}) /\ saved' = saved
        \/ saving' = saving /\ saved' = saved \cup copied
  BY DEF SaveMapLog
<1>2. CASE holder = NoThread
  <2>1. copied = MapLog
    BY <1>2 DEF Copies
  <2>2. copied \subseteq saved' \cup UNION saving'
    BY <1>1
  <2> QED
    BY <1>2, <2>1, <2>2 DEF OnFile
<1>3. CASE holder # NoThread
  <2>1. unsaved' = unsaved
    BY <1>3 DEF CopyIsMade
  <2> QED
    BY <1>1, <2>1 DEF OnFile
<1> QED
  BY <1>2, <1>3

(* Outside of the lock a step changes at most what a thread carries, and   *)
(* the files.                                                              *)
LEMMA OutsideFiles ==
  ASSUME PostInv, FilesInv, NEW t \in Thread,
         Look(t) \/ Refresh(t) \/ Clock(t) \/ SetTime(t) \/ Copy(t) \/ Rest(t) \/ Decide(t)
         \/ Send(t) \/ Move(t) \/ Activate(t) \/ ChangeMap(t) \/ Save(t) \/ Release(t)
  PROVE  FilesInv'
<1>1. pc[t] \in Outside /\ UNCHANGED logVars
  BY DEF Look, Refresh, Clock, SetTime, Copy, Rest, Decide, Send, Move, Activate, ChangeMap,
         Save, Release, Outside, PcLabel
<1>2. holder' = holder /\ holder # t /\ ev \in [Thread -> EventEntry \cup {NoEvent}]
      /\ (holder # NoThread => holder \in Thread)
  BY <1>1 DEF logVars, PostInv, IInv, LockHeld, Outside, TypeOK
<1>3. Evaluating' = Evaluating
  <2>1. \A s \in Thread \ {t} : pc'[s] = pc[s]
    BY DEF Look, Refresh, Clock, SetTime, Copy, Rest, Decide, Send, Move, Activate, ChangeMap,
           Save, Release, Goto, NextField, PostInv, IInv, TypeOK
  <2> QED
    BY <1>2, <2>1 DEF Evaluating
<1>4. \E e \in EventEntry \cup {NoEvent} :
        /\ ev' = [ev EXCEPT ![t] = e]
        /\ e # NoEvent /\ e.uuid \in RegionUuid => e.type = "segment"
  <2>1. CASE Send(t) \/ Move(t) \/ Activate(t) \/ ChangeMap(t)
    <3>1. PICK e \in EventEntry :
            /\ ev' = [ev EXCEPT ![t] = e]
            /\ (e.uuid \in RegionUuid /\ e.type = "segment") \/ e.uuid \in NewUuids
      BY <2>1, SentIsFresh
    <3> QED
      BY <3>1, NewUuidIsFresh
  <2>2. CASE Decide(t) /\ ev' = [ev EXCEPT ![t] = NoEvent]
    BY <2>2
  <2>3. CASE ev' = ev
    <3>1. ev' = [ev EXCEPT ![t] = ev[t]] /\ ev[t] \in EventEntry \cup {NoEvent}
      BY <1>2, <2>3
    <3> QED
      BY <3>1 DEF FilesInv, RegionsSplit
  <2> QED
    BY <2>1, <2>2, <2>3 DEF Look, Refresh, Clock, SetTime, Copy, Rest, Decide, Save, Release
<1>5. PICK e \in EventEntry \cup {NoEvent} :
        /\ ev' = [ev EXCEPT ![t] = e]
        /\ e # NoEvent /\ e.uuid \in RegionUuid => e.type = "segment"
  BY <1>4
<1>6. ev'[t] = e /\ \A s \in Thread \ {t} : ev'[s] = ev[s]
  BY <1>2, <1>5
<1>7. RegionsSplit'
  BY <1>1, <1>5, <1>6 DEF FilesInv, RegionsSplit, Among, logVars
<1>8. ChangesDiffer' /\ ChangesKept'
  BY <1>1, <1>3 DEF FilesInv, ChangesDiffer, ChangesKept, Among, logVars
<1>9. OnFile \subseteq OnFile' \/ (holder = NoThread /\ MapLog \subseteq OnFile')
  <2>1. CASE ChangeMap(t) \/ Save(t) \/ Release(t)
    <3>1. /\ CopyIsMade
          /\ \/ SaveMapLog
             \/ \E copied \in Copies : saved' = saved \cup copied /\ saving' = saving
      BY <2>1 DEF ChangeMap, Save, Release, SaveMapLog
    <3> QED
      BY <3>1, LogIsCopied
  <2>2. CASE UNCHANGED fileVars
    BY <2>2 DEF fileVars, OnFile
  <2> QED
    BY <2>1, <2>2 DEF Look, Refresh, Clock, SetTime, Copy, Rest, Decide, Send, Move, Activate
<1>10. Covered'
  BY <1>1, <1>2, <1>6, <1>9, CopiesCover DEF FilesInv, logVars
<1> QED
  BY <1>7, <1>8, <1>10 DEF FilesInv

(* The event a thread adds is no map_change that is in the log already.    *)
LEMMA LockFiles ==
  ASSUME PostInv, FilesInv, NEW t \in Thread, Lock(t)
  PROVE  FilesInv'
<1>1. /\ pc[t] = "lock" /\ holder = NoThread /\ holder' = t /\ cursor' = 0 /\ kept' = <<>>
      /\ entries' \in SortedForms(Append(entries, ev[t]))
      /\ UNCHANGED <<ev, posted, fileVars>>
  BY DEF Lock
<1>2. /\ ev[t] \in EventEntry /\ ev[t] # NoEvent /\ entries \in Seq(EventEntry)
      /\ Append(entries, ev[t]) \in Seq(EventEntry)
  BY <1>1 DEF PostInv, IInv, Carrying, TypeOK
<1>3. Among(entries') = Among(entries) \cup {ev[t]}
  <2>1. Among(entries') = Among(Append(entries, ev[t]))
    BY <1>1, <1>2, SortedFormsKeep
  <2>2. Among(Append(entries, ev[t])) = Among(entries) \cup {ev[t]}
    BY <1>2, AppendedIsAmong
  <2> QED
    BY <2>1, <2>2
<1>4. ASSUME NEW e \in Among(entries), e.uuid = ev[t].uuid
      PROVE  e.type = "segment" /\ ev[t].type = "segment"
  <2>1. e.uuid \in UuidsOf(posted)
    <3>1. PICK i \in 1 .. Len(entries) : e = entries[i]
      BY DEF Among
    <3>2. \E j \in 1 .. Len(posted) : posted[j] = e
      BY <1>1, <3>1 DEF PostInv, EntriesArePosted
    <3> QED
      BY <3>2 DEF UuidsOf
  <2>2. ev[t].uuid \in RegionUuid
    BY <1>2, <1>4, <2>1 DEF PostInv, CarriedAreFresh
  <2> QED
    BY <1>2, <1>4, <2>2 DEF FilesInv, RegionsSplit
<1>5. RegionsSplit'
  BY <1>1, <1>2, <1>3 DEF FilesInv, RegionsSplit
<1>6. ChangesDiffer'
  BY <1>3, <1>4 DEF FilesInv, ChangesDiffer
<1>7. ChangesKept'
  BY <1>1 DEF ChangesKept
<1>8. Covered'
  <2> SUFFICES ASSUME NEW e \in Among(entries'), Follows(e, Among(entries'))
               PROVE  e.uuid \in OnFile \/ (t # NoThread /\ e.uuid = ev[t].uuid)
    BY <1>1 DEF Covered, OnFile, fileVars
  <2>1. CASE e = ev[t]
    BY <2>1, NoneAssumption
  <2>2. CASE e \in Among(entries)
    <3>1. Follows(e, Among(entries))
      BY <1>3 DEF Follows
    <3> QED
      BY <1>1, <2>2, <3>1 DEF FilesInv, Covered
  <2> QED
    BY <1>3, <2>1, <2>2
<1> QED
  BY <1>5, <1>6, <1>7, <1>8 DEF FilesInv

(* An iteration drops no map_change but one it has kept already.           *)
LEMMA IterateFiles ==
  ASSUME PostInv, FilesInv, NEW t \in Thread, Iterate(t)
  PROVE  FilesInv'
<1> DEFINE e == entries[cursor + 1]
<1>1. /\ pc[t] = "eval" /\ cursor < Len(entries) /\ cursor' = cursor + 1
      /\ kept' = IF Relevant(fsm, e) THEN Append(kept, e) ELSE kept
      /\ UNCHANGED <<entries, holder, pc, ev, fileVars>>
  BY DEF Iterate
<1>2. /\ kept \in Seq(EventEntry) /\ cursor \in Nat /\ cursor + 1 \in 1 .. Len(entries)
      /\ e \in EventEntry /\ e \in Among(entries)
  BY <1>1 DEF PostInv, IInv, TypeOK, Among
<1>3. Evaluating
  BY <1>1, NoneAssumption DEF PostInv, IInv, LockHeld, Evaluating
<1>4. Among(kept) \subseteq Among(kept')
  <2>1. CASE kept' = Append(kept, e)
    BY <1>2, <2>1 DEF Among
  <2> QED
    BY <1>1, <2>1
<1>5. ASSUME e.type = "map_change" PROVE e \in Among(kept')
  <2>1. CASE Relevant(fsm, e)
    <3>1. kept' = Append(kept, e)
      BY <1>1, <2>1
    <3> HIDE DEF e
    <3>2. Len(kept') = Len(kept) + 1 /\ kept'[Len(kept) + 1] = e /\ Len(kept) \in Nat
      BY <1>2, <3>1
    <3> QED
      BY <3>2 DEF Among
  <2>2. CASE ~ Relevant(fsm, e)
    <3>1. e.uuid \in UuidsOf(kept)
      BY <1>3, <1>5, <2>2 DEF Relevant, PostInv, IInv, LoopInvariant
    <3>2. PICK i \in 1 .. Len(kept) : kept[i].uuid = e.uuid
      BY <3>1 DEF UuidsOf
    <3>3. kept[i] \in Among(entries)
      BY <1>3 DEF PostInv, KeptAreEntries, Among
    <3>4. kept[i] = e
      BY <1>2, <1>5, <3>2, <3>3 DEF FilesInv, ChangesDiffer
    <3> QED
      BY <1>1, <2>2, <3>4 DEF Among
  <2> QED
    BY <2>1, <2>2
<1>6. ChangesKept'
  <2> SUFFICES ASSUME NEW j \in 1 .. cursor + 1, entries[j].type = "map_change"
               PROVE  entries[j] \in Among(kept')
    BY <1>1 DEF ChangesKept
  <2>1. CASE j = cursor + 1
    BY <1>5, <2>1
  <2>2. CASE j # cursor + 1
    <3>1. j \in 1 .. cursor
      BY <1>2, <2>2
    <3> QED
      BY <1>3, <1>4, <3>1 DEF FilesInv, ChangesKept
  <2> QED
    BY <2>1, <2>2
<1>7. RegionsSplit' /\ ChangesDiffer' /\ Covered'
  BY <1>1 DEF FilesInv, RegionsSplit, ChangesDiffer, Covered, OnFile, fileVars
<1> QED
  BY <1>6, <1>7 DEF FilesInv

(* What stays after the erasure follows every map_change it followed.      *)
LEMMA EraseFiles ==
  ASSUME PostInv, FilesInv, NEW t \in Thread, Erase(t)
  PROVE  FilesInv'
<1>1. /\ pc[t] = "eval" /\ cursor = Len(entries) /\ entries' = kept
      /\ pc' = [pc EXCEPT ![t] = "store"] /\ UNCHANGED <<holder, ev, fileVars>>
  BY DEF Erase, Goto
<1>2. Evaluating /\ ~ Evaluating'
  BY <1>1, NoneAssumption DEF PostInv, IInv, LockHeld, Evaluating, TypeOK
<1>3. Among(kept) \subseteq Among(entries)
  BY <1>2 DEF PostInv, KeptAreEntries, Among
<1>4. \A m \in Among(entries) : m.type = "map_change" => m \in Among(kept)
  BY <1>1, <1>2 DEF FilesInv, ChangesKept, Among
<1>5. Covered'
  <2> SUFFICES ASSUME NEW e \in Among(kept), Follows(e, Among(kept))
               PROVE  e.uuid \in OnFile \/ (holder # NoThread /\ e.uuid = ev[holder].uuid)
    BY <1>1 DEF Covered, OnFile, fileVars
  <2>1. e \in Among(entries) /\ Follows(e, Among(entries))
    BY <1>3, <1>4 DEF Follows
  <2> QED
    BY <2>1 DEF FilesInv, Covered
<1>6. RegionsSplit' /\ ChangesDiffer'
  BY <1>1, <1>3 DEF FilesInv, RegionsSplit, ChangesDiffer
<1>7. ChangesKept'
  BY <1>2 DEF ChangesKept
<1> QED
  BY <1>5, <1>6, <1>7 DEF FilesInv

(* The event that was added is new to the files from now on.               *)
LEMMA PostFiles ==
  ASSUME PostInv, FilesInv, NEW t \in Thread, Post(t)
  PROVE  FilesInv'
<1>1. /\ pc[t] = "post" /\ ev' = [ev EXCEPT ![t] = NoEvent] /\ holder' = NoThread
      /\ unsaved' = unsaved \cup {ev[t].uuid} /\ UNCHANGED <<entries, saving, saved>>
  BY DEF Post
<1>2. holder = t /\ ev \in [Thread -> EventEntry \cup {NoEvent}]
  BY <1>1 DEF PostInv, IInv, LockHeld, TypeOK
<1>3. ev'[t] = NoEvent /\ \A s \in Thread \ {t} : ev'[s] = ev[s]
  BY <1>1, <1>2
<1>4. OnFile \subseteq OnFile' /\ ev[t].uuid \in OnFile'
  BY <1>1 DEF OnFile
<1>5. Covered'
  BY <1>1, <1>2, <1>4 DEF FilesInv, Covered
<1>6. RegionsSplit' /\ ChangesDiffer' /\ ChangesKept'
  BY <1>1, <1>3 DEF FilesInv, RegionsSplit, ChangesDiffer, ChangesKept, Evaluating
<1> QED
  BY <1>5, <1>6 DEF FilesInv

(* Every step preserves what is known of the files.                        *)
LEMMA NextFilesInvariant == PostInv /\ FilesInv /\ [Next]_vars => FilesInv'
<1> SUFFICES ASSUME PostInv, FilesInv, [Next]_vars PROVE FilesInv'
  OBVIOUS
<1>1. CASE Aside
  <2>1. UNCHANGED <<logVars, pc, ev>> /\ OnFile \subseteq OnFile'
    <3>1. CASE \E copied \in saving : WriteLog(copied)
      BY <3>1 DEF WriteLog, OnFile
    <3>2. CASE Tick \/ UNCHANGED vars
      BY <3>2 DEF Tick, vars, fileVars, OnFile
    <3> QED
      BY <1>1, <3>1, <3>2 DEF Aside, WriteLog
  <2>2. Covered'
    BY <2>1, CopiesCover DEF FilesInv, logVars
  <2> QED
    BY <2>1, <2>2 DEF FilesInv, RegionsSplit, ChangesDiffer, ChangesKept, Evaluating, Among, logVars
<1>2. ASSUME NEW t \in Thread, Store(t) PROVE FilesInv'
  <2>1. UNCHANGED <<logVars, ev, fileVars>> /\ pc[t] = "store"
    BY <1>2 DEF Store
  <2>2. ~ Evaluating /\ ~ Evaluating'
    BY <1>2, <2>1 DEF PostInv, IInv, LockHeld, Evaluating, TypeOK, Store, NextField, Goto, logVars
  <2>3. Covered'
    BY <2>1, CopiesCover DEF FilesInv, logVars, OnFile, fileVars
  <2> QED
    BY <2>1, <2>2, <2>3 DEF FilesInv, RegionsSplit, ChangesDiffer, ChangesKept, Among, logVars
<1> QED
  BY <1>1, <1>2, OutsideFiles, LockFiles, IterateFiles, EraseFiles, PostFiles
  DEF Next, Run, Call, Aside

(* The log files miss no event of a map but those that were added since a  *)
(* copy was made of a log that no thread was at work on, whichever threads *)
(* add events and write files, and in whatever order (save_map_log).       *)
THEOREM LogsMissNewsOnly == Spec => []LogsMissOnlyNews
<1>1. Init => PostInv /\ FilesInv
  <2> SUFFICES ASSUME Init PROVE FilesInv
    BY InitPostInvariant
  <2>1. entries = <<>> /\ Among(entries) = {} /\ cursor = 0 /\ \A t \in Thread : ev[t] = NoEvent
    BY EmptyLog DEF Init, Among
  <2> QED
    BY <2>1 DEF FilesInv, RegionsSplit, ChangesDiffer, ChangesKept, Covered
<1>2. PostInv /\ FilesInv /\ [Next]_vars => PostInv' /\ FilesInv'
  BY NextInvariant, NextPostInvariant, NextFilesInvariant DEF PostInv
<1>3. PostInv /\ FilesInv => LogsMissOnlyNews
  <2> SUFFICES ASSUME PostInv, FilesInv, holder = NoThread, NEW i \in 1 .. Len(entries),
                      \A k \in i .. Len(entries) : entries[k].type # "map_change"
               PROVE  entries[i].uuid \in OnFile
    BY DEF LogsMissOnlyNews, OnFile
  <2>1. entries \in Seq(EventEntry) /\ Sorted(entries) /\ UniqueUuids(entries)
    BY DEF PostInv, IInv, TypeOK, CanonicalOutside, Evaluating
  <2>2. Follows(entries[i], Among(entries)) /\ entries[i] \in Among(entries)
    BY <2>1, CurrentEntries DEF Among
  <2> QED
    BY <2>2 DEF FilesInv, Covered
<1> QED
  BY <1>1, <1>2, <1>3, PTL DEF Spec

-----------------------------------------------------------------------------
(* The store implements TimerLog.  First, what TimerLog calls the          *)
(* evaluation and the sorting of a log is what EventLog calls so.          *)

(* The evaluation TimerLog speaks of is that of EventLog.                  *)
LEMMA PromiseFills ==
  ASSUME NEW f, NEW e, NEW stop, NEW name
  PROVE  Promise!FillSegment(f, e, stop, name) = FillSegment(f, e, stop, name)
BY DEF Promise!FillSegment, FillSegment, Promise!Filled, Filled, Promise!IsNewSlot, IsNewSlot,
       Promise!EmptySegment, EmptySegment, Promise!MinOf, MinOf

LEMMA PromiseTransition ==
  ASSUME NEW f, NEW e
  PROVE  Promise!Transition(f, e) = Transition(f, e)
<1>1. /\ Promise!OnMapChange(f, e) = OnMapChange(f, e)
      /\ Promise!OnReset(f, e) = OnReset(f, e)
      /\ Promise!OnHistoryClear(f) = OnHistoryClear(f)
      /\ Promise!OnSegmentClear(f) = OnSegmentClear(f)
      /\ Promise!OnStart(f, e) = OnStart(f, e)
      /\ Promise!OnPrepare(f, e) = OnPrepare(f, e)
  BY DEF Promise!OnMapChange, OnMapChange, Promise!OnReset, OnReset, Promise!OnHistoryClear,
         OnHistoryClear, Promise!OnSegmentClear, OnSegmentClear, Promise!OnStart, OnStart,
         Promise!OnPrepare, OnPrepare, Promise!NameOr, NameOr, Promise!Unset, Unset
<1>2. /\ Promise!OnSegment(f, e) = OnSegment(f, e)
      /\ Promise!OnStopRunning(f, e) = OnStopRunning(f, e)
      /\ Promise!OnStopPrepared(f, e) = OnStopPrepared(f, e)
  BY PromiseFills DEF Promise!OnSegment, OnSegment, Promise!OnStopRunning, OnStopRunning,
                      Promise!OnStopPrepared, OnStopPrepared, Promise!NameOr, NameOr
<1> QED
  BY <1>1, <1>2 DEF Promise!Transition, Transition

LEMMA PromiseEvalStep ==
  ASSUME NEW acc, NEW e
  PROVE  Promise!EvalStep(acc, e) = EvalStep(acc, e)
<1>1. \A f : Promise!Relevant(f, e) = Relevant(f, e)
  BY DEF Promise!Relevant, Relevant
<1>2. \A f : Promise!Iteration(f, e) = Iteration(f, e)
  BY <1>1, PromiseTransition DEF Promise!Iteration, Iteration
<1> QED
  BY <1>1, <1>2 DEF Promise!EvalStep, EvalStep

LEMMA PromiseEval ==
  ASSUME NEW s
  PROVE  Promise!Eval(s) = Eval(s)
<1> DEFINE Body(g) == [t \in SUBSET DOMAIN s |->
             IF t = {} THEN [fsm |-> Promise!FsmInit, kept |-> <<>>]
             ELSE Promise!EvalStep(g[t \ {Max(t)}], s[Max(t)])]
<1>1. Promise!Eval(s) = (CHOOSE g : g = Body(g))[DOMAIN s]
  BY DEF Promise!Eval, Promise!FoldLeft, Promise!MapThenFoldSet, Promise!Max, Max
<1>2. Eval(s) = (CHOOSE g : g = Fold(s, DOMAIN s, g))[DOMAIN s]
  BY DEF Eval, FoldLeft, MapThenFoldSet, Fold, Base
<1>3. \A g : Body(g) = Fold(s, DOMAIN s, g)
  BY PromiseEvalStep DEF Fold, Base, FsmInit, Promise!FsmInit
<1> HIDE DEF Body
<1>4. (CHOOSE g : g = Body(g)) = (CHOOSE g : g = Fold(s, DOMAIN s, g))
  BY <1>3
<1> QED
  BY <1>1, <1>2, <1>4

LEMMA PromiseSorts ==
  ASSUME NEW s
  PROVE  Promise!SortedForms(s) = SortedForms(s)
<1>1. \A n : Promise!Orderings(n) = Orderings(n)
  BY DEF Promise!Orderings, Orderings, Promise!Bijection, Bijection, Promise!Injection, Injection,
         Promise!Surjection, Surjection, Promise!IsInjective, IsInjective
<1>2. \A t : Promise!Sorted(t) = Sorted(t)
  BY DEF Promise!Sorted, Sorted, Promise!Before, Before
<1> QED
  BY <1>1, <1>2 DEF Promise!SortedForms, SortedForms

-----------------------------------------------------------------------------
(* The invariant behind the refinement.                                    *)

(* The first entries of a log.                                             *)
Prefix(s, n) == [i \in 1 .. n |-> s[i]]

(* Without a thread in the loop, evaluating the log would change nothing.  *)
Settled == ~ Evaluating => Eval(entries) = [fsm |-> fsm, kept |-> entries]

(* In the loop, what it has come to is the evaluation of the entries it    *)
(* has been through, and the vector is the log with the event sorted in.   *)
Folding ==
  Evaluating =>
    /\ Eval(Prefix(entries, cursor)) = [fsm |-> fsm, kept |-> kept]
    /\ Log \in Seq(EventEntry) /\ entries \in SortedForms(Append(Log, ev[holder]))

(* While the outcome is stored, the members before the next one have been. *)
Storing ==
  /\ \A t \in Thread : pc[t] \notin {"copy", "store"} => field[t] = 1
  /\ Committing =>
       LET stored(n) == pc[holder] = "post" \/ n < field[holder]
       IN  /\ stored(1) => state.status = fsm.status
           /\ stored(2) => state.start_time = fsm.start
           /\ stored(4) => state.was_prepared = fsm.was_prepared

(* What a thread carries is an event the callers make; a trigger region    *)
(* that repeats its uuid does so at another time.                          *)
Issued ==
  /\ \A i \in 1 .. Len(posted) : posted[i].uuid \in RegionUuid => posted[i].time <= now
  /\ \A t \in Thread :
       ev[t] # NoEvent =>
         /\ ev[t] \in Sent
         /\ ev[t].uuid \in RegionUuid =>
              /\ ev[t].type = "segment" /\ ev[t].time <= now
              /\ \A i \in 1 .. Len(posted) : posted[i].uuid = ev[t].uuid => posted[i].time # ev[t].time
              /\ \A s \in Thread \ {t} :
                   ev[s] # NoEvent /\ ev[s].uuid = ev[t].uuid => ev[s].time # ev[t].time

RefinementInv == PostInv /\ Settled /\ Folding /\ Storing /\ Issued

-----------------------------------------------------------------------------
(* The steps: each is one of TimerLog, or none to it.                      *)

Refines == [Promise!Next]_(Promise!vars)

(* The empty store is an empty log.                                        *)
LEMMA InitRefines == Init => RefinementInv /\ Promise!Init
<1> SUFFICES ASSUME Init PROVE RefinementInv /\ Promise!Init
  OBVIOUS
<1>1. /\ entries = <<>> /\ fsm = FsmInit /\ holder = NoThread /\ posted = <<>>
      /\ state = ZeroState
      /\ \A t \in Thread : pc[t] = "idle" /\ ev[t] = NoEvent /\ field[t] = 1
  BY DEF Init
<1>2. PostInv
  BY InitPostInvariant
<1>3. ~ Evaluating /\ ~ Committing
  BY <1>1 DEF Evaluating, Committing
<1>4. Settled /\ Folding /\ Storing /\ Issued
  BY <1>1, <1>3, EvalEmpty, EmptyLog DEF Settled, Folding, Storing, Issued, Base
<1>5. Promise!Init
  BY <1>1, <1>3 DEF Promise!Init, Log, Outcome, ZeroState, FsmInit
<1> QED
  BY <1>2, <1>4, <1>5 DEF RefinementInv

(* A step that leaves the log to its holder is no step of TimerLog.        *)
LEMMA Stutters ==
  ASSUME UNCHANGED logVars, Evaluating' = Evaluating, Committing' = Committing,
         holder # NoThread => ev'[holder] = ev[holder],
         Outcome' = Outcome
  PROVE  /\ Log' = Log /\ Refines
<1>1. entries' = entries /\ fsm' = fsm /\ posted' = posted /\ holder' = holder
  BY DEF logVars
<1>2. (Evaluating => ev'[holder] = ev[holder]) /\ (Committing => ev'[holder] = ev[holder])
  BY DEF Evaluating, Committing
<1>3. Log' = Log
  <2>1. CASE Evaluating
    <3>1. ev'[holder'] = ev[holder] /\ Evaluating'
      BY <1>1, <1>2, <2>1
    <3>2. (CHOOSE i \in 1 .. Len(entries') : entries'[i] = ev'[holder'])
            = (CHOOSE i \in 1 .. Len(entries) : entries[i] = ev[holder])
      BY <1>1, <3>1
    <3> QED
      BY <1>1, <2>1, <3>1, <3>2 DEF Log
  <2>2. CASE ~ Evaluating
    BY <1>1, <2>2 DEF Log
  <2> QED
    BY <2>1, <2>2
<1>4. Stored' = Stored
  BY <1>3 DEF Stored
<1> QED
  BY <1>1, <1>2, <1>3, <1>4 DEF Refines, Promise!vars

(* Steps of a thread that neither holds the lock nor takes it.             *)
LEMMA OutsideRefines ==
  ASSUME RefinementInv, PostInv', NEW t \in Thread,
         Look(t) \/ Refresh(t) \/ Clock(t) \/ SetTime(t) \/ Copy(t) \/ Rest(t) \/ Decide(t)
         \/ Send(t) \/ Move(t) \/ Activate(t) \/ ChangeMap(t) \/ Save(t) \/ Release(t)
  PROVE  /\ UNCHANGED logVars /\ holder # t
         /\ Evaluating' = Evaluating /\ Committing' = Committing
         /\ holder # NoThread => ev'[holder] = ev[holder] /\ field'[holder] = field[holder]
                                 /\ pc'[holder] = pc[holder]
         /\ \A s \in Thread \ {t} : ev'[s] = ev[s] /\ field'[s] = field[s] /\ pc'[s] = pc[s]
         /\ \/ state' = state
            \/ \E v \in Instant : state' = [state EXCEPT !.current_time = v]
         /\ Settled' /\ Folding' /\ Refines
<1>1. IInv
  BY DEF RefinementInv, PostInv
<1>2. pc[t] \in Outside /\ UNCHANGED logVars
  BY DEF Look, Refresh, Clock, SetTime, Copy, Rest, Decide, Send, Move, Activate, ChangeMap,
         Save, Release, Outside, PcLabel
<1>3. holder' = holder /\ holder # t /\ (holder # NoThread => holder \in Thread)
  BY <1>1, <1>2 DEF logVars, IInv, LockHeld, Outside, TypeOK
<1>4. \A s \in Thread \ {t} : pc'[s] = pc[s] /\ field'[s] = field[s]
  BY <1>1 DEF Look, Refresh, Clock, SetTime, Copy, Rest, Decide, Send, Move, Activate, ChangeMap,
              Save, Release, Goto, NextField, IInv, TypeOK
<1>5. \A s \in Thread \ {t} : ev'[s] = ev[s]
  BY <1>1 DEF Look, Refresh, Clock, SetTime, Copy, Rest, Decide, Send, Move, Activate, ChangeMap,
              Save, Release, Carry, IInv, TypeOK
<1>6. state' = state \/ \E v \in Instant : state' = [state EXCEPT !.current_time = v]
  <2>1. snap[t].current_time \in Instant
    <3>1. \A s \in TimerState : s.current_time \in Instant
      BY Zenon DEF TimerState
    <3> QED
      BY <1>1, <3>1 DEF IInv, TypeOK
  <2> QED
    BY <2>1 DEF Look, Refresh, Clock, SetTime, Copy, Rest, Decide, Send, Move, Activate,
                ChangeMap, Save, Release
<1>7. Evaluating' = Evaluating /\ Committing' = Committing
  BY <1>3, <1>4 DEF Evaluating, Committing
<1>8. holder # NoThread => ev'[holder] = ev[holder] /\ field'[holder] = field[holder]
                           /\ pc'[holder] = pc[holder]
  BY <1>3, <1>4, <1>5
<1>9. Outcome' = Outcome
  <2>1. state \in TimerState
    BY <1>1 DEF IInv, TypeOK
  <2>2. state'.status = state.status /\ state'.start_time = state.start_time
        /\ state'.was_prepared = state.was_prepared
    BY <1>6, <2>1 DEF TimerState
  <2> QED
    BY <1>2, <1>7, <2>2 DEF Outcome, logVars
<1>10. Log' = Log /\ Refines
  BY <1>2, <1>7, <1>8, <1>9, Stutters
<1>11. Settled'
  BY <1>2, <1>7 DEF RefinementInv, Settled, logVars
<1>12. Folding'
  BY <1>2, <1>7, <1>8, <1>10, NoneAssumption DEF RefinementInv, Folding, logVars, Evaluating
<1> QED
  BY <1>2, <1>3, <1>4, <1>5, <1>6, <1>7, <1>8, <1>10, <1>11, <1>12

(* Where a thread stores or copies no member, it is at the first.          *)
LEMMA NextFieldReturns ==
  ASSUME TypeOK, NEW t \in Thread, NEW here \in {"copy", "store"}, NEW there,
         NextField(t, here, there)
  PROVE  \/ field[t] \in 1 .. 3 /\ pc'[t] = here /\ field'[t] = field[t] + 1
         \/ field[t] = 4 /\ pc'[t] = there /\ field'[t] = 1
<1>1. Len(Fields) = 4 /\ field \in [Thread -> 1 .. 4] /\ pc \in [Thread -> PcLabel]
  BY DEF Fields, TypeOK
<1> QED
  BY <1>1 DEF NextField, Goto

LEMMA OutsideStores ==
  ASSUME RefinementInv, PostInv', NEW t \in Thread,
         Look(t) \/ Refresh(t) \/ Clock(t) \/ SetTime(t) \/ Copy(t) \/ Rest(t) \/ Decide(t)
         \/ Send(t) \/ Move(t) \/ Activate(t) \/ ChangeMap(t) \/ Save(t) \/ Release(t)
  PROVE  Storing'
<1>1. TypeOK /\ Storing
  BY DEF RefinementInv, PostInv, IInv
<1>2. /\ UNCHANGED logVars /\ Committing' = Committing
      /\ holder # NoThread => field'[holder] = field[holder] /\ pc'[holder] = pc[holder]
      /\ \A s \in Thread \ {t} : field'[s] = field[s] /\ pc'[s] = pc[s]
      /\ state' = state \/ \E v \in Instant : state' = [state EXCEPT !.current_time = v]
  BY OutsideRefines
<1>3. pc'[t] \notin {"copy", "store"} => field'[t] = 1
  <2>1. CASE Copy(t)
    <3>1. NextField(t, "copy", IF ev[t] = NoEvent THEN "looked" ELSE "decide")
      BY <2>1 DEF Copy
    <3> QED
      BY <1>1, <3>1, NextFieldReturns
  <2>2. CASE ~ Copy(t)
    <3>1. field' = field /\ pc[t] \notin {"copy", "store"}
      BY <2>2 DEF Look, Refresh, Clock, SetTime, Rest, Decide, Send, Move, Activate, ChangeMap,
                  Save, Release
    <3> QED
      BY <1>1, <3>1 DEF Storing
  <2> QED
    BY <2>1, <2>2
<1>4. \A s \in Thread : pc'[s] \notin {"copy", "store"} => field'[s] = 1
  BY <1>1, <1>2, <1>3 DEF Storing
<1>5. state'.status = state.status /\ state'.start_time = state.start_time
      /\ state'.was_prepared = state.was_prepared
  BY <1>1, <1>2 DEF TypeOK, TimerState
<1>6. holder' = holder /\ fsm' = fsm /\ (Committing => holder # NoThread)
  BY <1>2 DEF logVars, Committing
<1> QED
  BY <1>1, <1>2, <1>4, <1>5, <1>6 DEF Storing

(* What the callers make is among the events that can be sent.             *)
LEMMA MadeIsSent ==
  ASSUME PostInv, NEW t \in Thread,
         Send(t) \/ Move(t) \/ Activate(t) \/ ChangeMap(t)
  PROVE  \E e \in Sent :
           /\ ev' = [ev EXCEPT ![t] = e] /\ now' = now + 1 /\ e # NoEvent
           /\ \/ e.uuid \in NewUuids
              \/ e.uuid \in RegionUuid /\ e.type = "segment" /\ e.time = now + 1
<1>1. now < MaxNow /\ now \in 1 .. MaxNow /\ now' = now + 1
  BY DEF PostInv, IInv, TypeOK, Send, Move, Activate, ChangeMap, Carry
<1>2. now \in 1 .. MaxNow - 1 /\ Sent = UNION {SentAt(n) : n \in 1 .. MaxNow - 1}
  BY <1>1, ClockAssumption DEF Sent
<1>3. SentAt(now) \subseteq Sent
  BY <1>2
<1>4. NewUuids \subseteq Draw[now]
  BY DEF NewUuids
<1>5. /\ Plain(Keys \cup {"segment_clear", "history_clear"}, "manual") \subseteq SentAt(now)
      /\ Plain(Keys, "manual") \subseteq SentAt(now)
      /\ Plain({"start"}, "movement") \subseteq SentAt(now)
      /\ Plain({"stop"}, "combat") \subseteq SentAt(now)
      /\ Plain({"prepare"}, "other") \subseteq SentAt(now)
  BY <1>4 DEF Plain, SentAt
<1>6. [time : {now + 1}, type : {"map_change"}, source : {"other"}, uuid : NewUuids, name : Name]
        \subseteq SentAt(now)
  BY <1>4 DEF SentAt
<1>7. [time : {now + 1}, type : {"segment"}, source : {"combat"}, uuid : RegionUuid, name : Name]
        \subseteq SentAt(now)
  BY DEF SentAt
<1>8. ASSUME NEW e \in Plain({"start"}, "combat"),
             NEW tick \in {n \in Time : now + 1 - Lag <= n /\ n <= now + 1}
      PROVE  [e EXCEPT !.time = tick] \in SentAt(now) /\ [e EXCEPT !.time = tick].uuid = e.uuid
  BY <1>4 DEF Plain, SentAt
<1>9. \A types, source : \A e \in Plain(types, source) : e.uuid \in NewUuids
  BY DEF Plain
<1>10. SentAt(now) \subseteq EventEntry
  <2>1. now + 1 \in Time /\ Draw[now] \subseteq Uuid
    BY <1>1, ClockAssumption, DrawAssumption, TimeMaxAssumption DEF Time
  <2>2. /\ Keys \cup {"segment_clear", "history_clear"} \subseteq EventType
        /\ {"start"} \subseteq EventType /\ {"stop"} \subseteq EventType
        /\ {"prepare"} \subseteq EventType /\ {"map_change"} \subseteq EventType
        /\ {"segment"} \subseteq EventType
        /\ {"manual", "movement", "combat", "other"} \subseteq EventSource
    BY DEF Keys, EventType, EventSource
  <2> QED
    BY <2>1, <2>2, RegionAssumption, Zenon DEF SentAt, EventEntry
<1>11. \A e \in SentAt(now) : e # NoEvent /\ e \in Sent
  BY <1>3, <1>10, NoneAssumption
<1> HIDE DEF Plain
<1>12. CASE Send(t)
  <2>1. PICK e \in Offered(t) : ev' = [ev EXCEPT ![t] = e]
    BY <1>12 DEF Send, Carry
  <2>2. Role[t] \in {"imgui", "window", "combat", "deferred"}
    BY RoleAssumption
  <2>3. \/ \E types, source : e \in Plain(types, source) /\ e \in SentAt(now)
        \/ e \in [time : {now + 1}, type : {"segment"}, source : {"combat"},
                  uuid : RegionUuid, name : Name]
    BY <1>5, <2>1, <2>2 DEF Offered
  <2>4. e \in SentAt(now)
        /\ \/ e.uuid \in NewUuids
           \/ e.uuid \in RegionUuid /\ e.type = "segment" /\ e.time = now + 1
    BY <1>7, <1>9, <2>3
  <2> QED
    BY <1>1, <1>11, <2>1, <2>4
<1>13. CASE Move(t)
  BY <1>1, <1>5, <1>9, <1>11, <1>13 DEF Move, Carry
<1>14. CASE Activate(t)
  <2>1. PICK e \in Plain({"start"}, "combat"),
             tick \in {n \in Time : now + 1 - Lag <= n /\ n <= now + 1} :
               ev' = [ev EXCEPT ![t] = [e EXCEPT !.time = tick]]
    BY <1>14 DEF Activate, Carry
  <2> QED
    BY <1>1, <1>8, <1>9, <1>11, <2>1
<1>15. CASE ChangeMap(t)
  <2>1. PICK e \in [time : {now + 1}, type : {"map_change"}, source : {"other"},
                    uuid : NewUuids, name : Name] : ev' = [ev EXCEPT ![t] = e]
    BY <1>15 DEF ChangeMap, Carry
  <2> QED
    BY <1>1, <1>6, <1>11, <2>1
<1> QED
  BY <1>12, <1>13, <1>14, <1>15

LEMMA OutsideIssues ==
  ASSUME RefinementInv, PostInv', NEW t \in Thread,
         Look(t) \/ Refresh(t) \/ Clock(t) \/ SetTime(t) \/ Copy(t) \/ Rest(t) \/ Decide(t)
         \/ Send(t) \/ Move(t) \/ Activate(t) \/ ChangeMap(t) \/ Save(t) \/ Release(t)
  PROVE  Issued'
<1>1. PostInv /\ TypeOK /\ Issued
  BY DEF RefinementInv, PostInv, IInv
<1>2. posted' = posted /\ \A s \in Thread \ {t} : ev'[s] = ev[s]
  BY OutsideRefines DEF logVars
<1>3. /\ ev \in [Thread -> EventEntry \cup {NoEvent}] /\ now \in Nat
      /\ posted \in Seq(EventEntry)
  BY <1>1, ClockAssumption DEF TypeOK
<1>4. CASE Send(t) \/ Move(t) \/ Activate(t) \/ ChangeMap(t)
  <2>1. PICK e \in Sent :
           /\ ev' = [ev EXCEPT ![t] = e] /\ now' = now + 1 /\ e # NoEvent
           /\ \/ e.uuid \in NewUuids
              \/ e.uuid \in RegionUuid /\ e.type = "segment" /\ e.time = now + 1
    BY <1>1, <1>4, MadeIsSent
  <2>2. ev'[t] = e
    BY <1>3, <2>1
  <2>3. \A s \in Thread : ev[s] # NoEvent => ev[s].time \in Int
    BY <1>3, EventTypes
  <2>4. \A i \in 1 .. Len(posted) : posted[i].time \in Int
    <3>1. \A i \in 1 .. Len(posted) : posted[i] \in EventEntry
      BY <1>3
    <3> QED
      BY <3>1, EventTypes
  <2>5. e.uuid \in NewUuids => e.uuid \notin RegionUuid
    BY NewUuidIsFresh
  <2>6. \A i \in 1 .. Len(posted) : posted[i].uuid \in RegionUuid => posted[i].time <= now'
    BY <1>1, <1>3, <2>1, <2>4 DEF Issued
  <2>7. ASSUME e.uuid \in RegionUuid
        PROVE  /\ e.type = "segment" /\ e.time = now + 1
               /\ \A i \in 1 .. Len(posted) : posted[i].uuid = e.uuid => posted[i].time # e.time
               /\ \A s \in Thread \ {t} : ev[s] # NoEvent /\ ev[s].uuid = e.uuid => ev[s].time # e.time
    <3>1. e.type = "segment" /\ e.time = now + 1
      BY <2>1, <2>5, <2>7
    <3>2. \A i \in 1 .. Len(posted) : posted[i].uuid = e.uuid => posted[i].time <= now
      BY <1>1, <2>7 DEF Issued
    <3>3. \A s \in Thread \ {t} : ev[s] # NoEvent /\ ev[s].uuid = e.uuid => ev[s].time <= now
      BY <1>1, <2>7 DEF Issued
    <3> QED
      BY <1>3, <2>3, <2>4, <3>1, <3>2, <3>3
  <2>8. ASSUME NEW s \in Thread, ev'[s] # NoEvent
        PROVE  /\ ev'[s] \in Sent
               /\ ev'[s].uuid \in RegionUuid =>
                    /\ ev'[s].type = "segment" /\ ev'[s].time <= now'
                    /\ \A i \in 1 .. Len(posted) :
                         posted[i].uuid = ev'[s].uuid => posted[i].time # ev'[s].time
                    /\ \A r \in Thread \ {s} :
                         ev'[r] # NoEvent /\ ev'[r].uuid = ev'[s].uuid => ev'[r].time # ev'[s].time
    <3>1. CASE s = t
      <4>1. ev'[s] = e /\ \A r \in Thread \ {s} : ev'[r] = ev[r]
        BY <1>2, <2>2, <3>1
      <4> QED
        BY <1>3, <2>1, <2>7, <3>1, <4>1
    <3>2. CASE s # t
      <4>1. ev'[s] = ev[s] /\ ev[s] # NoEvent
        BY <1>2, <2>8, <3>2
      <4>2. /\ ev[s] \in Sent
            /\ ev[s].uuid \in RegionUuid =>
                 /\ ev[s].type = "segment" /\ ev[s].time <= now
                 /\ \A i \in 1 .. Len(posted) :
                      posted[i].uuid = ev[s].uuid => posted[i].time # ev[s].time
                 /\ \A r \in Thread \ {s} :
                      ev[r] # NoEvent /\ ev[r].uuid = ev[s].uuid => ev[r].time # ev[s].time
        BY <1>1, <4>1 DEF Issued
      <4>3. ev[s].uuid \in RegionUuid => ev[s].time <= now'
        BY <1>3, <2>1, <2>3, <4>1, <4>2
      <4>4. ASSUME NEW r \in Thread \ {s}, ev'[r] # NoEvent, ev'[r].uuid = ev[s].uuid,
                   ev[s].uuid \in RegionUuid
            PROVE  ev'[r].time # ev[s].time
        <5>1. CASE r = t
          <6>1. ev'[r] = e /\ e.uuid \in RegionUuid /\ s \in Thread \ {t} /\ ev[s].uuid = e.uuid
            BY <2>2, <3>2, <4>4, <5>1
          <6> QED
            BY <2>7, <4>1, <6>1
        <5>2. CASE r # t
          BY <1>2, <4>2, <4>4, <5>2
        <5> QED
          BY <5>1, <5>2
      <4> QED
        BY <4>1, <4>2, <4>3, <4>4
    <3> QED
      BY <3>1, <3>2
  <2> QED
    BY <1>2, <2>6, <2>8 DEF Issued
<1>5. CASE ~ (Send(t) \/ Move(t) \/ Activate(t) \/ ChangeMap(t))
  <2>1. now' = now /\ (ev' = ev \/ ev' = [ev EXCEPT ![t] = NoEvent])
    BY <1>5 DEF Look, Refresh, Clock, SetTime, Copy, Rest, Decide, Save, Release
  <2>2. \A s \in Thread : ev'[s] = ev[s] \/ ev'[s] = NoEvent
    BY <1>3, <2>1
  <2> QED
    BY <1>1, <1>2, <2>1, <2>2 DEF Issued
<1> QED
  BY <1>4, <1>5

LEMMA AsideRefines ==
  ASSUME RefinementInv, PostInv', Aside
  PROVE  RefinementInv' /\ Refines
<1>1. UNCHANGED <<logVars, state, pc, ev, field>> /\ (now' = now \/ now' = now + 1)
  BY DEF Aside, Tick, WriteLog, vars
<1>2. Evaluating' = Evaluating /\ Committing' = Committing /\ Outcome' = Outcome
  BY <1>1 DEF Evaluating, Committing, Outcome, logVars
<1>3. Log' = Log /\ Refines
  BY <1>1, <1>2, Stutters
<1>4. Settled' /\ Folding' /\ Storing'
  BY <1>1, <1>2, <1>3 DEF RefinementInv, Settled, Folding, Storing, logVars
<1>5. Issued'
  <2>1. /\ now \in Nat /\ ev \in [Thread -> EventEntry \cup {NoEvent}] /\ posted \in Seq(EventEntry)
    BY ClockAssumption DEF RefinementInv, PostInv, IInv, TypeOK
  <2>2. \A t \in Thread : ev[t] # NoEvent => ev[t].time \in Int
    BY <2>1, EventTypes
  <2>3. \A i \in 1 .. Len(posted) : posted[i].time \in Int
    <3>1. \A i \in 1 .. Len(posted) : posted[i] \in EventEntry
      BY <2>1
    <3> QED
      BY <3>1, EventTypes
  <2>4. \A i \in 1 .. Len(posted) : posted[i].uuid \in RegionUuid => posted[i].time <= now'
    BY <1>1, <2>1, <2>3 DEF RefinementInv, Issued
  <2>5. \A t \in Thread : ev[t] # NoEvent /\ ev[t].uuid \in RegionUuid => ev[t].time <= now'
    BY <1>1, <2>1, <2>2 DEF RefinementInv, Issued
  <2>6. posted' = posted /\ ev' = ev
    BY <1>1 DEF logVars
  <2> QED
    BY <2>4, <2>5, <2>6 DEF RefinementInv, Issued
<1> QED
  BY <1>3, <1>4, <1>5 DEF RefinementInv

(* The event a thread is about to add differs from every entry.            *)
LEMMA CarriedDiffers ==
  ASSUME RefinementInv, holder = NoThread, NEW t \in Thread, ev[t] # NoEvent,
         NEW i \in 1 .. Len(entries)
  PROVE  Before(entries[i], ev[t]) \/ Before(ev[t], entries[i])
<1>1. /\ ev[t] \in EventEntry /\ entries[i] \in EventEntry /\ posted \in Seq(EventEntry)
  BY DEF RefinementInv, PostInv, IInv, TypeOK
<1>2. PICK j \in 1 .. Len(posted) : posted[j] = entries[i]
  BY DEF RefinementInv, PostInv, EntriesArePosted
<1>3. entries[i].uuid = ev[t].uuid => entries[i].time # ev[t].time
  <2>1. CASE ev[t].uuid \in RegionUuid
    BY <1>2, <2>1 DEF RefinementInv, Issued
  <2>2. CASE ev[t].uuid \notin RegionUuid
    BY <1>2, <2>2 DEF RefinementInv, PostInv, CarriedAreFresh, UuidsOf
  <2> QED
    BY <2>1, <2>2
<1>4. /\ entries[i].time \in Int /\ ev[t].time \in Int
      /\ entries[i].uuid \in Nat /\ ev[t].uuid \in Nat
  BY <1>1, EventTypes, UuidAssumption
<1> QED
  BY <1>3, <1>4 DEF Before

(* Between the lock and the erasure the log is what it was before.         *)
LEMMA LockRefines ==
  ASSUME RefinementInv, PostInv', NEW t \in Thread, Lock(t)
  PROVE  RefinementInv' /\ Refines
<1>1. IInv /\ Settled /\ Storing /\ Issued
  BY DEF RefinementInv, PostInv
<1>2. /\ pc[t] = "lock" /\ holder = NoThread /\ holder' = t /\ pc' = [pc EXCEPT ![t] = "eval"]
      /\ entries' \in SortedForms(Append(entries, ev[t]))
      /\ fsm' = FsmInit /\ cursor' = 0 /\ kept' = <<>>
      /\ UNCHANGED <<state, ev, snap, field, now, posted, fileVars>>
  BY DEF Lock, Goto
<1>3. /\ pc \in [Thread -> PcLabel] /\ ev[t] \in EventEntry /\ entries \in Seq(EventEntry)
      /\ ev[t] # NoEvent /\ field[t] = 1
  BY <1>1, <1>2 DEF IInv, TypeOK, Carrying, Storing
<1>4. ~ Evaluating /\ ~ Committing /\ Evaluating' /\ ~ Committing'
  BY <1>2, <1>3, NoneAssumption DEF Evaluating, Committing
<1>5. Strict(entries)
  BY <1>1, <1>3, <1>4, SortedIsStrict DEF IInv, CanonicalOutside
<1>6. Log' = entries /\ Log = entries
  <2>1. RemoveAt(entries', CHOOSE i \in 1 .. Len(entries') : entries'[i] = ev[t]) = entries
    BY <1>2, <1>3, <1>5, CarriedDiffers, SortedFormWithout
  <2> QED
    BY <1>2, <1>4, <2>1 DEF Log
<1>7. Folding'
  <2>1. Prefix(entries', 0) = <<>>
    BY DEF Prefix
  <2>2. Eval(Prefix(entries', cursor')) = [fsm |-> fsm', kept |-> kept']
    BY <1>2, <2>1, EvalEmpty DEF Base
  <2> QED
    BY <1>2, <1>3, <1>4, <1>6, <2>2 DEF Folding
<1>8. Settled' /\ Storing' /\ Issued'
  BY <1>1, <1>2, <1>3, <1>4 DEF Settled, Storing, Issued
<1>9. Eval(entries).fsm = fsm
  BY <1>1, <1>4 DEF Settled
<1>10. Outcome' = Outcome
  BY <1>2, <1>4 DEF Outcome
<1>11. Stored' = fsm
  BY <1>6, <1>9 DEF Stored
<1>12. Refines
  BY <1>2, <1>4, <1>6, <1>10, <1>11 DEF Refines, Promise!vars
<1> QED
  BY <1>7, <1>8, <1>12 DEF RefinementInv

(* A prefix is followed by the next entry.                                 *)
LEMMA PrefixGrows ==
  ASSUME NEW s \in Seq(EventEntry), NEW n \in Nat, n + 1 \in 1 .. Len(s)
  PROVE  /\ Prefix(s, n) \in Seq(EventEntry) /\ s[n + 1] \in EventEntry
         /\ Prefix(s, n + 1) = Append(Prefix(s, n), s[n + 1])
<1>1. Prefix(s, n) \in Seq(EventEntry) /\ Len(Prefix(s, n)) = n
  <2>1. Prefix(s, n) \in [1 .. n -> EventEntry]
    BY DEF Prefix
  <2> QED
    BY <2>1 DEF Prefix
<1>2. Prefix(s, n + 1) \in Seq(EventEntry) /\ Len(Prefix(s, n + 1)) = n + 1
  <2>1. Prefix(s, n + 1) \in [1 .. n + 1 -> EventEntry] /\ n + 1 \in Nat
    BY DEF Prefix
  <2> QED
    BY <2>1 DEF Prefix
<1>3. \A i \in 1 .. n + 1 : Prefix(s, n + 1)[i] = Append(Prefix(s, n), s[n + 1])[i]
  BY <1>1 DEF Prefix
<1>4. Append(Prefix(s, n), s[n + 1]) \in Seq(EventEntry)
      /\ Len(Append(Prefix(s, n), s[n + 1])) = n + 1
  BY <1>1
<1>5. s[n + 1] \in EventEntry
  OBVIOUS
<1> QED
  BY <1>1, <1>2, <1>3, <1>4, <1>5, SeqEqual

LEMMA WholePrefix ==
  ASSUME NEW s \in Seq(EventEntry)
  PROVE  Prefix(s, Len(s)) = s
BY DEF Prefix

LEMMA IterateRefines ==
  ASSUME RefinementInv, PostInv', NEW t \in Thread, Iterate(t)
  PROVE  RefinementInv' /\ Refines
<1> DEFINE e == entries[cursor + 1]
<1>1. IInv /\ Folding /\ Storing /\ Issued
  BY DEF RefinementInv, PostInv
<1>2. /\ pc[t] = "eval" /\ cursor < Len(entries) /\ cursor' = cursor + 1
      /\ fsm' = Iteration(fsm, e)
      /\ kept' = IF Relevant(fsm, e) THEN Append(kept, e) ELSE kept
      /\ UNCHANGED <<entries, holder, state, pc, ev, snap, field, now, posted, fileVars>>
  BY DEF Iterate
<1>3. holder = t /\ Evaluating /\ Evaluating' /\ ~ Committing /\ ~ Committing'
  BY <1>1, <1>2, NoneAssumption DEF IInv, LockHeld, Evaluating, Committing
<1>4. entries \in Seq(EventEntry) /\ cursor \in Nat /\ cursor + 1 \in 1 .. Len(entries)
  BY <1>1, <1>2 DEF IInv, TypeOK
<1>5. Log' = Log
  BY <1>2, <1>3 DEF Log
<1>6. Eval(Prefix(entries, cursor')) = [fsm |-> fsm', kept |-> kept']
  <2>1. Eval(Prefix(entries, cursor)) = [fsm |-> fsm, kept |-> kept]
    BY <1>1, <1>3 DEF Folding
  <2>2. Eval(Append(Prefix(entries, cursor), e)) = EvalStep([fsm |-> fsm, kept |-> kept], e)
    BY <1>4, <2>1, PrefixGrows, EvalAppend
  <2> QED
    BY <1>2, <1>4, <2>2, PrefixGrows DEF EvalStep
<1>7. Folding'
  BY <1>1, <1>2, <1>3, <1>5, <1>6 DEF Folding
<1>8. Settled' /\ Storing' /\ Issued'
  BY <1>1, <1>2, <1>3 DEF Settled, Storing, Issued
<1>9. Outcome' = Outcome /\ Stored' = Stored
  BY <1>2, <1>3, <1>5 DEF Outcome, Stored
<1>10. Refines
  BY <1>2, <1>3, <1>5, <1>9 DEF Refines, Promise!vars
<1> QED
  BY <1>7, <1>8, <1>10 DEF RefinementInv

(* The erasure is the step of TimerLog: the log is evaluated with the      *)
(* event in it.                                                            *)
LEMMA EraseRefines ==
  ASSUME RefinementInv, PostInv', NEW t \in Thread, Erase(t)
  PROVE  RefinementInv' /\ Refines
<1>1. IInv /\ PostInv /\ Folding /\ Storing /\ Issued
  BY DEF RefinementInv, PostInv
<1>2. /\ pc[t] = "eval" /\ cursor = Len(entries) /\ entries' = kept
      /\ pc' = [pc EXCEPT ![t] = "store"]
      /\ UNCHANGED <<fsm, cursor, kept, holder, state, ev, snap, field, now, posted, fileVars>>
  BY DEF Erase, Goto
<1>3. /\ holder = t /\ pc \in [Thread -> PcLabel] /\ entries \in Seq(EventEntry)
      /\ ev[t] # NoEvent /\ ev[t] \in EventEntry /\ posted \in Seq(EventEntry)
  BY <1>1, <1>2 DEF IInv, LockHeld, TypeOK, Carrying
<1>4. Evaluating /\ ~ Evaluating' /\ ~ Committing /\ Committing'
  BY <1>2, <1>3, NoneAssumption DEF Evaluating, Committing
<1>5. Eval(entries) = [fsm |-> fsm, kept |-> kept]
  BY <1>1, <1>2, <1>3, <1>4, WholePrefix DEF Folding
<1>6. Settled'
  <2>1. Eval(kept) = [fsm |-> fsm, kept |-> kept]
    BY <1>3, <1>5, EvalTwice
  <2> QED
    BY <1>2, <2>1 DEF Settled
<1>7. Folding' /\ Issued'
  BY <1>1, <1>2, <1>4 DEF Folding, Issued
<1>8. Storing'
  <2>1. field[t] = 1 /\ field'[t] = 1 /\ pc'[t] = "store"
    BY <1>1, <1>2, <1>3 DEF Storing
  <2>2. \A s \in Thread \ {t} : pc'[s] = pc[s] /\ field'[s] = field[s]
    BY <1>2, <1>3
  <2>3. \A s \in Thread : pc'[s] \notin {"copy", "store"} => field'[s] = 1
    BY <1>1, <2>1, <2>2 DEF Storing
  <2> QED
    BY <1>2, <1>3, <2>1, <2>3 DEF Storing
<1>9. ev[t] \in Sent /\ Promise!IsNew(ev[t], ToSet(posted))
  <2>1. ev[t] \in Sent
    BY <1>1, <1>3 DEF Issued
  <2>2. \A d \in ToSet(posted) : \E i \in 1 .. Len(posted) : d = posted[i]
    BY <1>3 DEF ToSet
  <2>3. CASE ev[t].uuid \in RegionUuid
    <3>1. /\ ev[t].type = "segment"
          /\ \A i \in 1 .. Len(posted) : posted[i].uuid = ev[t].uuid => posted[i].time # ev[t].time
      BY <1>1, <1>3, <2>3 DEF Issued
    <3>2. \A d \in ToSet(posted) : d.uuid = ev[t].uuid => d.time # ev[t].time
      BY <2>2, <3>1
    <3> QED
      BY <2>1, <2>3, <3>1, <3>2 DEF Promise!IsNew
  <2>4. CASE ev[t].uuid \notin RegionUuid
    <3>1. \A i \in 1 .. Len(posted) : posted[i].uuid # ev[t].uuid
      BY <1>1, <1>3, <2>4 DEF PostInv, CarriedAreFresh, UuidsOf
    <3>2. \A d \in ToSet(posted) : d.uuid # ev[t].uuid
      BY <2>2, <3>1
    <3> QED
      BY <2>1, <2>4, <3>2 DEF Promise!IsNew
  <2> QED
    BY <2>1, <2>3, <2>4
<1>10. Promise!Add(ev[t])
  <2>1. entries \in Promise!SortedForms(Append(Log, ev[t]))
    BY <1>1, <1>3, <1>4, PromiseSorts DEF Folding
  <2>2. Promise!Eval(entries) = [fsm |-> fsm, kept |-> kept]
    BY <1>5, PromiseEval
  <2>3. Log' = kept /\ Outcome' = Promise!Verdict(fsm)
    BY <1>2, <1>4 DEF Log, Outcome, Result, Promise!Verdict
  <2>4. \E s \in Promise!SortedForms(Append(Log, ev[t])) :
          LET result == Promise!Eval(s)
          IN  /\ Log' = result.kept
              /\ Outcome' = Promise!Verdict(result.fsm)
              /\ (IF Evaluating THEN Stored.history ELSE fsm.history)' = result.fsm.history
              /\ (IF Evaluating THEN Stored.segments ELSE fsm.segments)' = result.fsm.segments
    BY <1>2, <1>4, <2>1, <2>2, <2>3
  <2>5. (IF Committing THEN Append(posted, ev[holder]) ELSE posted)'
          = Append(IF Committing THEN Append(posted, ev[holder]) ELSE posted, ev[t])
    BY <1>2, <1>3, <1>4
  <2> QED
    BY <2>4, <2>5 DEF Promise!Add
<1>11. Promise!Arrive(ev[t])
  BY <1>4, <1>9, <1>10 DEF Promise!Arrive, Promise!ToSet, ToSet
<1>12. Refines
  BY <1>9, <1>11 DEF Refines, Promise!Next
<1> QED
  BY <1>6, <1>7, <1>8, <1>12 DEF RefinementInv

(* Storing the outcome shows it; to TimerLog it was shown before.          *)
LEMMA StoreRefines ==
  ASSUME RefinementInv, PostInv', NEW t \in Thread, Store(t)
  PROVE  RefinementInv' /\ Refines
<1>1. IInv /\ TypeOK /\ Settled /\ Storing /\ Issued
  BY DEF RefinementInv, PostInv, IInv
<1>2. /\ pc[t] = "store" /\ NextField(t, "store", "post")
      /\ state' = [state EXCEPT ![Member(t)] = Result(fsm)[Member(t)]]
      /\ UNCHANGED <<logVars, ev, snap, now, fileVars>>
  BY DEF Store
<1>3. holder = t /\ holder' = t /\ pc \in [Thread -> PcLabel] /\ t # NoThread
  BY <1>1, <1>2, NoneAssumption DEF IInv, LockHeld, TypeOK, logVars
<1>4. \/ field[t] \in 1 .. 3 /\ pc'[t] = "store" /\ field'[t] = field[t] + 1
      \/ field[t] = 4 /\ pc'[t] = "post" /\ field'[t] = 1
  BY <1>1, <1>2, NextFieldReturns
<1>5. \A s \in Thread \ {t} : pc'[s] = pc[s] /\ field'[s] = field[s]
  BY <1>1, <1>2 DEF NextField, Goto, TypeOK
<1>6. ~ Evaluating /\ ~ Evaluating' /\ Committing /\ Committing'
  BY <1>2, <1>3, <1>4 DEF Evaluating, Committing
<1>7. Settled' /\ Folding' /\ Issued'
  BY <1>1, <1>2, <1>6 DEF Settled, Folding, Issued, logVars
<1>8. Storing'
  <2>1. /\ field[t] > 1 => state.status = fsm.status
        /\ field[t] > 2 => state.start_time = fsm.start
    BY <1>1, <1>2, <1>3, <1>4, <1>6 DEF Storing
  <2>2. fsm' = fsm
    BY <1>2 DEF logVars
  <2>3. /\ DOMAIN state = {"status", "start_time", "current_time", "was_prepared"}
        /\ state = [state EXCEPT !["status"] = state.status]
    BY <1>1 DEF TypeOK, TimerState
  <2>4. /\ Result(fsm).status = fsm.status /\ Result(fsm).start_time = fsm.start
        /\ Result(fsm).was_prepared = fsm.was_prepared
    BY DEF Result
  <2>5. /\ field[t] = 1 => Member(t) = "status"
        /\ field[t] = 2 => Member(t) = "start_time"
        /\ field[t] = 3 => Member(t) = "current_time"
        /\ field[t] = 4 => Member(t) = "was_prepared"
    BY DEF Member, Fields
  <2>6. /\ field[t] >= 1 => state'.status = fsm.status
        /\ field[t] >= 2 => state'.start_time = fsm.start
        /\ field[t] >= 4 => state'.was_prepared = fsm.was_prepared
    <3>1. CASE field[t] = 1
      BY <1>2, <2>3, <2>4, <2>5, <3>1
    <3>2. CASE field[t] = 2
      BY <1>2, <2>1, <2>3, <2>4, <2>5, <3>2
    <3>3. CASE field[t] = 3
      BY <1>2, <2>1, <2>3, <2>4, <2>5, <3>3
    <3>4. CASE field[t] = 4
      BY <1>2, <2>1, <2>3, <2>4, <2>5, <3>4
    <3> QED
      BY <1>4, <3>1, <3>2, <3>3, <3>4
  <2>7. \A s \in Thread : pc'[s] \notin {"copy", "store"} => field'[s] = 1
    BY <1>1, <1>4, <1>5 DEF Storing
  <2>8. LET stored(n) == pc'[t] = "post" \/ n < field'[t]
        IN  /\ stored(1) => state'.status = fsm.status
            /\ stored(2) => state'.start_time = fsm.start
            /\ stored(4) => state'.was_prepared = fsm.was_prepared
    BY <1>4, <2>6
  <2> QED
    BY <1>3, <2>2, <2>7, <2>8 DEF Storing
<1>9. Outcome' = Outcome
  BY <1>2, <1>6 DEF Outcome, logVars
<1>10. Refines
  <2>1. UNCHANGED logVars /\ ev' = ev
    BY <1>2
  <2>2. Evaluating' = Evaluating /\ Committing' = Committing
    BY <1>6 DEF Evaluating, Committing
  <2> QED
    BY <1>9, <2>1, <2>2, Stutters
<1> QED
  BY <1>7, <1>8, <1>10 DEF RefinementInv

(* The event is handed over; to TimerLog it was received before.           *)
LEMMA PostRefines ==
  ASSUME RefinementInv, PostInv', NEW t \in Thread, Post(t)
  PROVE  RefinementInv' /\ Refines
<1>1. IInv /\ TypeOK /\ Settled /\ Storing /\ Issued
  BY DEF RefinementInv, PostInv, IInv
<1>2. /\ pc[t] = "post" /\ posted' = Append(posted, ev[t]) /\ ev' = [ev EXCEPT ![t] = NoEvent]
      /\ holder' = NoThread /\ pc' = [pc EXCEPT ![t] = "idle"]
      /\ UNCHANGED <<entries, fsm, cursor, kept, state, snap, field, now, saving, saved>>
  BY DEF Post, Goto
<1>3. /\ holder = t /\ pc \in [Thread -> PcLabel] /\ ev \in [Thread -> EventEntry \cup {NoEvent}]
      /\ ev[t] # NoEvent /\ ev[t] \in EventEntry /\ posted \in Seq(EventEntry)
      /\ t # NoThread
  BY <1>1, <1>2, NoneAssumption DEF IInv, LockHeld, TypeOK, Carrying
<1>4. ~ Evaluating /\ ~ Evaluating' /\ Committing /\ ~ Committing'
  BY <1>2, <1>3 DEF Evaluating, Committing
<1>5. Settled' /\ Folding'
  BY <1>1, <1>2, <1>4 DEF Settled, Folding
<1>6. Storing'
  <2>1. \A s \in Thread : pc'[s] \notin {"copy", "store"} => pc[s] \notin {"copy", "store"}
    BY <1>2, <1>3
  <2> QED
    BY <1>1, <1>2, <1>4, <2>1 DEF Storing
<1>7. Issued'
  <2>1. /\ Len(posted') = Len(posted) + 1 /\ posted'[Len(posted) + 1] = ev[t]
        /\ \A i \in 1 .. Len(posted) : posted'[i] = posted[i]
        /\ Len(posted) \in Nat
    BY <1>2, <1>3
  <2>2. ev'[t] = NoEvent /\ \A s \in Thread \ {t} : ev'[s] = ev[s]
    BY <1>2, <1>3
  <2>3. \A i \in 1 .. Len(posted') : posted'[i] = ev[t] \/ i \in 1 .. Len(posted)
    BY <2>1
  <2>4. ev[t].uuid \in RegionUuid => ev[t].time <= now
    BY <1>1, <1>3 DEF Issued
  <2>5. \A i \in 1 .. Len(posted') : posted'[i].uuid \in RegionUuid => posted'[i].time <= now'
    BY <1>1, <1>2, <2>1, <2>3, <2>4 DEF Issued
  <2>6. ASSUME NEW s \in Thread, ev'[s] # NoEvent, ev'[s].uuid \in RegionUuid,
               NEW i \in 1 .. Len(posted'), posted'[i].uuid = ev'[s].uuid
        PROVE  posted'[i].time # ev'[s].time
    <3>1. s # t /\ ev'[s] = ev[s]
      BY <2>2, <2>6
    <3>2. CASE posted'[i] = ev[t]
      BY <1>1, <1>3, <2>6, <3>1, <3>2 DEF Issued
    <3>3. CASE i \in 1 .. Len(posted)
      BY <1>1, <2>1, <2>6, <3>1, <3>3 DEF Issued
    <3> QED
      BY <2>3, <3>2, <3>3
  <2>7. \A s \in Thread : ev'[s] # NoEvent => s # t /\ ev'[s] = ev[s]
    BY <2>2
  <2> QED
    BY <1>1, <1>2, <2>2, <2>5, <2>6, <2>7 DEF Issued
<1>8. Log' = Log
  BY <1>2, <1>4 DEF Log
<1>9. Outcome' = Outcome
  <2>1. state.status = fsm.status /\ state.start_time = fsm.start
        /\ state.was_prepared = fsm.was_prepared
    BY <1>1, <1>2, <1>3, <1>4 DEF Storing
  <2> QED
    BY <1>2, <1>4, <2>1 DEF Outcome, Result
<1>10. Refines
  BY <1>2, <1>3, <1>4, <1>8, <1>9 DEF Refines, Promise!vars
<1> QED
  BY <1>5, <1>6, <1>7, <1>10 DEF RefinementInv

(* Every step preserves the invariant and is one of TimerLog, or none.     *)
LEMMA NextRefines == RefinementInv /\ [Next]_vars => RefinementInv' /\ Refines
<1> SUFFICES ASSUME RefinementInv, [Next]_vars PROVE RefinementInv' /\ Refines
  OBVIOUS
<1>1. PostInv'
  BY NextInvariant, NextPostInvariant DEF RefinementInv, PostInv
<1>2. CASE Aside
  BY <1>1, <1>2, AsideRefines
<1>3. ASSUME NEW t \in Thread,
             Look(t) \/ Refresh(t) \/ Clock(t) \/ SetTime(t) \/ Copy(t) \/ Rest(t) \/ Decide(t)
             \/ Send(t) \/ Move(t) \/ Activate(t) \/ ChangeMap(t) \/ Save(t) \/ Release(t)
      PROVE  RefinementInv' /\ Refines
  BY <1>1, <1>3, OutsideRefines, OutsideStores, OutsideIssues DEF RefinementInv
<1>4. ASSUME NEW t \in Thread, Lock(t) \/ Iterate(t) \/ Erase(t) \/ Store(t) \/ Post(t)
      PROVE  RefinementInv' /\ Refines
  BY <1>1, <1>4, LockRefines, IterateRefines, EraseRefines, StoreRefines, PostRefines
<1> QED
  BY <1>2, <1>3, <1>4 DEF Next, Run, Call, Aside

(* Threads, the lock and the loop are, from outside, a log in which every  *)
(* event is sorted, evaluated and pruned in one step.  (eventstore.cpp:    *)
(* add_event, reevaluate_state, get_timer_state)                           *)
THEOREM StoreIsALog == Spec => ImplementsTimerLog
<1>1. Init => RefinementInv /\ Promise!Init
  BY InitRefines
<1>2. RefinementInv /\ [Next]_vars => RefinementInv' /\ Refines
  BY NextRefines
<1> QED
  BY <1>1, <1>2, PTL DEF Spec, ImplementsTimerLog, Promise!Spec, Refines

-----------------------------------------------------------------------------
(* What makes a timer start by itself.                                     *)

(* A prepare was posted, or its thread has stored its outcome already and  *)
(* is about to post it.                                                    *)
Prepares ==
  \/ \E j \in 1 .. Len(posted) : posted[j].type = "prepare"
  \/ holder # NoThread /\ ev[holder].type = "prepare"

(* What the members of a state, of its copies and of the loop say came     *)
(* from a prepare, and so did the starts that were admitted because of it. *)
Shows(s) == s.status = "prepared" \/ s.was_prepared

Preparing ==
  /\ Shows(fsm) => Prepares
  /\ Shows(state) => Prepares
  /\ \A t \in Thread :
       /\ Shows(snap[t]) => Prepares
       /\ pc[t] = "save" => ~ AutoStart(ev[t])
       /\ pc[t] \in {"lock", "eval", "store", "post"} /\ AutoStart(ev[t]) => Prepares
  /\ AutoStartsWerePrepared

LEMMA CopyShows ==
  ASSUME NEW a \in TimerState, NEW b \in TimerState, NEW n \in 1 .. Len(Fields),
         Shows([a EXCEPT ![Fields[n]] = b[Fields[n]]])
  PROVE  Shows(a) \/ Shows(b)
<1> DEFINE c == [a EXCEPT ![Fields[n]] = b[Fields[n]]]
<1>1. n = 1 \/ n = 2 \/ n = 3 \/ n = 4
  BY DEF Fields
<1>2. Fields[1] = "status" /\ Fields[2] = "start_time" /\ Fields[3] = "current_time"
      /\ Fields[4] = "was_prepared"
  BY DEF Fields
<1>3. CASE n = 1
  <2>1. c = [a EXCEPT !["status"] = b["status"]]
    BY <1>2, <1>3
  <2>2. c.status = b.status /\ c.was_prepared = a.was_prepared
    BY <2>1, Zenon DEF TimerState
  <2> QED
    BY <2>2, Zenon DEF Shows
<1>4. CASE n = 2
  <2>1. c = [a EXCEPT !["start_time"] = b["start_time"]]
    BY <1>2, <1>4
  <2>2. c.status = a.status /\ c.was_prepared = a.was_prepared
    BY <2>1, Zenon DEF TimerState
  <2> QED
    BY <2>2, Zenon DEF Shows
<1>5. CASE n = 3
  <2>1. c = [a EXCEPT !["current_time"] = b["current_time"]]
    BY <1>2, <1>5
  <2>2. c.status = a.status /\ c.was_prepared = a.was_prepared
    BY <2>1, Zenon DEF TimerState
  <2> QED
    BY <2>2, Zenon DEF Shows
<1>6. CASE n = 4
  <2>1. c = [a EXCEPT !["was_prepared"] = b["was_prepared"]]
    BY <1>2, <1>6
  <2>2. c.status = a.status /\ c.was_prepared = b.was_prepared
    BY <2>1, Zenon DEF TimerState
  <2> QED
    BY <2>2, Zenon DEF Shows
<1> QED
  BY <1>1, <1>3, <1>4, <1>5, <1>6

(* An entry that makes the loop prepared is a prepare, and what a start    *)
(* remembers is that.                                                      *)
LEMMA IterationShows ==
  ASSUME NEW f \in Fsm, NEW e \in EventEntry, Shows(Iteration(f, e))
  PROVE  Shows(f) \/ e.type = "prepare"
<1>1. CASE Relevant(f, e)
  <2>1. Timed(f, e, Iteration(f, e))
    BY <1>1, IterationTimes
  <2> QED
    BY <2>1, Zenon DEF Timed, Shows
<1>2. CASE ~ Relevant(f, e)
  BY <1>2, Zenon DEF Iteration
<1> QED
  BY <1>1, <1>2

(* A step that leaves the log to its holder.                               *)
LEMMA OutsidePrepares ==
  ASSUME RefinementInv, PostInv', Preparing, NEW t \in Thread,
         Look(t) \/ Refresh(t) \/ Clock(t) \/ SetTime(t) \/ Copy(t) \/ Rest(t) \/ Decide(t)
         \/ Send(t) \/ Move(t) \/ Activate(t) \/ ChangeMap(t) \/ Save(t) \/ Release(t)
  PROVE  Preparing'
<1>1. TypeOK /\ Carrying
  BY DEF RefinementInv, PostInv, IInv
<1>2. /\ pc \in [Thread -> PcLabel] /\ ev \in [Thread -> EventEntry \cup {NoEvent}]
      /\ snap \in [Thread -> TimerState] /\ state \in TimerState
      /\ field \in [Thread -> 1 .. Len(Fields)]
  BY <1>1 DEF TypeOK
<1>3. /\ UNCHANGED logVars /\ holder # t
      /\ holder # NoThread => ev'[holder] = ev[holder]
      /\ \A s \in Thread \ {t} : ev'[s] = ev[s] /\ pc'[s] = pc[s]
      /\ state' = state \/ \E v \in Instant : state' = [state EXCEPT !.current_time = v]
  BY OutsideRefines
<1>4. Prepares' = Prepares /\ fsm' = fsm /\ posted' = posted
  BY <1>3 DEF Prepares, logVars
<1>5. Shows(state') => Prepares
  <2>1. state'.status = state.status /\ state'.was_prepared = state.was_prepared
    BY <1>2, <1>3 DEF TimerState
  <2> QED
    BY <2>1, Zenon DEF Preparing, Shows
<1>6. \A s \in Thread : Shows(snap'[s]) => Prepares
  <2>1. ~ Shows(ZeroState)
    BY Zenon DEF Shows, ZeroState
  <2>2. CASE snap' = snap
    BY <2>2, Zenon DEF Preparing
  <2>3. CASE snap' = [snap EXCEPT ![t] = ZeroState]
    <3>1. snap'[t] = ZeroState /\ \A s \in Thread \ {t} : snap'[s] = snap[s]
      BY <1>2, <2>3, Zenon
    <3> QED
      BY <2>1, <3>1, Zenon DEF Preparing
  <2>4. CASE Copy(t)
    <3>1. snap' = [snap EXCEPT ![t] = [snap[t] EXCEPT ![Member(t)] = state[Member(t)]]]
      BY <1>2, <2>4 DEF Copy
    <3>2. snap'[t] = [snap[t] EXCEPT ![Fields[field[t]]] = state[Fields[field[t]]]]
          /\ \A s \in Thread \ {t} : snap'[s] = snap[s]
      BY <1>2, <3>1, Zenon DEF Member
    <3>3. snap[t] \in TimerState /\ field[t] \in 1 .. Len(Fields)
      BY <1>2
    <3>4. Shows(snap'[t]) => Shows(snap[t]) \/ Shows(state)
      BY <1>2, <3>2, <3>3, CopyShows
    <3> QED
      BY <3>2, <3>4, Zenon DEF Preparing
  <2>5. CASE Clock(t)
    <3>1. snap' = [snap EXCEPT ![t] = [snap[t] EXCEPT !.current_time = now]]
      BY <1>2, <2>5 DEF Clock
    <3>2. /\ snap'[t] = [snap[t] EXCEPT !.current_time = now]
          /\ \A s \in Thread \ {t} : snap'[s] = snap[s]
      BY <1>2, <3>1, Zenon
    <3>3. snap'[t].status = snap[t].status /\ snap'[t].was_prepared = snap[t].was_prepared
      BY <1>2, <3>2 DEF TimerState
    <3>4. Shows(snap'[t]) => Shows(snap[t])
      BY <3>3, Zenon DEF Shows
    <3> QED
      BY <3>2, <3>4, Zenon DEF Preparing
  <2> QED
    BY <2>2, <2>3, <2>4, <2>5
    DEF Look, Refresh, SetTime, Rest, Decide, Send, Move, Activate, ChangeMap, Save, Release
<1>7. /\ pc'[t] = "save" => ~ AutoStart(ev'[t])
      /\ pc'[t] \in {"lock", "eval", "store", "post"} /\ AutoStart(ev'[t]) => Prepares
  <2>1. CASE Look(t) \/ Refresh(t) \/ Clock(t) \/ SetTime(t) \/ Rest(t) \/ Release(t)
    <3>1. pc'[t] \in {"refresh", "clock", "set", "copy", "idle", "released"}
      BY <1>2, <2>1 DEF Look, Refresh, Clock, SetTime, Rest, Release, Goto
    <3> QED
      BY <3>1
  <2>2. CASE Copy(t)
    <3>1. pc'[t] \in {"copy", "looked", "decide"}
      BY <1>2, <2>2 DEF Copy, NextField, Goto
    <3> QED
      BY <3>1
  <2>3. CASE Decide(t)
    <3>1. CASE Admitted(t)
      <4>1. Shows(snap[t])
        BY <3>1, Zenon DEF Admitted, Shows
      <4>2. Prepares /\ pc'[t] # "save"
        BY <1>2, <2>3, <4>1 DEF Preparing, Decide, Goto
      <4> QED
        BY <4>2
    <3>2. CASE ~ Admitted(t)
      <4>1. pc'[t] = "idle"
        BY <1>2, <2>3, <3>2 DEF Decide, Goto
      <4> QED
        BY <4>1
    <3> QED
      BY <3>1, <3>2
  <2>4. CASE Send(t)
    <3>1. ev'[t] \in Offered(t)
      BY <1>2, <2>4 DEF Send, Carry
    <3>2. Role[t] \in {"imgui", "window", "combat", "deferred"}
      BY RoleAssumption
    <3>3. ~ AutoStart(ev'[t])
      BY <3>1, <3>2 DEF Offered, Plain, AutoStart
    <3> QED
      BY <3>3
  <2>5. CASE Move(t)
    <3>1. Shows(snap[t])
      BY <2>5, Zenon DEF Move, Shows
    <3>2. Prepares /\ pc'[t] = "lock"
      BY <1>2, <2>5, <3>1 DEF Preparing, Move, Goto
    <3> QED
      BY <3>2
  <2>6. CASE Activate(t)
    <3>1. pc'[t] = "refresh"
      BY <1>2, <2>6 DEF Activate, Goto
    <3> QED
      BY <3>1
  <2>7. CASE ChangeMap(t)
    <3>1. PICK e \in [time : {now + 1}, type : {"map_change"}, source : {"other"},
                      uuid : NewUuids, name : Name] : ev' = [ev EXCEPT ![t] = e]
      BY <2>7 DEF ChangeMap, Carry
    <3>2. ~ AutoStart(ev'[t])
      BY <1>2, <3>1 DEF AutoStart
    <3> QED
      BY <3>2
  <2>8. CASE Save(t)
    <3>1. pc[t] = "save" /\ ev' = ev
      BY <2>8 DEF Save
    <3>2. ~ AutoStart(ev'[t])
      BY <3>1 DEF Preparing
    <3> QED
      BY <3>2
  <2> QED
    BY <2>1, <2>2, <2>3, <2>4, <2>5, <2>6, <2>7, <2>8
<1>8. \A s \in Thread :
        /\ pc'[s] = "save" => ~ AutoStart(ev'[s])
        /\ pc'[s] \in {"lock", "eval", "store", "post"} /\ AutoStart(ev'[s]) => Prepares
  BY <1>3, <1>7 DEF Preparing
<1>9. AutoStartsWerePrepared'
  BY <1>4 DEF Preparing, AutoStartsWerePrepared
<1>10. Shows(fsm') => Prepares
  BY <1>4, Zenon DEF Preparing
<1> QED
  BY <1>4, <1>5, <1>6, <1>8, <1>9, <1>10, Zenon DEF Preparing

(* The steps of the thread that holds the lock or takes it.                *)
LEMMA InsidePrepares ==
  ASSUME RefinementInv, PostInv', Preparing, NEW t \in Thread,
         Lock(t) \/ Iterate(t) \/ Erase(t) \/ Store(t) \/ Post(t)
  PROVE  Preparing'
<1>1. TypeOK /\ Carrying /\ LockHeld /\ EntriesArePosted
  BY DEF RefinementInv, PostInv, IInv
<1>2. /\ pc \in [Thread -> PcLabel] /\ ev \in [Thread -> EventEntry \cup {NoEvent}]
      /\ state \in TimerState /\ field \in [Thread -> 1 .. Len(Fields)] /\ fsm \in Fsm
      /\ entries \in Seq(EventEntry) /\ posted \in Seq(EventEntry)
  BY <1>1 DEF TypeOK
<1>3. /\ snap' = snap /\ \A s \in Thread \ {t} : pc'[s] = pc[s] /\ ev'[s] = ev[s]
      /\ pc[t] \in {"lock", "eval", "store", "post"}
  BY <1>2 DEF Lock, Iterate, Erase, Store, Post, Goto, NextField
<1>4. \A s \in Thread :
        /\ pc'[s] = "save" => ~ AutoStart(ev'[s])
        /\ pc'[s] \in {"lock", "eval", "store", "post"} /\ AutoStart(ev'[s]) => Prepares
  <2>1. CASE Post(t)
    <3>1. pc'[t] = "idle"
      BY <1>2, <2>1 DEF Post, Goto
    <3> QED
      BY <1>3, <3>1 DEF Preparing
  <2>2. CASE ~ Post(t)
    <3>1. ev' = ev /\ pc'[t] # "save"
      BY <1>2, <2>2 DEF Lock, Iterate, Erase, Store, Goto, NextField
    <3> QED
      BY <1>3, <3>1 DEF Preparing
  <2> QED
    BY <2>1, <2>2
<1>5. Prepares => Prepares'
  <2>1. CASE Lock(t)
    BY <2>1 DEF Lock, Prepares
  <2>2. CASE Iterate(t) \/ Erase(t) \/ Store(t)
    BY <2>2 DEF Iterate, Erase, Store, Prepares, logVars
  <2>3. CASE Post(t)
    <3>1. posted' = Append(posted, ev[t]) /\ holder = t /\ ev[t] \in EventEntry
      BY <1>1, <1>2, <2>3 DEF Post, LockHeld, Carrying
    <3>2. /\ Len(posted) \in Nat /\ Len(posted') = Len(posted) + 1
          /\ posted'[Len(posted) + 1] = ev[t]
          /\ \A j \in 1 .. Len(posted) : posted'[j] = posted[j]
      BY <1>2, <3>1
    <3>3. CASE \E j \in 1 .. Len(posted) : posted[j].type = "prepare"
      BY <3>2, <3>3 DEF Prepares
    <3>4. CASE ev[t].type = "prepare"
      <4>1. Len(posted) + 1 \in 1 .. Len(posted')
        BY <3>2
      <4> QED
        BY <3>2, <3>4, <4>1 DEF Prepares
    <3> QED
      BY <3>1, <3>3, <3>4 DEF Prepares
  <2> QED
    BY <2>1, <2>2, <2>3
<1>6. Shows(fsm') => Prepares
  <2>1. CASE Lock(t)
    <3>1. fsm' = FsmInit
      BY <2>1 DEF Lock
    <3> QED
      BY <3>1, Zenon DEF Shows, FsmInit
  <2>2. CASE Iterate(t)
    <3> DEFINE e == entries[cursor + 1]
    <3>1. fsm' = Iteration(fsm, e) /\ cursor + 1 \in 1 .. Len(entries)
      BY <1>1, <2>2 DEF Iterate, TypeOK
    <3>2. e \in EventEntry
      BY <1>2, <3>1
    <3>3. Shows(fsm') => Shows(fsm) \/ e.type = "prepare"
      BY <1>2, <3>1, <3>2, IterationShows
    <3>4. e.type = "prepare" => Prepares
      BY <1>1, <3>1 DEF EntriesArePosted, Prepares
    <3> QED
      BY <3>3, <3>4, Zenon DEF Preparing
  <2>3. CASE Erase(t) \/ Store(t) \/ Post(t)
    <3>1. fsm' = fsm
      BY <2>3 DEF Erase, Store, Post, logVars
    <3> QED
      BY <3>1, Zenon DEF Preparing
  <2> QED
    BY <2>1, <2>2, <2>3
<1>7. Shows(state') => Prepares
  <2>1. CASE Store(t)
    <3>1. state' = [state EXCEPT ![Fields[field[t]]] = Result(fsm)[Fields[field[t]]]]
      BY <2>1 DEF Store, Member
    <3>2. Result(fsm) \in TimerState
      <4>1. /\ fsm.status \in TimerStatus /\ fsm.start \in Instant /\ fsm.stop \in Instant
            /\ fsm.was_prepared \in BOOLEAN
        BY <1>2, FsmTypes
      <4> QED
        BY <4>1, Zenon DEF Result, TimerState
    <3>3. Shows(state') => Shows(state) \/ Shows(Result(fsm))
      BY <1>2, <3>1, <3>2, CopyShows
    <3>4. Shows(Result(fsm)) => Shows(fsm)
      BY Zenon DEF Shows, Result
    <3> QED
      BY <3>3, <3>4, Zenon DEF Preparing
  <2>2. CASE ~ Store(t)
    <3>1. state' = state
      BY <2>2 DEF Lock, Iterate, Erase, Post
    <3> QED
      BY <3>1, Zenon DEF Preparing
  <2> QED
    BY <2>1, <2>2
<1>8. AutoStartsWerePrepared'
  <2>1. CASE Post(t)
    <3>1. posted' = Append(posted, ev[t]) /\ pc[t] = "post" /\ holder = t /\ ev[t] \in EventEntry
      BY <1>1, <1>2, <2>1 DEF Post, LockHeld, Carrying
    <3>2. /\ Len(posted) \in Nat /\ Len(posted') = Len(posted) + 1
          /\ posted'[Len(posted) + 1] = ev[t]
          /\ \A j \in 1 .. Len(posted) : posted'[j] = posted[j]
      BY <1>2, <3>1
    <3>3. AutoStart(ev[t]) => \E j \in 1 .. Len(posted) : posted[j].type = "prepare"
      BY <3>1 DEF Preparing, Prepares, AutoStart
    <3>4. ASSUME NEW i \in 1 .. Len(posted'), AutoStart(posted'[i])
          PROVE  \E j \in 1 .. i - 1 : posted'[j].type = "prepare"
      <4>1. CASE i = Len(posted) + 1
        BY <3>2, <3>3, <3>4, <4>1
      <4>2. CASE i \in 1 .. Len(posted)
        <5>1. PICK j \in 1 .. i - 1 : posted[j].type = "prepare"
          BY <3>2, <3>4, <4>2 DEF Preparing, AutoStartsWerePrepared
        <5> QED
          BY <3>2, <4>2, <5>1
      <4> QED
        BY <3>2, <4>1, <4>2
    <3> QED
      BY <3>4 DEF AutoStartsWerePrepared
  <2>2. CASE ~ Post(t)
    <3>1. posted' = posted
      BY <2>2 DEF Lock, Iterate, Erase, Store, logVars
    <3> QED
      BY <3>1 DEF Preparing, AutoStartsWerePrepared
  <2> QED
    BY <2>1, <2>2
<1>9. \A s \in Thread : Shows(snap'[s]) => Prepares
  BY <1>3, Zenon DEF Preparing
<1> QED
  BY <1>4, <1>5, <1>6, <1>7, <1>8, <1>9, Zenon DEF Preparing

(* An automatic start follows a prepare in the order in which the group is *)
(* told of them, for any threads, however the copies they judge by are     *)
(* torn.  (eventstore.cpp:20-26, timer.cpp: Timer::mod_imgui)              *)
THEOREM AutoStartsArePrepared == Spec => []AutoStartsWerePrepared
<1>1. Init => RefinementInv /\ Preparing
  <2> SUFFICES ASSUME Init PROVE RefinementInv /\ Preparing
    OBVIOUS
  <2>1. /\ fsm = FsmInit /\ state = ZeroState /\ posted = <<>>
        /\ \A t \in Thread : snap[t] = ZeroState /\ pc[t] = "idle"
    BY DEF Init
  <2>2. ~ Shows(FsmInit) /\ ~ Shows(ZeroState)
    BY Zenon DEF Shows, FsmInit, ZeroState
  <2>3. AutoStartsWerePrepared
    BY <2>1, EmptyLog DEF AutoStartsWerePrepared
  <2> QED
    BY <2>1, <2>2, <2>3, InitRefines DEF Preparing
<1>2. RefinementInv /\ Preparing /\ [Next]_vars => (RefinementInv /\ Preparing)'
  <2> SUFFICES ASSUME RefinementInv, Preparing, [Next]_vars
               PROVE  (RefinementInv /\ Preparing)'
    OBVIOUS
  <2>1. RefinementInv' /\ PostInv'
    BY NextRefines DEF RefinementInv
  <2>2. CASE Aside
    <3>1. UNCHANGED <<logVars, state, pc, ev, snap>>
      BY <2>2 DEF Aside, Tick, WriteLog, vars
    <3>2. Prepares' = Prepares /\ fsm' = fsm /\ posted' = posted
      BY <3>1 DEF Prepares, logVars
    <3> QED
      BY <2>1, <3>1, <3>2, Zenon DEF Preparing, AutoStartsWerePrepared
  <2>3. ASSUME NEW t \in Thread, Run(t) \/ Call(t) PROVE Preparing'
    BY <2>1, <2>3, OutsidePrepares, InsidePrepares DEF Run, Call
  <2> QED
    BY <2>1, <2>2, <2>3 DEF Next, Aside
<1>3. Preparing => AutoStartsWerePrepared
  BY DEF Preparing
<1> QED
  BY <1>1, <1>2, <1>3, PTL DEF Spec

-----------------------------------------------------------------------------
(* Adding an event comes to an end: what remains of EventsArrive without   *)
(* fairness.                                                               *)

Adding == {"lock", "eval", "store", "post"}

(* How many steps the holder of the lock has left at most.                 *)
Remaining ==
  IF pc[holder] = "eval" THEN Len(entries) - cursor + 6
  ELSE IF pc[holder] = "store" THEN 6 - field[holder]
  ELSE 1

(* A step of the holder brings it closer to the release of the lock, at    *)
(* which it hands over its event; no other thread and no tick of the clock *)
(* adds to its work or takes the lock from it.                             *)
HolderMovesOn ==
  \A t \in Thread : holder = t =>
    /\ Remaining \in Nat \ {0}
    /\ Run(t) => \/ holder' = t /\ Remaining' < Remaining
                 \/ holder' = NoThread /\ posted' = Append(posted, ev[t])
    /\ ~ Run(t) => UNCHANGED <<holder, entries, cursor, posted, Remaining>>

(* A thread in add_event stays there with its event until it hands it over. *)
EventIsCarried ==
  \A t \in Thread : pc[t] \in Adding =>
    \/ pc'[t] \in Adding /\ ev'[t] = ev[t]
    \/ holder = t /\ pc'[t] = "idle" /\ posted' = Append(posted, ev[t])

LEMMA RemainingSteps ==
  ASSUME IInv, NEW t \in Thread, holder = t
  PROVE  /\ Remaining \in Nat \ {0}
         /\ pc[t] = "eval" => Len(entries) - cursor \in Nat
         /\ pc[t] \in {"eval", "store", "post"} /\ field[t] \in 1 .. 4
<1>1. pc[t] \in {"eval", "store", "post"} /\ field[t] \in 1 .. 4
  BY DEF IInv, TypeOK, LockHeld, Fields
<1>2. pc[t] = "eval" => cursor \in Nat /\ Len(entries) \in Nat /\ cursor <= Len(entries)
  <2>1. pc[t] = "eval" => Evaluating
    BY NoneAssumption DEF Evaluating
  <2> QED
    BY <2>1 DEF IInv, TypeOK, LoopInvariant
<1> QED
  BY <1>1, <1>2 DEF Remaining

LEMMA OwnStepMovesOn ==
  ASSUME IInv, NEW t \in Thread, holder = t, Run(t)
  PROVE  \/ holder' = t /\ Remaining' < Remaining
         \/ holder' = NoThread /\ posted' = Append(posted, ev[t])
<1>1. pc[t] \in {"eval", "store", "post"} /\ field[t] \in 1 .. 4
      /\ (pc[t] = "eval" => Len(entries) - cursor \in Nat)
  BY RemainingSteps
<1>2. pc \in [Thread -> PcLabel] /\ field \in [Thread -> 1 .. 4] /\ cursor \in Nat
  BY DEF IInv, TypeOK, Fields
<1>3. Iterate(t) \/ Erase(t) \/ Store(t) \/ Post(t)
  BY <1>1 DEF Run, Refresh, Clock, SetTime, Copy, Save, Decide, Lock
<1>4. CASE Iterate(t)
  <2>1. UNCHANGED <<entries, holder, pc>> /\ cursor' = cursor + 1 /\ pc[t] = "eval"
    BY <1>4 DEF Iterate
  <2> QED
    BY <1>1, <1>2, <2>1 DEF Remaining
<1>5. CASE Erase(t)
  <2>1. holder' = holder /\ pc'[t] = "store" /\ field' = field /\ pc[t] = "eval"
    BY <1>2, <1>5 DEF Erase, Goto
  <2> QED
    BY <1>1, <2>1 DEF Remaining
<1>6. CASE Store(t)
  <2>1. holder' = holder /\ pc[t] = "store"
    BY <1>6 DEF Store, logVars
  <2>2. CASE field[t] = 4
    <3>1. pc'[t] = "post"
      BY <1>2, <1>6, <2>2 DEF Store, NextField, Goto, Fields
    <3> QED
      BY <2>1, <2>2, <3>1 DEF Remaining
  <2>3. CASE field[t] # 4
    <3>1. pc'[t] = "store" /\ field'[t] = field[t] + 1
      BY <1>2, <1>6, <2>3 DEF Store, NextField, Goto, Fields
    <3> QED
      BY <1>1, <2>1, <3>1 DEF Remaining
  <2> QED
    BY <2>2, <2>3
<1>7. CASE Post(t)
  BY <1>7 DEF Post
<1> QED
  BY <1>3, <1>4, <1>5, <1>6, <1>7

LEMMA CallCarries ==
  ASSUME NEW t \in Thread, Call(t)
  PROVE  ev' = ev \/ \E e : ev' = [ev EXCEPT ![t] = e]
BY Zenon DEF Call, Look, Send, Move, Activate, Rest, ChangeMap, Release, Carry

LEMMA OtherStepLeavesBe ==
  ASSUME IInv, NEW t \in Thread, holder = t, [Next]_vars, ~ Run(t)
  PROVE  UNCHANGED <<holder, entries, cursor, posted, Remaining>> /\ pc'[t] = pc[t]
         /\ ev'[t] = ev[t]
<1>1. /\ pc[t] \in {"eval", "store", "post"}
      /\ pc \in [Thread -> PcLabel] /\ field \in [Thread -> 1 .. 4]
      /\ ev \in [Thread -> EventEntry \cup {NoEvent}]
      /\ \A s \in Thread \ {t} : pc[s] \notin {"eval", "store", "post"}
  BY RemainingSteps DEF IInv, TypeOK, Fields, LockHeld
<1>2. /\ UNCHANGED <<holder, entries, cursor, posted>>
      /\ pc'[t] = pc[t] /\ field'[t] = field[t] /\ ev'[t] = ev[t]
  <2>1. CASE Aside
    BY <2>1 DEF Aside, Tick, WriteLog, vars, logVars
  <2>2. ASSUME NEW s \in Thread, Call(s)
        PROVE  <1>2!1 /\ <1>2!2
    <3>1. s # t
      BY <1>1, <2>2 DEF Call, Look, Send, Move, Activate, Rest, ChangeMap, Release
    <3>2. UNCHANGED logVars /\ field' = field
      BY <2>2 DEF Call, Look, Send, Move, Activate, Rest, ChangeMap, Release
    <3>3. \E label : pc' = [pc EXCEPT ![s] = label]
      BY <2>2, Zenon DEF Call, Look, Send, Move, Activate, Rest, ChangeMap, Release, Goto
    <3>4. ev' = ev \/ \E e : ev' = [ev EXCEPT ![s] = e]
      BY <2>2, CallCarries
    <3> QED
      BY <1>1, <3>1, <3>2, <3>3, <3>4 DEF logVars
  <2>3. ASSUME NEW s \in Thread \ {t}, Run(s)
        PROVE  <1>2!1 /\ <1>2!2
    <3>1. Refresh(s) \/ Clock(s) \/ SetTime(s) \/ Copy(s) \/ Save(s) \/ Decide(s)
      BY <1>1, <2>3, NoneAssumption DEF Run, Lock, Iterate, Erase, Store, Post
    <3> QED
      BY <1>1, <3>1 DEF Refresh, Clock, SetTime, Copy, Save, Decide, Goto, NextField, logVars
  <2> QED
    BY <2>1, <2>2, <2>3 DEF Next, Aside
<1> QED
  BY <1>1, <1>2 DEF Remaining

LEMMA AddingIsCarried ==
  ASSUME IInv, NEW t \in Thread, pc[t] \in Adding, [Next]_vars
  PROVE  \/ pc'[t] \in Adding /\ ev'[t] = ev[t]
         \/ holder = t /\ pc'[t] = "idle" /\ posted' = Append(posted, ev[t])
<1>1. /\ pc \in [Thread -> PcLabel] /\ ev \in [Thread -> EventEntry \cup {NoEvent}]
      /\ (pc[t] = "post" => holder = t)
  BY DEF IInv, TypeOK, LockHeld
<1>2. CASE Aside
  BY <1>2 DEF Aside, Tick, WriteLog, vars
<1>3. ASSUME NEW s \in Thread \ {t}, Run(s) \/ Call(s)
      PROVE  pc'[t] = pc[t] /\ ev'[t] = ev[t]
  <2>1. pc' = pc \/ \E label : pc' = [pc EXCEPT ![s] = label]
    BY <1>3, Zenon
    DEF Run, Refresh, Clock, SetTime, Copy, Save, Decide, Lock, Iterate, Erase, Store, Post, NextField,
        Goto, Call, Look, Send, Move, Activate, Rest, ChangeMap, Release
  <2>2. ev' = ev \/ \E e : ev' = [ev EXCEPT ![s] = e]
    <3>1. Run(s) => ev' = ev \/ ev' = [ev EXCEPT ![s] = NoEvent]
      BY DEF Run, Refresh, Clock, SetTime, Copy, Save, Decide, Lock, Iterate, Erase, Store, Post
    <3> QED
      BY <1>3, <3>1, CallCarries
  <2> QED
    BY <1>1, <1>3, <2>1, <2>2
<1>4. CASE Run(t)
  <2>1. CASE Post(t)
    BY <1>1, <2>1 DEF Post, Goto
  <2>2. CASE Lock(t) \/ Iterate(t) \/ Erase(t) \/ Store(t)
    BY <1>1, <2>2 DEF Lock, Iterate, Erase, Store, NextField, Goto, Adding
  <2> QED
    BY <1>4, <2>1, <2>2 DEF Run, Refresh, Clock, SetTime, Copy, Save, Decide, Adding
<1>5. ~ Call(t)
  BY DEF Call, Look, Send, Move, Activate, Rest, ChangeMap, Release, Adding
<1> QED
  BY <1>2, <1>3, <1>4, <1>5 DEF Next, Adding, Aside

(* An event that reached add_event stays with its thread until it is       *)
(* handed over; the lock is released after a number of steps of its holder *)
(* that is bounded by the log, whatever the other threads do.  What        *)
(* EventsArrive needs beyond that is that threads are scheduled and that   *)
(* the mutex is not taken by others for ever.  (eventstore.cpp:275-287)    *)
THEOREM AddsComeToAnEnd == Spec => [][HolderMovesOn /\ EventIsCarried]_vars
<1>1. IInv /\ [Next]_vars => [HolderMovesOn /\ EventIsCarried]_vars
  <2> SUFFICES ASSUME IInv, [Next]_vars PROVE HolderMovesOn /\ EventIsCarried
    OBVIOUS
  <2>1. HolderMovesOn
    <3> SUFFICES ASSUME NEW t \in Thread, holder = t
                 PROVE  HolderMovesOn!(t)!2
      BY DEF HolderMovesOn
    <3>1. Remaining \in Nat \ {0}
      BY RemainingSteps
    <3>2. Run(t) => \/ holder' = t /\ Remaining' < Remaining
                    \/ holder' = NoThread /\ posted' = Append(posted, ev[t])
      BY OwnStepMovesOn
    <3>3. ~ Run(t) => UNCHANGED <<holder, entries, cursor, posted, Remaining>>
      BY OtherStepLeavesBe
    <3> QED
      BY <3>1, <3>2, <3>3
  <2>2. EventIsCarried
    BY AddingIsCarried DEF EventIsCarried
  <2> QED
    BY <2>1, <2>2
<1> QED
  BY <1>1, Invariance, PTL DEF Spec

-----------------------------------------------------------------------------
(* What TimerLog's theorems say of the store, through the refinement: the  *)
(* history, the segments and the entries that were dropped are as TimerLog *)
(* promises, whatever the threads do.                                      *)

Lifted ==
  INSTANCE TimerLogProofs WITH
    Input     <- Sent,
    log       <- Log,
    state     <- Outcome,
    history   <- IF Evaluating THEN Stored.history ELSE fsm.history,
    segments  <- IF Evaluating THEN Stored.segments ELSE fsm.segments,
    received  <- IF Committing THEN Append(posted, ev[holder]) ELSE posted

LEMMA LiftedFills ==
  ASSUME NEW f, NEW e, NEW stop, NEW name
  PROVE  Lifted!FillSegment(f, e, stop, name) = FillSegment(f, e, stop, name)
BY DEF Lifted!FillSegment, FillSegment, Lifted!Filled, Filled, Lifted!IsNewSlot, IsNewSlot,
       Lifted!EmptySegment, EmptySegment, Lifted!MinOf, MinOf

LEMMA LiftedTransition ==
  ASSUME NEW f, NEW e
  PROVE  Lifted!Transition(f, e) = Transition(f, e)
<1>1. /\ Lifted!OnMapChange(f, e) = OnMapChange(f, e)
      /\ Lifted!OnReset(f, e) = OnReset(f, e)
      /\ Lifted!OnHistoryClear(f) = OnHistoryClear(f)
      /\ Lifted!OnSegmentClear(f) = OnSegmentClear(f)
      /\ Lifted!OnStart(f, e) = OnStart(f, e)
      /\ Lifted!OnPrepare(f, e) = OnPrepare(f, e)
  BY DEF Lifted!OnMapChange, OnMapChange, Lifted!OnReset, OnReset, Lifted!OnHistoryClear,
         OnHistoryClear, Lifted!OnSegmentClear, OnSegmentClear, Lifted!OnStart, OnStart,
         Lifted!OnPrepare, OnPrepare, Lifted!NameOr, NameOr, Lifted!Unset, Unset
<1>2. /\ Lifted!OnSegment(f, e) = OnSegment(f, e)
      /\ Lifted!OnStopRunning(f, e) = OnStopRunning(f, e)
      /\ Lifted!OnStopPrepared(f, e) = OnStopPrepared(f, e)
  BY LiftedFills DEF Lifted!OnSegment, OnSegment, Lifted!OnStopRunning, OnStopRunning,
                      Lifted!OnStopPrepared, OnStopPrepared, Lifted!NameOr, NameOr
<1> QED
  BY <1>1, <1>2 DEF Lifted!Transition, Transition

LEMMA LiftedEvalStep ==
  ASSUME NEW acc, NEW e
  PROVE  Lifted!EvalStep(acc, e) = EvalStep(acc, e)
<1>1. \A f : Lifted!Relevant(f, e) = Relevant(f, e)
  BY DEF Lifted!Relevant, Relevant
<1>2. \A f : Lifted!Iteration(f, e) = Iteration(f, e)
  BY <1>1, LiftedTransition DEF Lifted!Iteration, Iteration
<1> QED
  BY <1>1, <1>2 DEF Lifted!EvalStep, EvalStep

LEMMA LiftedEval ==
  ASSUME NEW s
  PROVE  Lifted!Eval(s) = Eval(s)
<1> DEFINE Body(g) == [t \in SUBSET DOMAIN s |->
             IF t = {} THEN [fsm |-> Lifted!FsmInit, kept |-> <<>>]
             ELSE Lifted!EvalStep(g[t \ {Max(t)}], s[Max(t)])]
<1>1. Lifted!Eval(s) = (CHOOSE g : g = Body(g))[DOMAIN s]
  BY DEF Lifted!Eval, Lifted!FoldLeft, Lifted!MapThenFoldSet, Lifted!Max, Max
<1>2. Eval(s) = (CHOOSE g : g = Fold(s, DOMAIN s, g))[DOMAIN s]
  BY DEF Eval, FoldLeft, MapThenFoldSet, Fold, Base
<1>3. \A g : Body(g) = Fold(s, DOMAIN s, g)
  BY LiftedEvalStep DEF Fold, Base, FsmInit, Lifted!FsmInit
<1> HIDE DEF Body
<1>4. (CHOOSE g : g = Body(g)) = (CHOOSE g : g = Fold(s, DOMAIN s, g))
  BY <1>3
<1> QED
  BY <1>1, <1>2, <1>4

LEMMA LiftedSorts ==
  ASSUME NEW s
  PROVE  Lifted!SortedForms(s) = SortedForms(s)
<1>1. \A n : Lifted!Orderings(n) = Orderings(n)
  BY DEF Lifted!Orderings, Orderings, Lifted!Bijection, Bijection, Lifted!Injection, Injection,
         Lifted!Surjection, Surjection, Lifted!IsInjective, IsInjective
<1>2. \A t : Lifted!Sorted(t) = Sorted(t)
  BY DEF Lifted!Sorted, Sorted, Lifted!Before, Before
<1> QED
  BY <1>1, <1>2 DEF Lifted!SortedForms, SortedForms

(* The promise is what TimerLog's theorems are about.                      *)
LEMMA LiftedSteps ==
  /\ Promise!Init => Lifted!Init
  /\ [Promise!Next]_(Promise!vars) => [Lifted!Next]_(Lifted!vars)
<1>1. Promise!Init => Lifted!Init
  BY DEF Promise!Init, Lifted!Init
<1>2. ASSUME NEW e PROVE Promise!Add(e) <=> Lifted!Add(e)
  BY PromiseEval, LiftedEval, PromiseSorts, LiftedSorts
  DEF Promise!Add, Lifted!Add, Promise!Verdict, Lifted!Verdict
<1>3. ASSUME NEW e, NEW seen PROVE Promise!IsNew(e, seen) <=> Lifted!IsNew(e, seen)
  BY DEF Promise!IsNew, Lifted!IsNew
<1>4. \A s : Promise!ToSet(s) = Lifted!ToSet(s)
  BY DEF Promise!ToSet, Lifted!ToSet
<1>5. Promise!Next => Lifted!Next
  BY <1>2, <1>3, <1>4 DEF Promise!Next, Lifted!Next, Promise!Arrive, Lifted!Arrive
<1> QED
  BY <1>1, <1>5 DEF Promise!vars, Lifted!vars

(* Only entries are sent.                                                  *)
LEMMA SentAreEntries == Sent \subseteq Lifted!EventEntry
<1> SUFFICES ASSUME NEW n \in 1 .. MaxNow - 1 PROVE SentAt(n) \subseteq EventEntry
  BY DEF Sent, Lifted!EventEntry, EventEntry, Lifted!Time, Time, Lifted!EventType, EventType,
         Lifted!EventSource, EventSource
<1>1. n + 1 \in Time /\ Draw[n] \subseteq Uuid
  BY ClockAssumption, TimeMaxAssumption, DrawAssumption DEF Time
<1>2. {k \in Time : n + 1 - Lag <= k /\ k <= n + 1} \subseteq Time
  OBVIOUS
<1>3. /\ Keys \cup {"segment_clear", "history_clear"} \in SUBSET EventType
      /\ \A type \in {"start", "stop", "prepare", "map_change", "segment"} : type \in EventType
      /\ \A source \in {"manual", "combat", "movement", "other"} : source \in EventSource
  BY DEF Keys, EventType, EventSource
<1> DEFINE Stamped(types, source, times, uuids, names) ==
             [time : times, type : types, source : {source}, uuid : uuids, name : names]
<1>4. ASSUME NEW types \in SUBSET EventType, NEW source \in EventSource,
             NEW times \in SUBSET Time, NEW uuids \in SUBSET Uuid,
             NEW names \in SUBSET (Name \cup {NoName})
      PROVE  Stamped(types, source, times, uuids, names) \subseteq EventEntry
  BY <1>4, Zenon DEF EventEntry
<1>5. SentAt(n) =
        Stamped(Keys \cup {"segment_clear", "history_clear"}, "manual", {n + 1}, Draw[n], {NoName})
        \cup Stamped({"start"}, "movement", {n + 1}, Draw[n], {NoName})
        \cup Stamped({"start"}, "combat", {k \in Time : n + 1 - Lag <= k /\ k <= n + 1},
                     Draw[n], {NoName})
        \cup Stamped({"stop"}, "combat", {n + 1}, Draw[n], {NoName})
        \cup Stamped({"prepare"}, "other", {n + 1}, Draw[n], {NoName})
        \cup Stamped({"map_change"}, "other", {n + 1}, Draw[n], Name)
        \cup Stamped({"segment"}, "combat", {n + 1}, RegionUuid, Name)
  BY DEF SentAt
<1> HIDE DEF Stamped
<1>6. /\ {n + 1} \in SUBSET Time /\ Draw[n] \in SUBSET Uuid /\ RegionUuid \in SUBSET Uuid
      /\ {NoName} \in SUBSET (Name \cup {NoName}) /\ Name \in SUBSET (Name \cup {NoName})
  BY <1>1, RegionAssumption
<1> QED
  BY <1>2, <1>3, <1>4, <1>5, <1>6

LEMMA LiftedHolds == Spec => Lifted!Spec
<1>1. Init => RefinementInv /\ Lifted!Init
  BY InitRefines, LiftedSteps
<1>2. RefinementInv /\ [Next]_vars => RefinementInv' /\ [Lifted!Next]_(Lifted!vars)
  BY NextRefines, LiftedSteps DEF Refines
<1> QED
  BY <1>1, <1>2, PTL DEF Spec, Lifted!Spec

(* Whatever the threads do, what is on display is what the stored entries  *)
(* evaluate to, and the entries that were dropped had no part in it.       *)
(* (eventstore.cpp: add_event, reevaluate_state)                           *)
THEOREM StoredLogIsStable == Spec => []Promise!ReevaluationStable
<1>1. Lifted!ReevaluationStable => Promise!ReevaluationStable
  BY PromiseEval, LiftedEval
  DEF Lifted!ReevaluationStable, Promise!ReevaluationStable, Lifted!Verdict, Promise!Verdict
<1>2. Lifted!Spec => []Lifted!ReevaluationStable
  BY Lifted!ReevaluationIsStable, SentAreEntries, RegionAssumption, TimeMaxAssumption,
     NameAssumption, UuidAssumption
<1> QED
  BY <1>1, <1>2, LiftedHolds, PTL

(* As long as the events that were handed to the group are in the order of *)
(* time, they evaluate to what is on display, although the store dropped   *)
(* some of them.  (eventstore.cpp: erase_if in reevaluate_state)           *)
THEOREM StoredPruningLosesNothing == Spec => []Promise!PruningIsExact
<1>1. Lifted!PruningIsExact => Promise!PruningIsExact
  BY PromiseEval, LiftedEval
  DEF Lifted!PruningIsExact, Promise!PruningIsExact, Lifted!Verdict, Promise!Verdict,
      Lifted!Sorted, Promise!Sorted, Lifted!Before, Promise!Before
<1>2. Lifted!Spec => []Lifted!PruningIsExact
  BY Lifted!PruningLosesNothing, SentAreEntries, RegionAssumption, TimeMaxAssumption,
     NameAssumption, UuidAssumption
<1> QED
  BY <1>1, <1>2, LiftedHolds, PTL

(* The history of the store holds each run of its log once, with its start,*)
(* its end and its map, however the threads that added them interleaved.   *)
(* (eventstore.cpp: reevaluate_state)                                      *)
THEOREM StoredHistoryHasTheRuns == Spec => []Promise!HistoryIsTheRuns
<1>1. Lifted!HistoryIsTheRuns => Promise!HistoryIsTheRuns
  BY DEF Lifted!HistoryIsTheRuns, Promise!HistoryIsTheRuns, Lifted!RunsIn, Promise!RunsIn,
         Lifted!MapAt, Promise!MapAt, Lifted!NameOr, Promise!NameOr,
         Lifted!Cardinality, Promise!Cardinality
<1>2. Lifted!Spec => []Lifted!HistoryIsTheRuns
  BY Lifted!HistoryHasTheRuns, SentAreEntries, RegionAssumption, TimeMaxAssumption,
     NameAssumption, UuidAssumption
<1> QED
  BY <1>1, <1>2, LiftedHolds, PTL

(* The segments of the store cut a run into consecutive pieces, whichever  *)
(* threads trigger, stop and clear them.  (eventstore.cpp: segment_index   *)
(* and the vectors of reevaluate_state)                                    *)
THEOREM StoredSegmentsAreChained == Spec => []Promise!SegmentsChain
<1>1. Lifted!SegmentsChain => Promise!SegmentsChain
  BY DEF Lifted!SegmentsChain, Promise!SegmentsChain, Lifted!Ends, Promise!Ends, Lifted!RunsIn,
         Promise!RunsIn
<1>2. Lifted!Spec => []Lifted!SegmentsChain
  BY Lifted!SegmentsAreChained, SentAreEntries, RegionAssumption, TimeMaxAssumption,
     NameAssumption, UuidAssumption
<1> QED
  BY <1>1, <1>2, LiftedHolds, PTL

=============================================================================
