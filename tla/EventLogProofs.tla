--------------------------- MODULE EventLogProofs ---------------------------
(***************************************************************************)
(* Lemmas about the operators of EventLog, for TimerLog, EventStore and    *)
(* MapChange: what an iteration of the evaluation does to the locals, what *)
(* sorting does, and what the evaluation of a log with one more entry is.  *)
(*                                                                         *)
(* The evaluation is a fold, that is a recursive function on the subsets   *)
(* of the positions of the log.  EvalAppend says what it does with one     *)
(* more entry, by induction on the length of the log; every fact about a   *)
(* log then follows by induction along its entries (SeqInduction).         *)
(***************************************************************************)
EXTENDS EventLog, WellFoundedInduction, SequenceTheorems, FiniteSetTheorems, TLAPS

-----------------------------------------------------------------------------
(* The FSM.                                                                *)

(* A filled slot is a segment, if segment_index is in bounds.              *)
LEMMA FilledType ==
  ASSUME NEW f \in Fsm, NEW e \in EventEntry, NEW stop \in Instant,
         NEW name \in Label \cup {NoName}, f.segment_index <= Len(f.segments)
  PROVE  Filled(f, e, stop, name) \in TimeSegment
<1> DEFINE old == IF IsNewSlot(f) THEN EmptySegment ELSE f.segments[f.segment_index + 1]
<1>1. /\ f.segments \in Seq(TimeSegment) /\ f.segment_index \in Nat
      /\ f.segment \in Instant /\ f.start \in Instant /\ e.time \in Instant
  BY TimeMaxAssumption DEF Fsm, EventEntry, Time, Instant
<1>2. old \in TimeSegment
  <2>1. EmptySegment \in TimeSegment
    <3>1. 0 \in Instant /\ 0 \in Int
      BY TimeMaxAssumption DEF Instant
    <3>2. "" \in Label
      BY Zenon DEF Label
    <3> QED BY <3>1, <3>2 DEF EmptySegment, TimeSegment
  <2> QED BY <1>1, <2>1 DEF IsNewSlot
<1>3. stop \in Int /\ f.start \in Int /\ f.segment \in Int
  BY <1>1, TimeMaxAssumption DEF Instant
<1>4. Filled(f, e, stop, name) =
        [is_set |-> TRUE, name |-> IF name = NoName THEN old.name ELSE name,
         start |-> f.segment, end |-> e.time,
         shortest_time |-> MinOf(old.shortest_time, stop - f.start),
         shortest_duration |-> MinOf(old.shortest_duration, stop - f.segment)]
  BY DEF Filled
<1> HIDE DEF old
<1>5. /\ old.name \in Label /\ old.shortest_time \in Int /\ old.shortest_duration \in Int
  BY <1>2 DEF TimeSegment
<1>6. (IF name = NoName THEN old.name ELSE name) \in Label
  BY <1>5
<1>7. MinOf(old.shortest_time, stop - f.start) \in Int
  BY <1>3, <1>5 DEF MinOf
<1>8. MinOf(old.shortest_duration, stop - f.segment) \in Int
  BY <1>3, <1>5 DEF MinOf
<1> QED BY <1>1, <1>4, <1>6, <1>7, <1>8 DEF TimeSegment

(* Filling a slot keeps the locals well typed and the index in bounds, and *)
(* touches nothing but the segments, the index and the mark.               *)
LEMMA FillSegmentType ==
  ASSUME NEW f \in Fsm, NEW e \in EventEntry, NEW stop \in Instant,
         NEW name \in Label \cup {NoName}, f.segment_index <= Len(f.segments)
  PROVE  /\ FillSegment(f, e, stop, name) \in Fsm
         /\ FillSegment(f, e, stop, name).segment_index
              <= Len(FillSegment(f, e, stop, name).segments)
<1> DEFINE new == IF IsNewSlot(f) THEN Append(f.segments, Filled(f, e, stop, name))
                  ELSE [f.segments EXCEPT ![f.segment_index + 1] = Filled(f, e, stop, name)]
<1>1. f.segments \in Seq(TimeSegment) /\ f.segment_index \in Nat /\ e.time \in Instant
  BY TimeMaxAssumption DEF Fsm, EventEntry, Time, Instant
<1>2. new \in Seq(TimeSegment) /\ f.segment_index + 1 <= Len(new)
  BY <1>1, FilledType DEF IsNewSlot
<1>3. FillSegment(f, e, stop, name) =
        [f EXCEPT !.segments = new, !.segment_index = @ + 1, !.segment = e.time]
  BY DEF FillSegment
<1> HIDE DEF new
<1>4. FillSegment(f, e, stop, name) \in Fsm
  <2>1. f.segment_index + 1 \in Nat
    BY <1>1
  <2> QED BY <1>1, <1>2, <1>3, <2>1, Zenon DEF Fsm
<1>5. /\ FillSegment(f, e, stop, name).segments = new
      /\ FillSegment(f, e, stop, name).segment_index = f.segment_index + 1
  BY <1>3 DEF Fsm
<1> QED BY <1>2, <1>4, <1>5

(* Unsetting the slots leaves them segments, as many as before.            *)
LEMMA UnsetType ==
  ASSUME NEW s \in Seq(TimeSegment)
  PROVE  /\ Unset(s) \in Seq(TimeSegment) /\ Len(Unset(s)) = Len(s)
         /\ \A i \in 1 .. Len(s) : /\ Unset(s)[i].start = s[i].start
                                   /\ Unset(s)[i].end = s[i].end
<1>1. DOMAIN s = 1 .. Len(s) /\ Len(s) \in Nat
  OBVIOUS
<1>2. \A i \in 1 .. Len(s) : /\ s[i] \in TimeSegment
                             /\ [s[i] EXCEPT !.is_set = FALSE] \in TimeSegment
  <2> TAKE i \in 1 .. Len(s)
  <2>1. s[i] \in TimeSegment
    OBVIOUS
  <2> QED BY <2>1, Zenon DEF TimeSegment
<1>3. Unset(s) \in [1 .. Len(s) -> TimeSegment]
  BY <1>1, <1>2 DEF Unset
<1>4. Unset(s) \in Seq(TimeSegment) /\ Len(Unset(s)) = Len(s)
  BY <1>1, <1>3
<1>5. \A i \in 1 .. Len(s) : /\ Unset(s)[i].start = s[i].start
                             /\ Unset(s)[i].end = s[i].end
  BY <1>1, <1>2 DEF Unset, TimeSegment
<1> QED BY <1>4, <1>5

-----------------------------------------------------------------------------
(* What holds of the locals before and after every iteration, and of the   *)
(* marks of a run in progress at a moment.                                 *)

Sound(f) == f \in Fsm /\ f.segment_index <= Len(f.segments) /\ Ordered(f)

MarksBefore(f, x) == f.status = "running" => f.start <= x /\ f.segment <= x

(* The members of an event as the locals take them.                        *)
LEMMA EventTypes ==
  ASSUME NEW e \in EventEntry
  PROVE  /\ e.time \in Instant /\ e.time \in Int /\ e.uuid \in Uuid
         /\ NameOr(e, "Unknown") \in Label /\ NameOr(e, "") \in Label \cup {NoName}
         /\ NoName \in Label \cup {NoName}
<1>1. e.time \in Instant /\ e.time \in Int
  BY TimeMaxAssumption DEF EventEntry, Time, Instant
<1>2. e.uuid \in Uuid /\ e.name \in Name \cup {NoName}
  BY DEF EventEntry
<1>3. NameOr(e, "Unknown") \in Label /\ NameOr(e, "") \in Label
  BY <1>2, Zenon DEF NameOr, Label
<1> QED BY <1>1, <1>2, <1>3

(* The members of the locals.                                              *)
LEMMA FsmTypes ==
  ASSUME NEW f \in Fsm
  PROVE  /\ f.status \in TimerStatus /\ f.start \in Instant /\ f.stop \in Instant
         /\ f.segment \in Instant /\ f.segment_index \in Nat /\ f.was_prepared \in BOOLEAN
         /\ f.processed_uuids \in SUBSET Uuid /\ f.history \in Seq(HistoryEntry)
         /\ f.segments \in Seq(TimeSegment) /\ f.current_map \in Label
         /\ f.start \in Int /\ f.segment \in Int
<1>1. Instant \subseteq Int
  BY TimeMaxAssumption DEF Instant
<1> QED BY <1>1 DEF Fsm

(* A filled slot ends where the entry is and begins at the mark.           *)
LEMMA FillSegmentSound ==
  ASSUME NEW f, Sound(f), NEW e \in EventEntry, NEW stop \in Instant,
         NEW name \in Label \cup {NoName}, f.segment <= e.time
  PROVE  LET g == FillSegment(f, e, stop, name)
         IN  /\ Sound(g)
             /\ g.status = f.status /\ g.start = f.start /\ g.segment = e.time
             /\ g.history = f.history /\ g.current_map = f.current_map
             /\ g.processed_uuids = f.processed_uuids
<1> DEFINE g == FillSegment(f, e, stop, name)
           new == IF IsNewSlot(f) THEN Append(f.segments, Filled(f, e, stop, name))
                  ELSE [f.segments EXCEPT ![f.segment_index + 1] = Filled(f, e, stop, name)]
<1>1. f \in Fsm /\ f.segment_index <= Len(f.segments) /\ Ordered(f)
  BY DEF Sound
<1>2. g = [f EXCEPT !.segments = new, !.segment_index = @ + 1, !.segment = e.time]
  BY DEF FillSegment
<1>3. /\ g.status = f.status /\ g.start = f.start /\ g.segment = e.time
      /\ g.history = f.history /\ g.current_map = f.current_map
      /\ g.processed_uuids = f.processed_uuids /\ g.segments = new
  <2> HIDE DEF new, g
  <2> QED BY <1>1, <1>2 DEF Fsm
<1>4. Filled(f, e, stop, name) \in TimeSegment
  BY <1>1, FilledType
<1>5. Filled(f, e, stop, name).start = f.segment /\ Filled(f, e, stop, name).end = e.time
  BY DEF Filled
<1>6. \A i \in 1 .. Len(new) : new[i].start <= new[i].end
  BY <1>1, <1>4, <1>5, FsmTypes DEF Ordered
<1>7. Ordered(g)
  <2> HIDE DEF new, g
  <2> QED BY <1>1, <1>3, <1>6 DEF Ordered
<1> QED BY <1>1, <1>3, <1>7, FillSegmentType DEF Sound

(* Changing only marks, status and flags keeps the locals sound.           *)
LEMMA MarksSound ==
  ASSUME NEW f, Sound(f), NEW g \in Fsm,
         g.history = f.history, g.segments = f.segments \/ g.segments = Unset(f.segments),
         g.segment_index \in {0, f.segment_index}
  PROVE  Sound(g)
<1>1. f \in Fsm /\ f.segment_index <= Len(f.segments) /\ Ordered(f)
  BY DEF Sound
<1>2. f.segments \in Seq(TimeSegment) /\ f.segment_index \in Nat
  BY <1>1, FsmTypes
<1>3. /\ Len(g.segments) = Len(f.segments)
      /\ \A i \in 1 .. Len(f.segments) : /\ g.segments[i].start = f.segments[i].start
                                         /\ g.segments[i].end = f.segments[i].end
  BY <1>2, UnsetType
<1>4. Ordered(g)
  BY <1>1, <1>3 DEF Ordered
<1>5. g.segment_index <= Len(g.segments)
  BY <1>1, <1>2, <1>3
<1> QED BY <1>4, <1>5 DEF Sound

(* Every transition but those that fill a segment.                         *)
LEMMA SimpleTransitions ==
  ASSUME NEW f, Sound(f), NEW e \in EventEntry
  PROVE  /\ Sound(OnMapChange(f, e)) /\ OnMapChange(f, e).status = "stopped"
         /\ Sound(OnReset(f, e)) /\ OnReset(f, e).status = "stopped"
         /\ Sound(OnHistoryClear(f))
         /\ Sound(OnSegmentClear(f))
         /\ Sound(OnStart(f, e)) /\ OnStart(f, e).start = e.time /\ OnStart(f, e).segment = e.time
         /\ Sound(OnPrepare(f, e)) /\ OnPrepare(f, e).status = "prepared"
         /\ Sound(OnStopPrepared(f, e)) /\ OnStopPrepared(f, e).status = "stopped"
<1>1. f \in Fsm /\ f.segment_index <= Len(f.segments) /\ Ordered(f)
  BY DEF Sound
<1>2. Unset(f.segments) \in Seq(TimeSegment)
  BY <1>1, FsmTypes, UnsetType
<1>3. e.time \in Instant /\ NameOr(e, "Unknown") \in Label /\ 0 \in Nat
  BY EventTypes
<1>4. "stopped" \in TimerStatus /\ "prepared" \in TimerStatus /\ "running" \in TimerStatus
  BY DEF TimerStatus
<1>5. ASSUME NEW g, g = OnMapChange(f, e)
      PROVE  Sound(g) /\ g.status = "stopped"
  <2>1. g \in Fsm
    BY <1>1, <1>3, <1>4, <1>5, Zenon DEF OnMapChange, Fsm
  <2>2. /\ g.history = f.history /\ g.segments = f.segments /\ g.segment_index = 0
        /\ g.status = "stopped"
    BY <1>1, <1>5 DEF OnMapChange, Fsm
  <2> QED BY <2>1, <2>2, MarksSound
<1>6. ASSUME NEW g, g = OnReset(f, e)
      PROVE  Sound(g) /\ g.status = "stopped"
  <2>1. g \in Fsm
    BY <1>1, <1>2, <1>3, <1>4, <1>6, Zenon DEF OnReset, Fsm
  <2>2. /\ g.history = f.history /\ g.segments = Unset(f.segments)
        /\ g.segment_index = f.segment_index /\ g.status = "stopped"
    BY <1>1, <1>6 DEF OnReset, Fsm
  <2> QED BY <2>1, <2>2, MarksSound
<1>7. ASSUME NEW g, g = OnHistoryClear(f)
      PROVE  Sound(g)
  <2>1. <<>> \in Seq(HistoryEntry) /\ Len(<<>>) = 0
    OBVIOUS
  <2>2. g \in Fsm
    BY <1>1, <1>7, <2>1, Zenon DEF OnHistoryClear, Fsm
  <2>3. g.history = <<>> /\ g.segments = f.segments /\ g.segment_index = f.segment_index
    BY <1>1, <1>7 DEF OnHistoryClear, Fsm
  <2>4. Ordered(g)
    BY <1>1, <2>1, <2>3 DEF Ordered
  <2> QED BY <1>1, <2>2, <2>3, <2>4 DEF Sound
<1>8. ASSUME NEW g, g = OnSegmentClear(f)
      PROVE  Sound(g)
  <2>1. <<>> \in Seq(TimeSegment) /\ Len(<<>>) = 0
    OBVIOUS
  <2>2. g \in Fsm
    BY <1>1, <1>3, <1>8, <2>1, Zenon DEF OnSegmentClear, Fsm
  <2>3. g.history = f.history /\ g.segments = <<>> /\ g.segment_index = 0
    BY <1>1, <1>8 DEF OnSegmentClear, Fsm
  <2>4. Ordered(g)
    BY <1>1, <2>1, <2>3 DEF Ordered
  <2> QED BY <2>1, <2>2, <2>3, <2>4 DEF Sound
<1>9. ASSUME NEW g, g = OnStart(f, e)
      PROVE  Sound(g) /\ g.start = e.time /\ g.segment = e.time
  <2>1. (f.status = "prepared") \in BOOLEAN
    OBVIOUS
  <2>2. g \in Fsm
    BY <1>1, <1>2, <1>3, <1>4, <1>9, <2>1, Zenon DEF OnStart, Fsm
  <2>3. /\ g.history = f.history /\ g.segments = Unset(f.segments) /\ g.segment_index = 0
        /\ g.start = e.time /\ g.segment = e.time
    BY <1>1, <1>9 DEF OnStart, Fsm
  <2> QED BY <2>2, <2>3, MarksSound
<1>10. ASSUME NEW g, g = OnPrepare(f, e)
       PROVE  Sound(g) /\ g.status = "prepared"
  <2>1. g \in Fsm
    BY <1>1, <1>3, <1>4, <1>10, Zenon DEF OnPrepare, Fsm
  <2>2. /\ g.history = f.history /\ g.segments = f.segments
        /\ g.segment_index = f.segment_index /\ g.status = "prepared"
    BY <1>1, <1>10 DEF OnPrepare, Fsm
  <2> QED BY <2>1, <2>2, MarksSound
<1>11. ASSUME NEW g, g = OnStopPrepared(f, e)
       PROVE  Sound(g) /\ g.status = "stopped"
  <2>1. g \in Fsm
    BY <1>1, <1>3, <1>4, <1>11, Zenon DEF OnStopPrepared, Fsm
  <2>2. /\ g.history = f.history /\ g.segments = f.segments
        /\ g.segment_index = f.segment_index /\ g.status = "stopped"
    BY <1>1, <1>11 DEF OnStopPrepared, Fsm
  <2> QED BY <2>1, <2>2, MarksSound
<1> QED BY <1>5, <1>6, <1>7, <1>8, <1>9, <1>10, <1>11

(* A stop of a running timer adds an ordered run to the history.           *)
LEMMA StopRunningSound ==
  ASSUME NEW f, Sound(f), NEW e \in EventEntry, f.start <= e.time, f.segment <= e.time
  PROVE  Sound(OnStopRunning(f, e)) /\ OnStopRunning(f, e).status = "stopped"
<1> DEFINE h == FillSegment(f, e, e.time, NoName)
           run == [name |-> f.current_map, start |-> f.start, end |-> e.time]
           g == OnStopRunning(f, e)
<1>1. e.time \in Instant /\ NoName \in Label \cup {NoName}
  BY EventTypes
<1>2. Sound(h) /\ h.history = f.history
  BY <1>1, FillSegmentSound
<1>3. h \in Fsm /\ h.segment_index <= Len(h.segments) /\ Ordered(h)
  BY <1>2 DEF Sound
<1>4. run \in HistoryEntry
  BY <1>1, FsmTypes DEF Sound, HistoryEntry
<1>5. Append(h.history, run) \in Seq(HistoryEntry)
  BY <1>3, <1>4, FsmTypes
<1>6. g = [h EXCEPT !.stop = e.time, !.status = "stopped", !.history = Append(@, run)]
  BY DEF OnStopRunning
<1>7. "stopped" \in TimerStatus
  BY DEF TimerStatus
<1> HIDE DEF h, g
<1>8. g \in Fsm
  BY <1>1, <1>3, <1>5, <1>6, <1>7, Zenon DEF Fsm
<1>9. /\ g.status = "stopped" /\ g.history = Append(h.history, run)
      /\ g.segments = h.segments /\ g.segment_index = h.segment_index
  BY <1>3, <1>6 DEF Fsm
<1>10. \A i \in 1 .. Len(g.history) : g.history[i].start <= g.history[i].end
  <2>1. run.start <= run.end
    OBVIOUS
  <2> HIDE DEF run
  <2>2. h.history \in Seq(HistoryEntry)
    BY <1>3, FsmTypes
  <2> QED BY <1>3, <1>9, <2>1, <2>2 DEF Ordered
<1>11. Ordered(g)
  BY <1>3, <1>9, <1>10 DEF Ordered
<1>12. Sound(g) /\ g.status = "stopped"
  BY <1>3, <1>8, <1>9, <1>11 DEF Sound
<1> QED BY <1>12 DEF g

(* A split closes a segment and moves the mark to the entry.               *)
LEMMA SegmentSound ==
  ASSUME NEW f, Sound(f), NEW e \in EventEntry, f.segment <= e.time
  PROVE  /\ Sound(OnSegment(f, e))
         /\ OnSegment(f, e).status = f.status
         /\ OnSegment(f, e).start = f.start /\ OnSegment(f, e).segment = e.time
<1>1. f.stop \in Instant /\ NameOr(e, "") \in Label \cup {NoName}
  BY EventTypes, FsmTypes DEF Sound
<1> QED BY <1>1, FillSegmentSound DEF OnSegment

(* No transition touches processed_uuids.                                  *)
LEMMA TransitionKeepsUuids ==
  ASSUME NEW f, Sound(f), NEW e \in EventEntry, f.segment <= e.time \/ f.status # "running",
         Relevant(f, e)
  PROVE  Transition(f, e).processed_uuids = f.processed_uuids
<1>1. f \in Fsm
  BY DEF Sound
<1>2. /\ OnMapChange(f, e).processed_uuids = f.processed_uuids
      /\ OnReset(f, e).processed_uuids = f.processed_uuids
      /\ OnHistoryClear(f).processed_uuids = f.processed_uuids
      /\ OnSegmentClear(f).processed_uuids = f.processed_uuids
      /\ OnStart(f, e).processed_uuids = f.processed_uuids
      /\ OnPrepare(f, e).processed_uuids = f.processed_uuids
      /\ OnStopPrepared(f, e).processed_uuids = f.processed_uuids
  BY <1>1 DEF Fsm, OnMapChange, OnReset, OnHistoryClear, OnSegmentClear, OnStart,
              OnPrepare, OnStopPrepared
<1>3. /\ OnStopRunning(f, e).processed_uuids = f.processed_uuids
      /\ OnSegment(f, e).processed_uuids = f.processed_uuids
  BY <1>1 DEF Fsm, OnStopRunning, OnSegment, FillSegment
<1> QED BY <1>2, <1>3 DEF Transition

(* One iteration on an entry no earlier than the marks keeps the locals    *)
(* sound and leaves no mark after the entry.                               *)
LEMMA IterationSound ==
  ASSUME NEW f, Sound(f), NEW e \in EventEntry, MarksBefore(f, e.time)
  PROVE  /\ Sound(Iteration(f, e)) /\ MarksBefore(Iteration(f, e), e.time)
         /\ Iteration(f, e).processed_uuids =
              IF Relevant(f, e) THEN f.processed_uuids \cup {e.uuid} ELSE f.processed_uuids
<1>1. CASE ~ Relevant(f, e)
  BY <1>1 DEF Iteration
<1>2. CASE Relevant(f, e)
  <2> DEFINE g == Transition(f, e)
             h == [g EXCEPT !.processed_uuids = @ \cup {e.uuid}]
  <2>1. e.time \in Int /\ e.uuid \in Uuid
    BY EventTypes
  <2>2. Sound(g) /\ MarksBefore(g, e.time)
    <3>1. CASE e.type \in {"map_change", "reset", "prepare"}
      <4>1. /\ g = OnMapChange(f, e) \/ g = OnReset(f, e) \/ g = OnPrepare(f, e)
        BY <3>1 DEF Transition
      <4> QED BY <4>1, SimpleTransitions DEF MarksBefore
    <3>2. CASE e.type \in {"history_clear", "segment_clear"}
      <4>1. g = OnHistoryClear(f) \/ g = OnSegmentClear(f)
        BY <3>2 DEF Transition
      <4>2. g.status = f.status /\ g.start = f.start /\ g.segment = f.segment
        BY <4>1 DEF Sound, Fsm, OnHistoryClear, OnSegmentClear
      <4> QED BY <4>1, <4>2, SimpleTransitions DEF MarksBefore
    <3>3. CASE e.type = "start"
      <4>1. g = OnStart(f, e)
        BY <3>3 DEF Transition
      <4> QED BY <2>1, <4>1, SimpleTransitions DEF MarksBefore
    <3>4. CASE e.type = "segment"
      <4>1. g = OnSegment(f, e) /\ f.status = "running"
        BY <1>2, <3>4 DEF Transition, Relevant
      <4> QED BY <2>1, <4>1, SegmentSound DEF MarksBefore
    <3>5. CASE e.type = "stop" /\ f.status = "running"
      <4>1. g = OnStopRunning(f, e)
        BY <3>5 DEF Transition
      <4> QED BY <3>5, <4>1, StopRunningSound DEF MarksBefore
    <3>6. CASE e.type = "stop" /\ f.status # "running"
      <4>1. g = OnStopPrepared(f, e)
        BY <3>6 DEF Transition
      <4> QED BY <4>1, SimpleTransitions DEF MarksBefore
    <3> QED BY <1>2, <3>1, <3>2, <3>3, <3>4, <3>5, <3>6 DEF Relevant
  <2>3. g \in Fsm /\ g.segment_index <= Len(g.segments) /\ Ordered(g)
    BY <2>2 DEF Sound
  <2>4. g.processed_uuids \cup {e.uuid} \in SUBSET Uuid
    BY <2>1, <2>3, FsmTypes
  <2>5. g.processed_uuids = f.processed_uuids
    BY <1>2, TransitionKeepsUuids DEF MarksBefore
  <2> HIDE DEF g
  <2>6. h \in Fsm
    BY <2>3, <2>4, Zenon DEF Fsm
  <2>7. /\ h.processed_uuids = g.processed_uuids \cup {e.uuid}
        /\ h.segment_index = g.segment_index /\ h.segments = g.segments
        /\ h.history = g.history /\ h.status = g.status
        /\ h.start = g.start /\ h.segment = g.segment
    BY <2>3 DEF Fsm
  <2>8. Sound(h) /\ MarksBefore(h, e.time)
    BY <2>2, <2>3, <2>6, <2>7 DEF Sound, Ordered, MarksBefore
  <2>9. Iteration(f, e) = h
    BY <1>2 DEF Iteration, g
  <2> QED BY <1>2, <2>5, <2>7, <2>8, <2>9
<1> QED BY <1>1, <1>2

(* What an entry that counts makes of the locals, by its type.             *)
Effect(f, e, g) ==
  \/ /\ e.type = "map_change" /\ g.status = "stopped"
     /\ g.current_map = NameOr(e, "Unknown")
     /\ g.history = f.history /\ g.segments = f.segments
  \/ /\ e.type = "reset" /\ g.status = "stopped" /\ g.current_map = f.current_map
     /\ g.history = f.history /\ g.segments = Unset(f.segments)
  \/ /\ e.type = "history_clear" /\ g.status = f.status /\ g.start = f.start
     /\ g.segment = f.segment /\ g.segment_index = f.segment_index
     /\ g.history = <<>> /\ g.segments = f.segments /\ g.current_map = f.current_map
  \/ /\ e.type = "segment_clear" /\ g.status = f.status /\ g.start = f.start
     /\ g.segment = f.segment /\ g.segment_index = 0
     /\ g.history = f.history /\ g.segments = <<>> /\ g.current_map = f.current_map
  \/ /\ e.type = "start" /\ f.status # "running" /\ g.status = "running"
     /\ g.start = e.time /\ g.segment = e.time /\ g.segment_index = 0
     /\ g.history = f.history /\ g.segments = Unset(f.segments)
     /\ g.current_map = f.current_map
  \/ /\ e.type = "prepare" /\ f.status = "stopped" /\ g.status = "prepared"
     /\ g.history = f.history /\ g.segments = f.segments /\ g.current_map = f.current_map
  \/ /\ e.type = "stop" /\ f.status = "prepared" /\ g.status = "stopped"
     /\ g.history = f.history /\ g.segments = f.segments /\ g.current_map = f.current_map
  \/ /\ e.type = "stop" /\ f.status = "running" /\ g.status = "stopped"
     /\ g.history = Append(f.history, [name |-> f.current_map, start |-> f.start, end |-> e.time])
     /\ g.segments = FillSegment(f, e, e.time, NoName).segments
     /\ g.current_map = f.current_map
  \/ /\ e.type = "segment" /\ f.status = "running" /\ g.status = "running"
     /\ g.start = f.start /\ g.segment = e.time
     /\ g.segment_index = f.segment_index + 1
     /\ g.history = f.history /\ g.current_map = f.current_map
     /\ g.segments = FillSegment(f, e, f.stop, NameOr(e, "")).segments

LEMMA IterationEffect ==
  ASSUME NEW f \in Fsm, NEW e \in EventEntry, Relevant(f, e)
  PROVE  Effect(f, e, Iteration(f, e))
<1> DEFINE t == Transition(f, e)
           g == [t EXCEPT !.processed_uuids = @ \cup {e.uuid}]
<1>1. g = Iteration(f, e)
  BY DEF Iteration
<1> SUFFICES Effect(f, e, g)
  BY <1>1
<1>2. ASSUME NEW h, h = [t EXCEPT !.processed_uuids = @ \cup {e.uuid}],
             DOMAIN t = DOMAIN f
      PROVE  /\ h.status = t.status /\ h.start = t.start /\ h.segment = t.segment
             /\ h.segment_index = t.segment_index /\ h.history = t.history
             /\ h.segments = t.segments /\ h.current_map = t.current_map
  <2>1. \A x \in DOMAIN t : x # "processed_uuids" => h[x] = t[x]
    BY <1>2
  <2>2. {"status", "start", "segment", "segment_index", "history", "segments", "current_map"}
          \subseteq DOMAIN t
    BY <1>2 DEF Fsm
  <2> HIDE DEF t
  <2> QED
    BY <2>1, <2>2
<1>3. CASE e.type = "map_change"
  <2>1. t = OnMapChange(f, e)
    BY <1>3 DEF Transition
  <2>2. /\ DOMAIN t = DOMAIN f /\ t.status = "stopped" /\ t.current_map = NameOr(e, "Unknown")
        /\ t.history = f.history /\ t.segments = f.segments
    BY <2>1 DEF OnMapChange, Fsm
  <2> HIDE DEF t
  <2> QED
    BY <1>2, <1>3, <2>2 DEF Effect
<1>4. CASE e.type = "reset"
  <2>1. t = OnReset(f, e)
    BY <1>4 DEF Transition
  <2>2. /\ DOMAIN t = DOMAIN f /\ t.status = "stopped" /\ t.current_map = f.current_map
        /\ t.history = f.history /\ t.segments = Unset(f.segments)
    BY <2>1 DEF OnReset, Fsm
  <2> HIDE DEF t
  <2> QED
    BY <1>2, <1>4, <2>2 DEF Effect
<1>5. CASE e.type = "history_clear"
  <2>1. t = OnHistoryClear(f)
    BY <1>5 DEF Transition
  <2>2. /\ DOMAIN t = DOMAIN f /\ t.status = f.status /\ t.current_map = f.current_map
        /\ t.history = <<>> /\ t.segments = f.segments /\ t.start = f.start
        /\ t.segment = f.segment /\ t.segment_index = f.segment_index
    BY <2>1 DEF OnHistoryClear, Fsm
  <2> HIDE DEF t
  <2> QED
    BY <1>2, <1>5, <2>2 DEF Effect
<1>6. CASE e.type = "segment_clear"
  <2>1. t = OnSegmentClear(f)
    BY <1>6 DEF Transition
  <2>2. /\ DOMAIN t = DOMAIN f /\ t.status = f.status /\ t.current_map = f.current_map
        /\ t.history = f.history /\ t.segments = <<>> /\ t.start = f.start
        /\ t.segment = f.segment /\ t.segment_index = 0
    BY <2>1 DEF OnSegmentClear, Fsm
  <2> HIDE DEF t
  <2> QED
    BY <1>2, <1>6, <2>2 DEF Effect
<1>7. CASE e.type = "start"
  <2>1. t = OnStart(f, e)
    BY <1>7 DEF Transition
  <2>2. /\ DOMAIN t = DOMAIN f /\ t.status = "running" /\ t.current_map = f.current_map
        /\ t.history = f.history /\ t.segments = Unset(f.segments) /\ t.start = e.time
        /\ t.segment = e.time /\ t.segment_index = 0
    BY <2>1 DEF OnStart, Fsm
  <2>3. f.status # "running"
    BY <1>7 DEF Relevant
  <2> HIDE DEF t
  <2> QED
    BY <1>2, <1>7, <2>2, <2>3 DEF Effect
<1>8. CASE e.type = "prepare"
  <2>1. t = OnPrepare(f, e)
    BY <1>8 DEF Transition
  <2>2. /\ DOMAIN t = DOMAIN f /\ t.status = "prepared" /\ t.current_map = f.current_map
        /\ t.history = f.history /\ t.segments = f.segments
    BY <2>1 DEF OnPrepare, Fsm
  <2>3. f.status = "stopped"
    BY <1>8 DEF Relevant
  <2> HIDE DEF t
  <2> QED
    BY <1>2, <1>8, <2>2, <2>3 DEF Effect
<1>9. CASE e.type = "stop" /\ f.status = "prepared"
  <2>1. t = OnStopPrepared(f, e)
    BY <1>9 DEF Transition
  <2>2. /\ DOMAIN t = DOMAIN f /\ t.status = "stopped" /\ t.current_map = f.current_map
        /\ t.history = f.history /\ t.segments = f.segments
    BY <2>1 DEF OnStopPrepared, Fsm
  <2> HIDE DEF t
  <2> QED
    BY <1>2, <1>9, <2>2 DEF Effect
<1>10. CASE e.type = "stop" /\ f.status = "running"
  <2>1. t = OnStopRunning(f, e)
    BY <1>10 DEF Transition
  <2>2. /\ DOMAIN t = DOMAIN f /\ t.status = "stopped" /\ t.current_map = f.current_map
        /\ t.history = Append(f.history, [name |-> f.current_map, start |-> f.start,
                                         end |-> e.time])
        /\ t.segments = FillSegment(f, e, e.time, NoName).segments
    BY <2>1 DEF OnStopRunning, FillSegment, Fsm
  <2> HIDE DEF t
  <2> QED
    BY <1>2, <1>10, <2>2 DEF Effect
<1>11. CASE e.type = "segment"
  <2>1. t = OnSegment(f, e) /\ f.status = "running"
    BY <1>11 DEF Transition, Relevant
  <2>2. /\ DOMAIN t = DOMAIN f /\ t.status = f.status /\ t.current_map = f.current_map
        /\ t.history = f.history /\ t.start = f.start /\ t.segment = e.time
        /\ t.segment_index = f.segment_index + 1
        /\ t.segments = FillSegment(f, e, f.stop, NameOr(e, "")).segments
    BY <2>1 DEF OnSegment, FillSegment, Fsm
  <2> HIDE DEF t
  <2> QED
    BY <1>2, <1>11, <2>1, <2>2 DEF Effect
<1> HIDE DEF g, t
<1> QED
  BY <1>3, <1>4, <1>5, <1>6, <1>7, <1>8, <1>9, <1>10, <1>11 DEF Relevant

(* What an entry that counts makes of the outcome, by its type.            *)
Timed(f, e, g) ==
  \/ /\ e.type \in {"map_change", "reset"} /\ g.status = "stopped"
     /\ g.start = e.time /\ g.stop = e.time /\ g.was_prepared = f.was_prepared
  \/ /\ e.type \in {"history_clear", "segment_clear"} /\ g.status = f.status
     /\ g.start = f.start /\ g.stop = f.stop /\ g.was_prepared = f.was_prepared
  \/ /\ e.type = "start" /\ g.status = "running"
     /\ g.start = e.time /\ g.stop = f.stop /\ g.was_prepared = (f.status = "prepared")
  \/ /\ e.type = "prepare" /\ g.status = "prepared"
     /\ g.start = e.time /\ g.stop = e.time /\ g.was_prepared = f.was_prepared
  \/ /\ e.type = "stop" /\ f.status # "stopped" /\ g.status = "stopped"
     /\ g.start = f.start /\ g.stop = e.time /\ g.was_prepared = f.was_prepared
  \/ /\ e.type = "segment" /\ f.status = "running" /\ g.status = "running"
     /\ g.start = f.start /\ g.stop = f.stop /\ g.was_prepared = f.was_prepared

LEMMA IterationTimes ==
  ASSUME NEW f \in Fsm, NEW e \in EventEntry, Relevant(f, e)
  PROVE  Timed(f, e, Iteration(f, e))
<1> DEFINE t == Transition(f, e)
           g == [t EXCEPT !.processed_uuids = @ \cup {e.uuid}]
<1>1. g = Iteration(f, e)
  BY DEF Iteration
<1> SUFFICES Timed(f, e, g)
  BY <1>1
<1>2. ASSUME NEW h, h = [t EXCEPT !.processed_uuids = @ \cup {e.uuid}],
             DOMAIN t = DOMAIN f
      PROVE  /\ h.status = t.status /\ h.start = t.start /\ h.stop = t.stop
             /\ h.was_prepared = t.was_prepared
  <2>1. \A x \in DOMAIN t : x # "processed_uuids" => h[x] = t[x]
    BY <1>2
  <2>2. {"status", "start", "stop", "was_prepared"} \subseteq DOMAIN t
    BY <1>2 DEF Fsm
  <2> HIDE DEF t
  <2> QED
    BY <2>1, <2>2
<1>3. CASE e.type \in {"map_change", "reset"}
  <2>1. t = OnMapChange(f, e) \/ t = OnReset(f, e)
    BY <1>3 DEF Transition
  <2>2. /\ DOMAIN t = DOMAIN f /\ t.status = "stopped" /\ t.start = e.time
        /\ t.stop = e.time /\ t.was_prepared = f.was_prepared
    BY <2>1, Zenon DEF OnMapChange, OnReset, Fsm
  <2> HIDE DEF t
  <2> QED
    BY <1>2, <1>3, <2>2, Zenon DEF Timed
<1>4. CASE e.type \in {"history_clear", "segment_clear"}
  <2>1. t = OnHistoryClear(f) \/ t = OnSegmentClear(f)
    BY <1>4 DEF Transition
  <2>2. /\ DOMAIN t = DOMAIN f /\ t.status = f.status /\ t.start = f.start
        /\ t.stop = f.stop /\ t.was_prepared = f.was_prepared
    BY <2>1, Zenon DEF OnHistoryClear, OnSegmentClear, Fsm
  <2> HIDE DEF t
  <2> QED
    BY <1>2, <1>4, <2>2, Zenon DEF Timed
<1>5. CASE e.type = "start"
  <2>1. t = OnStart(f, e)
    BY <1>5 DEF Transition
  <2>2. /\ DOMAIN t = DOMAIN f /\ t.status = "running" /\ t.start = e.time
        /\ t.stop = f.stop /\ t.was_prepared = (f.status = "prepared")
    BY <2>1, Zenon DEF OnStart, Fsm
  <2> HIDE DEF t
  <2> QED
    BY <1>2, <1>5, <2>2, Zenon DEF Timed
<1>6. CASE e.type = "prepare"
  <2>1. t = OnPrepare(f, e)
    BY <1>6 DEF Transition
  <2>2. /\ DOMAIN t = DOMAIN f /\ t.status = "prepared" /\ t.start = e.time
        /\ t.stop = e.time /\ t.was_prepared = f.was_prepared
    BY <2>1, Zenon DEF OnPrepare, Fsm
  <2> HIDE DEF t
  <2> QED
    BY <1>2, <1>6, <2>2, Zenon DEF Timed
<1>7. ASSUME NEW stop, NEW name
      PROVE  /\ DOMAIN FillSegment(f, e, stop, name) = DOMAIN f
             /\ FillSegment(f, e, stop, name).status = f.status
             /\ FillSegment(f, e, stop, name).start = f.start
             /\ FillSegment(f, e, stop, name).stop = f.stop
             /\ FillSegment(f, e, stop, name).was_prepared = f.was_prepared
  BY Zenon DEF FillSegment, Fsm
<1>8. CASE e.type = "stop" /\ f.status = "running"
  <2> DEFINE h == FillSegment(f, e, e.time, NoName)
  <2>1. t = [h EXCEPT !.stop = e.time, !.status = "stopped",
                      !.history = Append(@, [name |-> f.current_map, start |-> f.start,
                                             end |-> e.time])]
    BY <1>8 DEF Transition, OnStopRunning
  <2>2. /\ DOMAIN h = DOMAIN f /\ h.start = f.start /\ h.was_prepared = f.was_prepared
    BY <1>7, Zenon
  <2> HIDE DEF h
  <2>3. /\ DOMAIN t = DOMAIN f /\ t.status = "stopped" /\ t.start = f.start
        /\ t.stop = e.time /\ t.was_prepared = f.was_prepared
    BY <2>1, <2>2, Zenon DEF Fsm
  <2> HIDE DEF t
  <2> QED
    BY <1>2, <1>8, <2>3, Zenon DEF Timed
<1>9. CASE e.type = "stop" /\ f.status = "prepared"
  <2>1. t = OnStopPrepared(f, e)
    BY <1>9 DEF Transition
  <2>2. /\ DOMAIN t = DOMAIN f /\ t.status = "stopped" /\ t.start = f.start
        /\ t.stop = e.time /\ t.was_prepared = f.was_prepared
    BY <2>1, Zenon DEF OnStopPrepared, Fsm
  <2> HIDE DEF t
  <2> QED
    BY <1>2, <1>9, <2>2, Zenon DEF Timed
<1>10. CASE e.type = "segment" /\ f.status = "running"
  <2> DEFINE h == FillSegment(f, e, f.stop, NameOr(e, ""))
  <2>1. t = h
    BY <1>10 DEF Transition, OnSegment
  <2>2. /\ DOMAIN h = DOMAIN f /\ h.status = f.status /\ h.start = f.start
        /\ h.stop = f.stop /\ h.was_prepared = f.was_prepared
    BY <1>7, Zenon
  <2> HIDE DEF h, t
  <2> QED
    BY <1>2, <1>10, <2>1, <2>2, Zenon DEF Timed
<1> QED
  BY <1>3, <1>4, <1>5, <1>6, <1>8, <1>9, <1>10 DEF Relevant

-----------------------------------------------------------------------------
(* Sequences of events.                                                    *)

(* Sorting permutes: it makes up no entry.                                 *)
LEMMA SortedFormsFacts ==
  ASSUME NEW q \in Seq(EventEntry), NEW s \in SortedForms(q)
  PROVE  /\ s \in Seq(EventEntry) /\ Len(s) = Len(q) /\ Sorted(s)
         /\ \A i \in 1 .. Len(s) : \E j \in 1 .. Len(q) : s[i] = q[j]
<1>1. PICK p \in Orderings(Len(q)) :
        s = [i \in 1 .. Len(q) |-> q[p[i]]] /\ Sorted(s)
  BY DEF SortedForms
<1>2. p \in [1 .. Len(q) -> 1 .. Len(q)] /\ Len(q) \in Nat
  BY DEF Orderings, Bijection, Injection
<1>3. s \in [1 .. Len(q) -> EventEntry]
  BY <1>1, <1>2
<1>4. s \in Seq(EventEntry) /\ Len(s) = Len(q)
  BY <1>2, <1>3
<1> QED BY <1>1, <1>2, <1>4

(* What is kept grows in order.                                            *)
LEMMA AppendKept ==
  ASSUME NEW k \in Seq(EventEntry), NEW e \in EventEntry,
         Sorted(k), UniqueUuids(k), e.uuid \notin UuidsOf(k),
         \A i \in 1 .. Len(k) : ~ Before(e, k[i])
  PROVE  /\ Append(k, e) \in Seq(EventEntry)
         /\ Sorted(Append(k, e)) /\ UniqueUuids(Append(k, e))
         /\ UuidsOf(Append(k, e)) = UuidsOf(k) \cup {e.uuid}
<1> DEFINE s == Append(k, e)
<1>1. /\ s \in Seq(EventEntry) /\ Len(s) = Len(k) + 1 /\ Len(k) \in Nat
      /\ s[Len(k) + 1] = e /\ \A i \in 1 .. Len(k) : s[i] = k[i]
  OBVIOUS
<1> HIDE DEF s
<1>2. Sorted(s)
  <2> SUFFICES ASSUME NEW i \in 1 .. Len(s), NEW j \in 1 .. Len(s), i < j
               PROVE  ~ Before(s[j], s[i])
    BY DEF Sorted
  <2>1. CASE j = Len(k) + 1
    BY <1>1, <2>1
  <2>2. CASE j # Len(k) + 1
    <3>1. i \in 1 .. Len(k) /\ j \in 1 .. Len(k)
      BY <1>1, <2>2
    <3> QED BY <1>1, <3>1 DEF Sorted
  <2> QED BY <2>1, <2>2
<1>3. UniqueUuids(s)
  <2> SUFFICES ASSUME NEW i \in 1 .. Len(s), NEW j \in 1 .. Len(s), s[i].uuid = s[j].uuid
               PROVE  i = j
    BY DEF UniqueUuids
  <2>1. \A n \in 1 .. Len(k) : k[n].uuid # e.uuid
    BY DEF UuidsOf
  <2>2. CASE i = Len(k) + 1 \/ j = Len(k) + 1
    BY <1>1, <2>1, <2>2
  <2>3. CASE i # Len(k) + 1 /\ j # Len(k) + 1
    <3>1. i \in 1 .. Len(k) /\ j \in 1 .. Len(k)
      BY <1>1, <2>3
    <3> QED BY <1>1, <3>1 DEF UniqueUuids
  <2> QED BY <2>2, <2>3
<1>4. UuidsOf(s) = UuidsOf(k) \cup {e.uuid}
  BY <1>1 DEF UuidsOf
<1> QED BY <1>1, <1>2, <1>3, <1>4 DEF s

(* The empty log is canonical.                                             *)
LEMMA EmptyLog ==
  /\ <<>> \in Seq(EventEntry) /\ Len(<<>>) = 0
  /\ Sorted(<<>>) /\ UniqueUuids(<<>>) /\ UuidsOf(<<>>) = {}
BY DEF Sorted, UniqueUuids, UuidsOf

(* The locals the evaluation starts from.                                  *)
LEMMA FsmInitSound ==
  Sound(FsmInit) /\ FsmInit.status = "stopped" /\ FsmInit.processed_uuids = {}
<1>1. TimeMax \in Instant /\ 0 \in Nat
  BY TimeMaxAssumption DEF Instant
<1>2. <<>> \in Seq(HistoryEntry) /\ <<>> \in Seq(TimeSegment) /\ Len(<<>>) = 0
  OBVIOUS
<1>3. "Unknown" \in Label /\ "stopped" \in TimerStatus /\ FALSE \in BOOLEAN
      /\ {} \in SUBSET Uuid
  BY Zenon DEF Label, TimerStatus
<1>4. FsmInit \in Fsm
  BY <1>1, <1>2, <1>3, Zenon DEF FsmInit, Fsm
<1>5. /\ FsmInit.segments = <<>> /\ FsmInit.history = <<>> /\ FsmInit.segment_index = 0
      /\ FsmInit.status = "stopped" /\ FsmInit.processed_uuids = {}
  BY DEF FsmInit
<1> HIDE DEF FsmInit
<1>6. Ordered(FsmInit) /\ FsmInit.segment_index <= Len(FsmInit.segments)
  BY <1>2, <1>5 DEF Ordered
<1> QED BY <1>4, <1>5, <1>6 DEF Sound

-----------------------------------------------------------------------------
(* Induction, in a form whose parameter is a set.                          *)

(* A set of numbers has a least one.                                       *)
LEMMA Least ==
  ASSUME NEW T \in SUBSET Nat, T # {}
  PROVE  \E n \in T : \A m \in T : n <= m
<1>1. PICK n \in T : \A m \in T : ~ (<<m, n>> \in OpToRel(<, Nat))
  BY WFMin, NatLessThanWellFounded
<1>2. \A m \in T : ~ (m < n)
  BY <1>1 DEF OpToRel
<1> QED
  BY <1>2

(* A set of positions has a last one.                                      *)
LEMMA Greatest ==
  ASSUME NEW n \in Nat, NEW T \in SUBSET (1 .. n), T # {}
  PROVE  \E k \in T : \A j \in T : j <= k
<1> DEFINE U == {n - k : k \in T}
<1>1. U \in SUBSET Nat /\ U # {}
  <2>1. \A k \in T : n - k \in Nat
    OBVIOUS
  <2>2. U # {}
    OBVIOUS
  <2> QED
    BY <2>1, <2>2
<1>2. PICK u \in U : \A v \in U : u <= v
  BY <1>1, Least
<1>3. PICK k \in T : u = n - k
  OBVIOUS
<1>4. ASSUME NEW j \in T PROVE j <= k
  <2>1. u <= n - j
    BY <1>2
  <2> QED
    BY <1>3, <2>1
<1> QED
  BY <1>4

(* A set of numbers that has 0 and with each number the next has them all. *)
LEMMA Induction ==
  ASSUME NEW P \in SUBSET Nat, 0 \in P, \A n \in P : n + 1 \in P
  PROVE  P = Nat
<1> SUFFICES ASSUME Nat \ P # {} PROVE FALSE
  OBVIOUS
<1>1. PICK n \in Nat \ P : \A m \in Nat \ P : n <= m
  BY Least
<1>2. n # 0
  OBVIOUS
<1>3. n - 1 \in Nat /\ n - 1 \in P
  BY <1>1, <1>2
<1> QED
  BY <1>3

(* A sequence that is not empty is one entry longer than its front.        *)
LEMMA FrontAndLast ==
  ASSUME NEW S, NEW s \in Seq(S), s # <<>>
  PROVE  \E t \in Seq(S), e \in S : s = Append(t, e) /\ Len(s) = Len(t) + 1
<1> DEFINE n == Len(s)  t == SubSeq(s, 1, n - 1)
<1>1. n \in Nat \ {0} /\ s[n] \in S
  OBVIOUS
<1>2. t \in Seq(S) /\ Len(t) = n - 1 /\ \A i \in 1 .. n - 1 : t[i] = s[i]
  <2>1. 1 \in Int /\ n - 1 \in Int /\ \A i \in 1 .. n - 1 : s[i] \in S
    BY <1>1
  <2>2. /\ SubSeq(s, 1, n - 1) \in Seq(S)
        /\ Len(SubSeq(s, 1, n - 1)) = IF 1 <= n - 1 THEN (n - 1) - 1 + 1 ELSE 0
        /\ \A i \in 1 .. (n - 1) - 1 + 1 : SubSeq(s, 1, n - 1)[i] = s[1 + i - 1]
    BY <2>1, SubSeqProperties
  <2>3. (n - 1) - 1 + 1 = n - 1 /\ \A i \in 1 .. n - 1 : 1 + i - 1 = i
    BY <1>1
  <2> HIDE DEF n
  <2>4. (IF 1 <= n - 1 THEN (n - 1) - 1 + 1 ELSE 0) = n - 1
    BY <1>1
  <2> QED
    BY <2>2, <2>3, <2>4
<1>3. Append(t, s[n]) \in Seq(S) /\ Len(Append(t, s[n])) = n
  BY <1>1, <1>2
<1>4. \A i \in 1 .. n : Append(t, s[n])[i] = s[i]
  BY <1>1, <1>2
<1>5. s = Append(t, s[n])
  BY <1>3, <1>4, SeqEqual
<1>6. Len(s) = Len(t) + 1
  BY <1>1, <1>2
<1> HIDE DEF t
<1> QED
  BY <1>1, <1>2, <1>5, <1>6

(* A set of sequences that has the empty one and with each sequence the    *)
(* longer ones has them all.                                               *)
LEMMA SeqInduction ==
  ASSUME NEW S, NEW P \in SUBSET Seq(S), <<>> \in P,
         \A s \in P, e \in S : Append(s, e) \in P
  PROVE  P = Seq(S)
<1> DEFINE Q == {n \in Nat : \A s \in Seq(S) : Len(s) = n => s \in P}
<1>1. 0 \in Q
  <2>1. \A s \in Seq(S) : Len(s) = 0 => s = <<>>
    BY EmptySeq
  <2> QED
    BY <2>1
<1>2. ASSUME NEW n \in Q
      PROVE  n + 1 \in Q
  <2> SUFFICES ASSUME NEW s \in Seq(S), Len(s) = n + 1
               PROVE  s \in P
    OBVIOUS
  <2>1. s # <<>>
    OBVIOUS
  <2>2. PICK t \in Seq(S), e \in S : s = Append(t, e) /\ Len(s) = Len(t) + 1
    BY <2>1, FrontAndLast
  <2>3. Len(t) = n
    BY <2>2
  <2> QED
    BY <2>2, <2>3
<1>3. Q = Nat
  <2> HIDE DEF Q
  <2>1. Q \in SUBSET Nat
    BY DEF Q
  <2> QED
    BY <1>1, <1>2, <2>1, Induction
<1>4. \A s \in Seq(S) : Len(s) \in Q
  BY <1>3
<1> QED
  BY <1>4

-----------------------------------------------------------------------------
(* The fold.                                                               *)

(* What the fold begins with, and the recursion it is defined by.          *)
Base == [fsm |-> FsmInit, kept |-> <<>>]

Fold(s, S, g) ==
  [t \in SUBSET S |-> IF t = {} THEN Base ELSE EvalStep(g[t \ {Max(t)}], s[Max(t)])]

Folded(s, S) == CHOOSE g : g = Fold(s, S, g)

LEMMA EvalIsFold ==
  ASSUME NEW s
  PROVE  Eval(s) = Folded(s, DOMAIN s)[DOMAIN s]
BY DEF Eval, FoldLeft, MapThenFoldSet, Fold, Folded, Base

LEMMA MaxIsTop ==
  ASSUME NEW n \in Nat, NEW t \in SUBSET (1 .. n + 1), n + 1 \in t
  PROVE  Max(t) = n + 1
<1>1. \A x \in t : x <= n + 1 /\ x \in Int
  OBVIOUS
<1>2. \E x \in t : \A y \in t : x >= y
  BY <1>1
<1>3. Max(t) \in t /\ \A y \in t : Max(t) >= y
  BY <1>2, Zenon DEF Max
<1>4. Max(t) >= n + 1 /\ Max(t) <= n + 1 /\ Max(t) \in Int
  BY <1>1, <1>3
<1> QED
  BY <1>4

(* The recursion has a solution.                                           *)
LEMMA FoldExists ==
  ASSUME NEW s, NEW n \in Nat
  PROVE  \E g : g = Fold(s, 1 .. n, g)
<1> DEFINE P == {m \in Nat : \E g : g = Fold(s, 1 .. m, g)}
<1>1. 0 \in P
  <2>1. 1 .. 0 = {} /\ SUBSET {} = {{}}
    OBVIOUS
  <2>2. [t \in {{}} |-> Base] = Fold(s, 1 .. 0, [t \in {{}} |-> Base])
    BY <2>1 DEF Fold
  <2> QED
    BY <2>2
<1>2. ASSUME NEW m \in P
      PROVE  m + 1 \in P
  <2>1. PICK g : g = Fold(s, 1 .. m, g)
    OBVIOUS
  <2> DEFINE top == m + 1
             h == [t \in SUBSET (1 .. top) |->
                     IF top \in t THEN EvalStep(g[t \ {top}], s[top]) ELSE g[t]]
  <2>2. ASSUME NEW t \in SUBSET (1 .. top)
        PROVE  h[t] = IF t = {} THEN Base ELSE EvalStep(h[t \ {Max(t)}], s[Max(t)])
    <3>1. CASE top \in t
      <4>1. Max(t) = top
        BY <3>1, MaxIsTop
      <4>2. t \ {top} \in SUBSET (1 .. top) /\ top \notin t \ {top}
        OBVIOUS
      <4>3. h[t \ {top}] = g[t \ {top}]
        BY <4>2
      <4> QED
        BY <3>1, <4>1, <4>3
    <3>2. CASE top \notin t
      <4>1. t \in SUBSET (1 .. m) /\ t \ {Max(t)} \in SUBSET (1 .. top) /\ top \notin t \ {Max(t)}
        <5>1. \A x \in t : x \in 1 .. m
          BY <3>2
        <5> QED
          BY <3>2, <5>1
      <4>2. h[t] = g[t] /\ h[t \ {Max(t)}] = g[t \ {Max(t)}]
        BY <3>2, <4>1
      <4>3. g[t] = IF t = {} THEN Base ELSE EvalStep(g[t \ {Max(t)}], s[Max(t)])
        BY <2>1, <4>1 DEF Fold
      <4> QED
        BY <4>2, <4>3
    <3> QED
      BY <3>1, <3>2
  <2>3. h = Fold(s, 1 .. top, h)
    <3>1. DOMAIN h = SUBSET (1 .. top)
      OBVIOUS
    <3> QED
      BY <2>2 DEF Fold
  <2> QED
    BY <2>3
<1>3. P = Nat
  <2> HIDE DEF P
  <2>1. P \in SUBSET Nat
    BY DEF P
  <2> QED
    BY <1>1, <1>2, <2>1, Induction
<1> QED
  BY <1>3

(* Along the first positions it takes one entry at a time.                 *)
LEMMA FoldUnfolds ==
  ASSUME NEW s, NEW n \in Nat
  PROVE  /\ Folded(s, 1 .. n)[{}] = Base
         /\ \A k \in 0 .. n - 1 :
              Folded(s, 1 .. n)[1 .. k + 1] = EvalStep(Folded(s, 1 .. n)[1 .. k], s[k + 1])
<1> DEFINE g == Folded(s, 1 .. n)
<1>1. g = Fold(s, 1 .. n, g)
  BY FoldExists DEF Folded
<1> HIDE DEF g
<1>2. g[{}] = Base
  BY <1>1 DEF Fold
<1>3. ASSUME NEW k \in 0 .. n - 1
      PROVE  g[1 .. k + 1] = EvalStep(g[1 .. k], s[k + 1])
  <2>1. Max(1 .. k + 1) = k + 1
    BY MaxIsTop
  <2>2. (1 .. k + 1) \ {k + 1} = 1 .. k /\ k + 1 \in 1 .. k + 1 /\ 1 .. k + 1 \subseteq 1 .. n
    OBVIOUS
  <2>3. g[1 .. k + 1] = EvalStep(g[(1 .. k + 1) \ {Max(1 .. k + 1)}], s[Max(1 .. k + 1)])
    BY <1>1, <2>2 DEF Fold
  <2> QED
    BY <2>1, <2>2, <2>3
<1> QED
  BY <1>2, <1>3 DEF g

(* The evaluation of an empty log.                                         *)
LEMMA EvalEmpty == Eval(<<>>) = Base
<1>1. DOMAIN <<>> = {} /\ 1 .. 0 = {}
  OBVIOUS
<1>2. Folded(<<>>, 1 .. 0)[{}] = Base
  BY FoldUnfolds
<1> QED
  BY <1>1, <1>2, EvalIsFold

(* The evaluation of a log with one more entry.                            *)
LEMMA EvalAppend ==
  ASSUME NEW S, NEW s \in Seq(S), NEW e \in S
  PROVE  Eval(Append(s, e)) = EvalStep(Eval(s), e)
<1> DEFINE n == Len(s)  a == Append(s, e)
           f == Folded(s, 1 .. n)  g == Folded(a, 1 .. n + 1)
<1>1. /\ n \in Nat /\ DOMAIN s = 1 .. n /\ DOMAIN a = 1 .. n + 1
      /\ a[n + 1] = e /\ \A i \in 1 .. n : a[i] = s[i]
  OBVIOUS
<1> HIDE DEF n, a
<1>2. f[{}] = Base /\ g[{}] = Base
  BY <1>1, FoldUnfolds
<1>3. \A k \in 0 .. n - 1 : f[1 .. k + 1] = EvalStep(f[1 .. k], s[k + 1])
  BY <1>1, FoldUnfolds
<1>4. \A k \in 0 .. n : g[1 .. k + 1] = EvalStep(g[1 .. k], a[k + 1])
  <2>1. n + 1 \in Nat /\ (n + 1) - 1 = n
    BY <1>1
  <2> QED
    BY <1>1, <2>1, FoldUnfolds
<1> HIDE DEF f, g
<1> DEFINE P == {k \in Nat : k <= n => g[1 .. k] = f[1 .. k]}
<1>5. 0 \in P
  <2>1. 1 .. 0 = {}
    OBVIOUS
  <2> QED
    BY <1>2, <2>1
<1>6. ASSUME NEW k \in P
      PROVE  k + 1 \in P
  <2> SUFFICES ASSUME k + 1 <= n PROVE g[1 .. k + 1] = f[1 .. k + 1]
    OBVIOUS
  <2>1. k \in 0 .. n - 1 /\ k \in 0 .. n /\ k + 1 \in 1 .. n
    BY <1>1
  <2>2. g[1 .. k] = f[1 .. k]
    BY <2>1
  <2> QED
    BY <1>1, <1>3, <1>4, <2>1, <2>2
<1>7. P = Nat
  <2> HIDE DEF P
  <2>1. P \in SUBSET Nat
    BY DEF P
  <2> QED
    BY <1>5, <1>6, <2>1, Induction
<1>8. g[1 .. n] = f[1 .. n]
  BY <1>1, <1>7
<1>9. g[1 .. n + 1] = EvalStep(f[1 .. n], e)
  BY <1>1, <1>4, <1>8
<1> QED
  BY <1>1, <1>9, EvalIsFold DEF f, g, a

-----------------------------------------------------------------------------
(* The order of the log.                                                   *)

(* No two entries compare equal.                                           *)
Strict(s) == \A i, j \in 1 .. Len(s) : i < j => Before(s[i], s[j])

Within(s, t) == \A i \in 1 .. Len(s) : \E j \in 1 .. Len(t) : s[i] = t[j]

(* operator< is a strict order.                                            *)
LEMMA BeforeOrders ==
  ASSUME NEW a \in EventEntry, NEW b \in EventEntry, NEW c \in EventEntry
  PROVE  ~ Before(a, a) /\ (Before(a, b) /\ Before(b, c) => Before(a, c))
<1>1. ASSUME NEW d \in EventEntry
      PROVE  d.time \in Int /\ d.uuid \in Int
  <2>1. d.time \in Int /\ d.uuid \in Uuid
    BY EventTypes
  <2>2. d.uuid \in Nat
    BY <2>1, UuidAssumption, Zenon
  <2> QED
    BY <2>1, <2>2
<1> QED
  BY <1>1 DEF Before

(* The entries of a sorted log with distinct uuids are in strict order.    *)
LEMMA SortedIsStrict ==
  ASSUME NEW s \in Seq(EventEntry), Sorted(s), UniqueUuids(s)
  PROVE  Strict(s)
<1> SUFFICES ASSUME NEW i \in 1 .. Len(s), NEW j \in 1 .. Len(s), i < j
             PROVE  Before(s[i], s[j])
  BY DEF Strict
<1>1. s[i] \in EventEntry /\ s[j] \in EventEntry
  OBVIOUS
<1>2. /\ s[i].time \in Int /\ s[j].time \in Int /\ s[i].uuid \in Nat /\ s[j].uuid \in Nat
  BY <1>1, EventTypes, UuidAssumption
<1>3. s[i].uuid # s[j].uuid
  BY DEF UniqueUuids
<1>4. ~ Before(s[j], s[i])
  BY DEF Sorted
<1> QED
  BY <1>2, <1>3, <1>4 DEF Before

(* Two logs in strict order with the same entries are the same.            *)
LEMMA StrictEqual ==
  ASSUME NEW s \in Seq(EventEntry), NEW t \in Seq(EventEntry),
         Strict(s), Strict(t), Within(s, t), Within(t, s)
  PROVE  s = t
<1> DEFINE Same(a) == \A b \in Seq(EventEntry) :
                        Strict(a) /\ Strict(b) /\ Within(a, b) /\ Within(b, a) => a = b
           P == {a \in Seq(EventEntry) : Same(a)}
<1>1. <<>> \in P
  <2> SUFFICES ASSUME NEW b \in Seq(EventEntry), Within(b, <<>>) PROVE <<>> = b
    BY EmptySeq
  <2>1. Len(<<>>) = 0 /\ Len(b) \in Nat
    OBVIOUS
  <2>2. ~ (1 \in 1 .. Len(b))
    BY <2>1 DEF Within
  <2>3. Len(b) = 0
    BY <2>1, <2>2
  <2> QED
    BY <2>3, EmptySeq
<1>2. ASSUME NEW a \in P, NEW e \in EventEntry
      PROVE  Append(a, e) \in P
  <2> DEFINE c == Append(a, e)  n == Len(a)
  <2>1. /\ c \in Seq(EventEntry) /\ n \in Nat /\ Len(c) = n + 1 /\ c[n + 1] = e
        /\ \A i \in 1 .. n : c[i] = a[i]
    OBVIOUS
  <2> HIDE DEF c, n
  <2> SUFFICES ASSUME NEW b \in Seq(EventEntry),
                      Strict(c), Strict(b), Within(c, b), Within(b, c)
               PROVE  c = b
    BY <2>1 DEF c
  <2>2. PICK k \in 1 .. Len(b) : b[k] = e
    <3>1. n + 1 \in 1 .. Len(c)
      BY <2>1
    <3> QED
      BY <2>1, <3>1 DEF Within
  <2>3. b # <<>>
    BY <2>2
  <2>4. PICK u \in Seq(EventEntry), d \in EventEntry : b = Append(u, d) /\ Len(b) = Len(u) + 1
    BY <2>3, FrontAndLast
  <2> DEFINE m == Len(u)
  <2>5. m \in Nat /\ Len(b) = m + 1 /\ b[m + 1] = d /\ \A i \in 1 .. m : b[i] = u[i]
    BY <2>4
  <2> HIDE DEF m
  <2>6. \A i \in 1 .. n : a[i] \in EventEntry /\ Before(a[i], e)
    BY <2>1 DEF Strict, n
  <2>7. \A i \in 1 .. m : u[i] \in EventEntry /\ Before(u[i], d)
    BY <2>5 DEF Strict, m
  <2>8. d = e
    <3> SUFFICES ASSUME d # e PROVE FALSE
      OBVIOUS
    <3>1. k \in 1 .. m /\ Before(e, d)
      BY <2>2, <2>5, <2>7
    <3>2. PICK i \in 1 .. n + 1 : c[i] = d
      BY <2>1, <2>5 DEF Within
    <3>3. i \in 1 .. n /\ Before(d, e)
      BY <2>1, <2>6, <3>2
    <3> QED
      BY <3>1, <3>3, BeforeOrders
  <2>9. Strict(a) /\ Strict(u)
    <3>1. \A i, j \in 1 .. n : i < j => Before(a[i], a[j])
      BY <2>1 DEF Strict
    <3>2. \A i, j \in 1 .. m : i < j => Before(u[i], u[j])
      BY <2>5 DEF Strict
    <3> QED
      BY <3>1, <3>2 DEF Strict, n, m
  <2>10. Within(a, u)
    <3> SUFFICES ASSUME NEW i \in 1 .. n PROVE \E j \in 1 .. m : a[i] = u[j]
      BY DEF Within, n, m
    <3>1. PICK j \in 1 .. m + 1 : b[j] = a[i]
      BY <2>1, <2>5 DEF Within
    <3>2. j # m + 1
      BY <2>5, <2>6, <2>8, <3>1, BeforeOrders
    <3> QED
      BY <2>5, <3>1, <3>2
  <2>11. Within(u, a)
    <3> SUFFICES ASSUME NEW i \in 1 .. m PROVE \E j \in 1 .. n : u[i] = a[j]
      BY DEF Within, n, m
    <3>1. PICK j \in 1 .. n + 1 : c[j] = u[i]
      BY <2>1, <2>5 DEF Within
    <3>2. j # n + 1
      BY <2>1, <2>7, <2>8, <3>1, BeforeOrders
    <3> QED
      BY <2>1, <3>1, <3>2
  <2>12. a = u
    BY <2>9, <2>10, <2>11
  <2> QED
    BY <2>4, <2>8, <2>12 DEF c
<1>3. P = Seq(EventEntry)
  <2> HIDE DEF P
  <2>1. P \in SUBSET Seq(EventEntry)
    BY DEF P
  <2> QED
    BY <1>1, <1>2, <2>1, SeqInduction
<1>4. s \in P
  BY <1>3
<1> QED
  BY <1>4

(* Sorting a log in strict order with one event that differs from all of   *)
(* its entries gives a log in strict order with these entries.             *)
LEMMA SortedFormIsStrict ==
  ASSUME NEW s \in Seq(EventEntry), Strict(s), NEW e \in EventEntry,
         \A i \in 1 .. Len(s) : Before(s[i], e) \/ Before(e, s[i]),
         NEW t \in SortedForms(Append(s, e))
  PROVE  /\ t \in Seq(EventEntry) /\ Strict(t) /\ Len(t) = Len(s) + 1
         /\ Within(t, Append(s, e)) /\ Within(Append(s, e), t)
<1> DEFINE n == Len(s)  q == Append(s, e)
<1>1. /\ q \in Seq(EventEntry) /\ n \in Nat /\ Len(q) = n + 1 /\ q[n + 1] = e
      /\ \A i \in 1 .. n : q[i] = s[i]
  OBVIOUS
<1>2. ASSUME NEW i \in 1 .. n + 1, NEW j \in 1 .. n + 1, i # j
      PROVE  Before(q[i], q[j]) \/ Before(q[j], q[i])
  <2> HIDE DEF q, n
  <2>1. CASE i = n + 1 \/ j = n + 1
    BY <1>1, <1>2, <2>1 DEF n
  <2>2. CASE i # n + 1 /\ j # n + 1
    <3>1. i \in 1 .. n /\ j \in 1 .. n /\ (i < j \/ j < i)
      BY <1>1, <1>2, <2>2
    <3> QED
      BY <1>1, <3>1 DEF Strict, n
  <2> QED
    BY <2>1, <2>2
<1> HIDE DEF q, n
<1>3. PICK p \in Orderings(n + 1) :
        t = [i \in 1 .. n + 1 |-> q[p[i]]] /\ Sorted(t)
  BY <1>1 DEF SortedForms, q
<1>4. /\ p \in [1 .. n + 1 -> 1 .. n + 1]
      /\ \A i, j \in 1 .. n + 1 : p[i] = p[j] => i = j
      /\ \A j \in 1 .. n + 1 : \E i \in 1 .. n + 1 : p[i] = j
  BY DEF Orderings, Bijection, Injection, Surjection, IsInjective
<1>5. t \in Seq(EventEntry) /\ Len(t) = n + 1
  <2>1. \A i \in 1 .. n + 1 : q[p[i]] \in EventEntry
    <3>1. \A j \in 1 .. n + 1 : q[j] \in EventEntry
      BY <1>1
    <3> QED
      BY <1>4, <3>1
  <2>2. t \in [1 .. n + 1 -> EventEntry] /\ n + 1 \in Nat
    BY <1>1, <1>3, <2>1
  <2> QED
    BY <2>2
<1>6. Strict(t)
  <2> SUFFICES ASSUME NEW i \in 1 .. n + 1, NEW j \in 1 .. n + 1, i < j
               PROVE  Before(t[i], t[j])
    BY <1>5 DEF Strict
  <2>1. p[i] # p[j] /\ p[i] \in 1 .. n + 1 /\ p[j] \in 1 .. n + 1
    <3>1. i # j
      BY <1>1
    <3> QED
      BY <1>4, <3>1
  <2>2. Before(q[p[i]], q[p[j]]) \/ Before(q[p[j]], q[p[i]])
    BY <1>2, <2>1
  <2>3. t[i] = q[p[i]] /\ t[j] = q[p[j]]
    BY <1>3
  <2>4. ~ Before(t[j], t[i])
    BY <1>3, <1>5 DEF Sorted
  <2> QED
    BY <2>2, <2>3, <2>4
<1>7. Within(t, q) /\ Within(q, t)
  BY <1>1, <1>3, <1>4, <1>5 DEF Within
<1> QED
  BY <1>5, <1>6, <1>7 DEF q, n

(* An event later than the whole log is put at its end.                    *)
LEMMA LateSortedForm ==
  ASSUME NEW s \in Seq(EventEntry), Strict(s), NEW e \in EventEntry,
         \A i \in 1 .. Len(s) : Before(s[i], e), NEW t \in SortedForms(Append(s, e))
  PROVE  t = Append(s, e)
<1>1. Append(s, e) \in Seq(EventEntry)
  OBVIOUS
<1>2. Strict(Append(s, e))
  BY DEF Strict
<1> QED
  BY <1>1, <1>2, SortedFormIsStrict, StrictEqual

(* Without the event the sorted log is the log it was added to.            *)
LEMMA SortedFormWithout ==
  ASSUME NEW s \in Seq(EventEntry), Strict(s), NEW e \in EventEntry,
         \A i \in 1 .. Len(s) : Before(s[i], e) \/ Before(e, s[i]),
         NEW t \in SortedForms(Append(s, e))
  PROVE  RemoveAt(t, CHOOSE i \in 1 .. Len(t) : t[i] = e) = s
<1> DEFINE n == Len(s)  k == CHOOSE i \in 1 .. Len(t) : t[i] = e  r == RemoveAt(t, k)
<1>1. /\ t \in Seq(EventEntry) /\ Strict(t) /\ Len(t) = n + 1
      /\ Within(t, Append(s, e)) /\ Within(Append(s, e), t)
  BY SortedFormIsStrict
<1>2. /\ n \in Nat /\ Len(Append(s, e)) = n + 1 /\ Append(s, e)[n + 1] = e
      /\ \A i \in 1 .. n : Append(s, e)[i] = s[i]
  OBVIOUS
<1>3. \E i \in 1 .. Len(t) : t[i] = e
  <2>1. n + 1 \in 1 .. Len(Append(s, e))
    BY <1>2
  <2>2. \E i \in 1 .. Len(t) : Append(s, e)[n + 1] = t[i]
    BY <1>1, <2>1 DEF Within
  <2> QED
    BY <1>2, <2>2
<1>4. k \in 1 .. n + 1 /\ t[k] = e
  BY <1>1, <1>3
<1> HIDE DEF k, n
<1>5. /\ r \in Seq(EventEntry) /\ Len(r) = n
      /\ \A i \in 1 .. n : r[i] = IF i < k THEN t[i] ELSE t[i + 1]
  <2> DEFINE a == SubSeq(t, 1, k - 1)  b == SubSeq(t, k + 1, Len(t))
  <2>1. /\ a \in Seq(EventEntry) /\ Len(a) = k - 1
        /\ \A i \in 1 .. k - 1 : a[i] = t[i]
    BY <1>1, <1>2, <1>4
  <2>2. /\ b \in Seq(EventEntry) /\ Len(b) = n + 1 - k
        /\ \A i \in 1 .. n + 1 - k : b[i] = t[k + i]
    BY <1>1, <1>2, <1>4
  <2>3. r = a \o b
    BY DEF RemoveAt
  <2> HIDE DEF a, b, r
  <2>4. r \in Seq(EventEntry) /\ Len(r) = n
    <3>1. r \in Seq(EventEntry) /\ Len(r) = Len(a) + Len(b)
      BY <2>1, <2>2, <2>3, ConcatProperties
    <3> QED
      BY <1>2, <1>4, <2>1, <2>2, <3>1
  <2>5. ASSUME NEW i \in 1 .. n
        PROVE  r[i] = IF i < k THEN t[i] ELSE t[i + 1]
    <3>1. CASE i < k
      BY <1>2, <1>4, <2>1, <2>2, <2>3, <3>1
    <3>2. CASE ~ (i < k)
      <4>1. r[i] = b[i - (k - 1)] /\ i - (k - 1) \in 1 .. n + 1 - k
        BY <1>2, <1>4, <2>1, <2>2, <2>3, <3>2
      <4>2. k + (i - (k - 1)) = i + 1
        BY <1>2, <1>4
      <4> QED
        BY <2>2, <3>2, <4>1, <4>2
    <3> QED
      BY <3>1, <3>2
  <2> QED
    BY <2>4, <2>5
<1> HIDE DEF r
<1>6. Strict(r)
  <2> SUFFICES ASSUME NEW i \in 1 .. n, NEW j \in 1 .. n, i < j
               PROVE  Before(r[i], r[j])
    BY <1>5 DEF Strict
  <2> DEFINE x == IF i < k THEN i ELSE i + 1  y == IF j < k THEN j ELSE j + 1
  <2>1. x \in 1 .. n + 1 /\ y \in 1 .. n + 1 /\ x < y
    BY <1>2, <1>4
  <2>2. r[i] = t[x] /\ r[j] = t[y]
    BY <1>5
  <2> QED
    BY <1>1, <2>1, <2>2 DEF Strict
<1>7. Within(r, s)
  <2> SUFFICES ASSUME NEW i \in 1 .. n PROVE \E j \in 1 .. n : r[i] = s[j]
    BY <1>5 DEF Within, n
  <2> DEFINE x == IF i < k THEN i ELSE i + 1
  <2>1. x \in 1 .. n + 1 /\ (x < k \/ k < x) /\ r[i] = t[x]
    BY <1>2, <1>4, <1>5
  <2>2. t[x] # e
    <3>1. Before(t[x], t[k]) \/ Before(t[k], t[x])
      BY <1>1, <1>4, <2>1 DEF Strict
    <3> QED
      BY <1>4, <3>1, BeforeOrders
  <2>3. PICK j \in 1 .. n + 1 : t[x] = Append(s, e)[j]
    BY <1>1, <1>2, <2>1 DEF Within
  <2>4. j \in 1 .. n
    BY <1>2, <2>2, <2>3
  <2> QED
    BY <1>2, <2>1, <2>3, <2>4
<1>8. Within(s, r)
  <2> SUFFICES ASSUME NEW i \in 1 .. n PROVE \E j \in 1 .. n : s[i] = r[j]
    BY <1>5 DEF Within, n
  <2>1. PICK x \in 1 .. n + 1 : t[x] = s[i]
    BY <1>1, <1>2 DEF Within
  <2>2. x # k
    <3>1. s[i] \in EventEntry /\ (Before(s[i], e) \/ Before(e, s[i]))
      BY DEF n
    <3> QED
      BY <1>4, <2>1, <3>1, BeforeOrders
  <2> DEFINE j == IF x < k THEN x ELSE x - 1
  <2>3. j \in 1 .. n /\ r[j] = t[x]
    BY <1>2, <1>4, <1>5, <2>2
  <2> QED
    BY <2>1, <2>3
<1>9. r = s
  BY <1>1, <1>5, <1>6, <1>7, <1>8, StrictEqual
<1> QED
  BY <1>9 DEF r, k

-----------------------------------------------------------------------------
(* What evaluations yield.                                                 *)

(* The locals and the entries that stay, which come from the log.          *)
LEMMA EvalRecord ==
  ASSUME NEW S, NEW s \in Seq(S)
  PROVE  /\ Eval(s) = [fsm |-> Eval(s).fsm, kept |-> Eval(s).kept]
         /\ Eval(s).kept \in Seq(S) /\ Within(Eval(s).kept, s)
<1> DEFINE Good(a) == /\ Eval(a) = [fsm |-> Eval(a).fsm, kept |-> Eval(a).kept]
                      /\ Eval(a).kept \in Seq(S) /\ Within(Eval(a).kept, a)
           P == {a \in Seq(S) : Good(a)}
<1>1. <<>> \in P
  <2>1. Base.kept = <<>> /\ Base = [fsm |-> Base.fsm, kept |-> Base.kept] /\ Len(<<>>) = 0
    BY DEF Base
  <2>2. Within(<<>>, <<>>) /\ <<>> \in Seq(S)
    BY <2>1 DEF Within
  <2> QED
    BY <2>1, <2>2, EvalEmpty
<1>2. ASSUME NEW a \in P, NEW e \in S
      PROVE  Append(a, e) \in P
  <2> DEFINE b == Append(a, e)  k == Eval(a).kept  f == Eval(a).fsm
  <2>1. Eval(b) = EvalStep(Eval(a), e)
    BY EvalAppend
  <2>2. /\ a \in Seq(S) /\ b \in Seq(S) /\ Len(b) = Len(a) + 1 /\ Len(a) \in Nat /\ b[Len(a) + 1] = e
        /\ \A i \in 1 .. Len(a) : b[i] = a[i]
    OBVIOUS
  <2>3. k \in Seq(S) /\ Within(k, a)
    OBVIOUS
  <2> HIDE DEF b
  <2>4. /\ Eval(b) = [fsm |-> Eval(b).fsm, kept |-> Eval(b).kept]
        /\ Eval(b).kept = IF Relevant(f, e) THEN Append(k, e) ELSE k
    BY <2>1 DEF EvalStep
  <2> HIDE DEF k, f
  <2>5. Within(k, b)
    BY <2>2, <2>3 DEF Within
  <2>6. Within(Append(k, e), b) /\ Append(k, e) \in Seq(S)
    <3>1. /\ Append(k, e) \in Seq(S) /\ Len(Append(k, e)) = Len(k) + 1 /\ Len(k) \in Nat
          /\ Append(k, e)[Len(k) + 1] = e
          /\ \A i \in 1 .. Len(k) : Append(k, e)[i] = k[i]
      BY <2>3
    <3> SUFFICES ASSUME NEW i \in 1 .. Len(k) + 1
                 PROVE  \E j \in 1 .. Len(b) : Append(k, e)[i] = b[j]
      BY <3>1 DEF Within
    <3>2. CASE i = Len(k) + 1
      <4>1. Len(a) + 1 \in 1 .. Len(b) /\ Append(k, e)[i] = b[Len(a) + 1]
        BY <2>2, <3>1, <3>2
      <4> QED
        BY <4>1
    <3>3. CASE i # Len(k) + 1
      <4>1. i \in 1 .. Len(k) /\ Append(k, e)[i] = k[i]
        BY <3>1, <3>3
      <4> QED
        BY <2>5, <4>1 DEF Within
    <3> QED
      BY <3>2, <3>3
  <2>7. Good(b)
    BY <2>3, <2>4, <2>5, <2>6
  <2> HIDE DEF Good
  <2> QED
    BY <2>2, <2>7 DEF b
<1>3. P = Seq(S)
  <2> HIDE DEF P
  <2>1. P \in SUBSET Seq(S)
    BY DEF P
  <2> QED
    BY <1>1, <1>2, <2>1, SeqInduction
<1>4. s \in P
  BY <1>3
<1> QED
  BY <1>4

(* One more entry: it is kept and moves the locals, or does neither.       *)
LEMMA EvalMore ==
  ASSUME NEW S, NEW s \in Seq(S), NEW e \in S
  PROVE  LET f == Eval(s).fsm
         IN  /\ Eval(Append(s, e)).fsm = Iteration(f, e)
             /\ Relevant(f, e) => Eval(Append(s, e)).kept = Append(Eval(s).kept, e)
             /\ ~ Relevant(f, e) => Eval(Append(s, e)) = Eval(s)
<1>1. Eval(Append(s, e)) = EvalStep(Eval(s), e)
  BY EvalAppend
<1>2. Eval(s) = [fsm |-> Eval(s).fsm, kept |-> Eval(s).kept]
  BY EvalRecord
<1> QED
  BY <1>1, <1>2 DEF EvalStep, Iteration

(* The evaluation of what an evaluation kept comes to the same.            *)
LEMMA EvalTwice ==
  ASSUME NEW S, NEW s \in Seq(S)
  PROVE  Eval(Eval(s).kept) = Eval(s)
<1> DEFINE P == {a \in Seq(S) : Eval(Eval(a).kept) = Eval(a)}
<1>1. <<>> \in P
  BY EvalEmpty DEF Base
<1>2. ASSUME NEW a \in P, NEW e \in S
      PROVE  Append(a, e) \in P
  <2> DEFINE b == Append(a, e)  k == Eval(a).kept  f == Eval(a).fsm
  <2>1. k \in Seq(S) /\ Eval(k) = Eval(a) /\ b \in Seq(S) /\ a \in Seq(S)
    BY EvalRecord
  <2>2. CASE Relevant(f, e)
    <3>1. Eval(b).kept = Append(k, e)
      BY <2>1, <2>2, EvalMore
    <3>2. Eval(Append(k, e)) = EvalStep(Eval(k), e) /\ Eval(b) = EvalStep(Eval(a), e)
      BY <2>1, EvalAppend
    <3> QED
      BY <2>1, <3>1, <3>2
  <2>3. CASE ~ Relevant(f, e)
    <3>1. Eval(b) = Eval(a)
      BY <2>1, <2>3, EvalMore
    <3> QED
      BY <2>1, <3>1
  <2> QED
    BY <2>2, <2>3
<1>3. P = Seq(S)
  <2> HIDE DEF P
  <2>1. P \in SUBSET Seq(S)
    BY DEF P
  <2> QED
    BY <1>1, <1>2, <2>1, SeqInduction
<1>4. s \in P
  BY <1>3
<1> QED
  BY <1>4

(* The last entry of a sorted log is not before the others.                *)
LEMMA SortedFront ==
  ASSUME NEW a \in Seq(EventEntry), NEW e \in EventEntry, Sorted(Append(a, e))
  PROVE  /\ Sorted(a)
         /\ \A i \in 1 .. Len(a) : ~ Before(e, a[i]) /\ a[i].time \in Int /\ a[i].time <= e.time
<1> DEFINE b == Append(a, e)
<1>1. /\ b \in Seq(EventEntry) /\ Len(b) = Len(a) + 1 /\ Sorted(b)
      /\ Len(a) \in Nat /\ b[Len(a) + 1] = e /\ \A i \in 1 .. Len(a) : b[i] = a[i]
  OBVIOUS
<1> HIDE DEF b
<1>2. ASSUME NEW i \in 1 .. Len(a) PROVE ~ Before(e, a[i])
  <2>1. i \in 1 .. Len(b) /\ Len(a) + 1 \in 1 .. Len(b) /\ i < Len(a) + 1
    BY <1>1
  <2> QED
    BY <1>1, <2>1 DEF Sorted
<1>3. ASSUME NEW i \in 1 .. Len(a), NEW j \in 1 .. Len(a), i < j
      PROVE  ~ Before(a[j], a[i])
  <2>1. i \in 1 .. Len(b) /\ j \in 1 .. Len(b)
    BY <1>1
  <2> QED
    BY <1>1, <1>3, <2>1 DEF Sorted
<1>4. ASSUME NEW i \in 1 .. Len(a) PROVE a[i].time \in Int /\ a[i].time <= e.time
  <2>1. a[i] \in EventEntry
    OBVIOUS
  <2>2. a[i].time \in Int /\ e.time \in Int
    BY <2>1, EventTypes
  <2>3. ~ e.time < a[i].time
    BY <1>2 DEF Before
  <2> QED
    BY <2>2, <2>3
<1> QED
  BY <1>2, <1>3, <1>4 DEF Sorted

(* What holds after the evaluation of a sorted log: the locals are sound,  *)
(* no mark of a run in progress is later than the log, and the entries     *)
(* that stay are sorted, each once, and are those the locals remember.     *)
Clean(s) ==
  LET f == Eval(s).fsm
      k == Eval(s).kept
  IN  /\ Sound(f) /\ Sorted(k) /\ UniqueUuids(k) /\ f.processed_uuids = UuidsOf(k)
      /\ \A x \in Int : (\A i \in 1 .. Len(s) : s[i].time <= x) => MarksBefore(f, x)

LEMMA EvalSound ==
  ASSUME NEW s \in Seq(EventEntry), Sorted(s)
  PROVE  Clean(s)
<1> DEFINE P == {a \in Seq(EventEntry) : Sorted(a) => Clean(a)}
<1>1. <<>> \in P
  <2>1. Eval(<<>>).fsm = FsmInit /\ Eval(<<>>).kept = <<>>
    BY EvalEmpty DEF Base
  <2>2. Clean(<<>>)
    BY <2>1, FsmInitSound, EmptyLog DEF Clean, MarksBefore
  <2> QED
    BY <2>2, EmptyLog
<1>2. ASSUME NEW a \in P, NEW e \in EventEntry
      PROVE  Append(a, e) \in P
  <2> DEFINE b == Append(a, e)  f == Eval(a).fsm  k == Eval(a).kept
  <2>1. /\ a \in Seq(EventEntry) /\ b \in Seq(EventEntry) /\ Len(b) = Len(a) + 1
        /\ Len(a) \in Nat /\ b[Len(a) + 1] = e /\ \A i \in 1 .. Len(a) : b[i] = a[i]
    OBVIOUS
  <2> SUFFICES ASSUME Sorted(b) PROVE Clean(b)
    BY <2>1
  <2> HIDE DEF b
  <2>2. Sorted(a) /\ \A i \in 1 .. Len(a) : ~ Before(e, a[i])
    BY <2>1, SortedFront DEF b
  <2>3. Clean(a)
    BY <2>2
  <2>4. e.time \in Int /\ \A i \in 1 .. Len(a) : a[i].time \in Int /\ a[i].time <= e.time
    BY <2>1, SortedFront, EventTypes DEF b
  <2>5. MarksBefore(f, e.time)
    BY <2>3, <2>4 DEF Clean
  <2>6. /\ Eval(b).fsm = Iteration(f, e)
        /\ Eval(b).kept = IF Relevant(f, e) THEN Append(k, e) ELSE k
    BY <2>1, EvalMore DEF b
  <2>7. /\ Sound(Iteration(f, e)) /\ MarksBefore(Iteration(f, e), e.time)
        /\ Iteration(f, e).processed_uuids =
             IF Relevant(f, e) THEN f.processed_uuids \cup {e.uuid} ELSE f.processed_uuids
    BY <2>3, <2>5, IterationSound DEF Clean
  <2>8. ASSUME NEW x \in Int, \A i \in 1 .. Len(b) : b[i].time <= x
        PROVE  MarksBefore(Iteration(f, e), x)
    <3>1. Len(a) + 1 \in 1 .. Len(b)
      BY <2>1
    <3>2. e.time <= x
      BY <2>1, <2>8, <3>1
    <3>3. Iteration(f, e).start \in Int /\ Iteration(f, e).segment \in Int
      BY <2>7, FsmTypes DEF Sound
    <3> QED
      BY <2>4, <2>7, <3>2, <3>3 DEF MarksBefore
  <2>9. k \in Seq(EventEntry) /\ \A i \in 1 .. Len(k) : ~ Before(e, k[i])
    BY <2>1, <2>2, EvalRecord DEF Within
  <2>10. Sorted(Eval(b).kept) /\ UniqueUuids(Eval(b).kept)
         /\ Eval(b).fsm.processed_uuids = UuidsOf(Eval(b).kept)
    <3>1. CASE Relevant(f, e)
      <4>1. e.uuid \notin UuidsOf(k)
        BY <2>3, <3>1 DEF Clean, Relevant
      <4> QED
        BY <2>3, <2>6, <2>7, <2>9, <3>1, <4>1, AppendKept DEF Clean
    <3>2. CASE ~ Relevant(f, e)
      BY <2>3, <2>6, <2>7, <3>2 DEF Clean
    <3> QED
      BY <3>1, <3>2
  <2> QED
    BY <2>6, <2>7, <2>8, <2>10 DEF Clean
<1>3. P = Seq(EventEntry)
  <2> HIDE DEF P
  <2>1. P \in SUBSET Seq(EventEntry)
    BY DEF P
  <2> QED
    BY <1>1, <1>2, <2>1, SeqInduction
<1>4. s \in P
  BY <1>3
<1> QED
  BY <1>4

(* A log of which the evaluation drops nothing.                            *)
Fixed(s) == Eval(s).kept = s

(* Of a log of which nothing is dropped, nothing was dropped before.       *)
LEMMA FixedFront ==
  ASSUME NEW S, NEW s \in Seq(S), NEW e \in S, Fixed(Append(s, e))
  PROVE  Fixed(s) /\ Relevant(Eval(s).fsm, e)
<1> DEFINE k == Eval(s).kept  Longest(a) == Len(Eval(a).kept) <= Len(a)
           P == {a \in Seq(S) : Longest(a)}
<1>1. P = Seq(S)
  <2>1. <<>> \in P
    BY EvalEmpty DEF Base
  <2>2. ASSUME NEW a \in P, NEW d \in S
        PROVE  Append(a, d) \in P
    <3>1. /\ a \in Seq(S) /\ Eval(a).kept \in Seq(S) /\ Append(a, d) \in Seq(S)
          /\ Len(Append(a, d)) = Len(a) + 1
          /\ Len(Append(Eval(a).kept, d)) = Len(Eval(a).kept) + 1
      BY EvalRecord
    <3>2. \/ Eval(Append(a, d)).kept = Append(Eval(a).kept, d)
          \/ Eval(Append(a, d)).kept = Eval(a).kept
      BY <3>1, EvalMore
    <3>3. Len(Eval(a).kept) <= Len(a) /\ Len(a) \in Nat /\ Len(Eval(a).kept) \in Nat
      BY <3>1
    <3> QED
      BY <3>1, <3>2, <3>3
  <2> HIDE DEF P
  <2>3. P \in SUBSET Seq(S)
    BY DEF P
  <2> QED
    BY <2>1, <2>2, <2>3, SeqInduction
<1>2. /\ k \in Seq(S) /\ Len(k) <= Len(s) /\ Len(s) \in Nat /\ Len(k) \in Nat
      /\ Append(s, e) \in Seq(S) /\ Len(Append(s, e)) = Len(s) + 1
  <2>1. s \in P
    BY <1>1
  <2> QED
    BY <2>1, EvalRecord
<1> HIDE DEF P
<1>3. Relevant(Eval(s).fsm, e)
  <2> SUFFICES ASSUME ~ Relevant(Eval(s).fsm, e) PROVE FALSE
    OBVIOUS
  <2>1. k = Append(s, e)
    BY EvalMore DEF Fixed
  <2> QED
    BY <1>2, <2>1
<1>4. Append(k, e) = Append(s, e)
  BY <1>3, EvalMore DEF Fixed
<1>5. k = s
  <2> HIDE DEF k
  <2>1. Len(k) = Len(s)
    BY <1>2, <1>4
  <2>2. \A i \in 1 .. Len(s) : Append(k, e)[i] = k[i] /\ Append(s, e)[i] = s[i]
    BY <1>2, <2>1
  <2> QED
    BY <1>2, <1>4, <2>1, <2>2, SeqEqual
<1> QED
  BY <1>3, <1>5 DEF Fixed

(* Induction along the entries of a log of which nothing is dropped.       *)
LEMMA FixedInduction ==
  ASSUME NEW S, NEW P \in SUBSET Seq(S), <<>> \in P,
         \A s \in P, e \in S :
           Fixed(s) /\ Fixed(Append(s, e)) /\ Relevant(Eval(s).fsm, e) => Append(s, e) \in P
  PROVE  \A s \in Seq(S) : Fixed(s) => s \in P
<1> DEFINE Q == {s \in Seq(S) : Fixed(s) => s \in P}
<1>1. <<>> \in Q
  OBVIOUS
<1>2. ASSUME NEW s \in Q, NEW e \in S
      PROVE  Append(s, e) \in Q
  <2>1. s \in Seq(S) /\ Append(s, e) \in Seq(S)
    OBVIOUS
  <2>2. Fixed(Append(s, e)) => Fixed(s) /\ Relevant(Eval(s).fsm, e)
    BY <2>1, FixedFront
  <2> QED
    BY <2>1, <2>2
<1>3. Q = Seq(S)
  <2> HIDE DEF Q
  <2>1. Q \in SUBSET Seq(S)
    BY DEF Q
  <2> QED
    BY <1>1, <1>2, <2>1, SeqInduction
<1> QED
  BY <1>3

=============================================================================
