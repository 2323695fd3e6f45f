------------------------------ MODULE EventLog ------------------------------
(***************************************************************************)
(* The data of the event store (eventstore.h) and the finite state machine *)
(* that EventStore::reevaluate_state (eventstore.cpp) folds over the       *)
(* sorted event log: the pure part shared by TimerLog, which evaluates a   *)
(* log at once, and EventStore, which evaluates it entry by entry under    *)
(* the lock.                                                               *)
(***************************************************************************)
EXTENDS Integers, Sequences, SequencesExt

CONSTANTS
  Uuid,      \* event identities; operator< of the log breaks ties by uuid
  Name,      \* map names and trigger region names
  NoName,    \* an empty std::optional<std::string>
  TimeMax    \* system_clock::time_point::max()

ASSUME UuidAssumption == Uuid \subseteq Nat
ASSUME NameAssumption == NoName \notin Name
ASSUME TimeMaxAssumption == TimeMax \in Nat \ {0}

-----------------------------------------------------------------------------

EventType ==
  {"start", "stop", "reset", "prepare", "segment", "segment_clear",
   "map_change", "history_clear", "none"}

EventSource == {"manual", "combat", "movement", "other"}

TimerStatus == {"stopped", "prepared", "running"}

Time == 0 .. TimeMax - 1    \* the time stamps of events
Instant == 0 .. TimeMax     \* what start, stop and segment hold: max() until set

Label == Name \cup {"", "Unknown"}

EventEntry ==
  [time : Time, type : EventType, source : EventSource, uuid : Uuid,
   name : Name \cup {NoName}]

TimerState ==
  [status : TimerStatus, start_time : Instant, current_time : Instant,
   was_prepared : BOOLEAN]

HistoryEntry == [name : Label, start : Instant, end : Instant]

TimeSegment ==
  [is_set : BOOLEAN, name : Label, start : Instant, end : Instant,
   shortest_time : Int, shortest_duration : Int]

(* entry.name.value_or(default) *)
NameOr(e, default) == IF e.name = NoName THEN default ELSE e.name

MinOf(a, b) == IF b < a THEN b ELSE a

-----------------------------------------------------------------------------
(* The order of the log: operator< on (time, uuid), and std::sort, which   *)
(* is not stable: any sorted permutation is a possible result.             *)

Before(a, b) ==
  \/ a.time < b.time
  \/ a.time = b.time /\ a.uuid < b.uuid

Sorted(s) == \A i, j \in 1 .. Len(s) : i < j => ~ Before(s[j], s[i])

(* TLC's Permutations are the bijections of 1 .. n; said once more, because*)
(* the provers do not see into that module.                                *)
Orderings(n) == Permutations(1 .. n) \cap Bijection(1 .. n, 1 .. n)

(* Mutant: the log is left in the order of arrival.                        *)
UnsortedForms(s) == {s}

SortedForms(s) ==
  {t \in {[i \in 1 .. Len(s) |-> s[p[i]]] : p \in Orderings(Len(s))} : Sorted(t)}

-----------------------------------------------------------------------------
(* The locals of reevaluate_state, with the two vectors it rebuilds.       *)

Fsm ==
  [status : TimerStatus, start : Instant, stop : Instant, segment : Instant,
   segment_index : Nat, was_prepared : BOOLEAN, processed_uuids : SUBSET Uuid,
   history : Seq(HistoryEntry), segments : Seq(TimeSegment),
   current_map : Label]

FsmInit ==
  [status |-> "stopped", start |-> TimeMax, stop |-> TimeMax,
   segment |-> TimeMax, segment_index |-> 0, was_prepared |-> FALSE,
   processed_uuids |-> {}, history |-> <<>>, segments |-> <<>>,
   current_map |-> "Unknown"]

(* for (auto& current_segment : segments) current_segment.is_set = false; *)
Unset(segments) ==
  [i \in DOMAIN segments |-> [segments[i] EXCEPT !.is_set = FALSE]]

(* The slot at segment_index, a new one when the index is one past the     *)
(* end, as a stop or a segment event fills it.  The code reads stop for    *)
(* the two durations: the entry's time when the run stops, and whatever    *)
(* stop holds from an earlier entry when the run is only split.            *)
IsNewSlot(f) == Len(f.segments) = f.segment_index

(* emplace_back() of a TimeSegment; its two times are overwritten at once. *)
EmptySegment ==
  [is_set |-> FALSE, name |-> "", start |-> 0, end |-> 0,
   shortest_time |-> 0, shortest_duration |-> 0]

Filled(f, e, stop, name) ==
  LET old == IF IsNewSlot(f) THEN EmptySegment ELSE f.segments[f.segment_index + 1]
  IN  [is_set |-> TRUE,
       name |-> IF name = NoName THEN old.name ELSE name,
       start |-> f.segment,
       end |-> e.time,
       shortest_time |-> MinOf(old.shortest_time, stop - f.start),
       shortest_duration |-> MinOf(old.shortest_duration, stop - f.segment)]

(* segments[segment_index++] = ...; segment = entry.time;                  *)
FillSegment(f, e, stop, name) ==
  [f EXCEPT
     !.segments = IF IsNewSlot(f) THEN Append(@, Filled(f, e, stop, name))
                  ELSE [@ EXCEPT ![f.segment_index + 1] = Filled(f, e, stop, name)],
     !.segment_index = @ + 1,
     !.segment = e.time]

(* Mutant: leaving a map does not stop the timer.                          *)
OnMapChangeRunsOn(f, e) ==
  [f EXCEPT !.current_map = NameOr(e, "Unknown"), !.segment_index = 0,
            !.start = e.time, !.stop = e.time]

OnMapChange(f, e) ==
  [f EXCEPT !.current_map = NameOr(e, "Unknown"), !.segment_index = 0,
            !.start = e.time, !.stop = e.time, !.status = "stopped"]

OnReset(f, e) ==
  [f EXCEPT !.start = e.time, !.stop = e.time, !.status = "stopped",
            !.segments = Unset(@)]

OnHistoryClear(f) == [f EXCEPT !.history = <<>>]

(* Mutant: the index is not reset with the vector.                         *)
OnSegmentClearKeepsIndex(f) == [f EXCEPT !.segments = <<>>]

OnSegmentClear(f) == [f EXCEPT !.segments = <<>>, !.segment_index = 0]

(* Mutant: a start does not unset the slots of the run before.             *)
OnStartKeepsSlots(f, e) ==
  [f EXCEPT !.start = e.time, !.segment = e.time, !.segment_index = 0,
            !.status = "running", !.was_prepared = (f.status = "prepared")]

(* Mutant: a start does not begin a segment.                               *)
OnStartKeepsMark(f, e) ==
  [f EXCEPT !.start = e.time, !.segment_index = 0, !.status = "running",
            !.was_prepared = (f.status = "prepared"), !.segments = Unset(@)]

OnStart(f, e) ==
  [f EXCEPT !.start = e.time, !.segment = e.time, !.segment_index = 0,
            !.status = "running", !.was_prepared = (f.status = "prepared"),
            !.segments = Unset(@)]

OnPrepare(f, e) ==
  [f EXCEPT !.start = e.time, !.stop = e.time, !.status = "prepared"]

(* stop while running: the run enters the history and closes a segment     *)
OnStopRunning(f, e) ==
  [FillSegment(f, e, e.time, NoName) EXCEPT
     !.stop = e.time, !.status = "stopped",
     !.history = Append(@, [name |-> f.current_map, start |-> f.start,
                            end |-> e.time])]

OnStopPrepared(f, e) == [f EXCEPT !.stop = e.time, !.status = "stopped"]

OnSegment(f, e) == FillSegment(f, e, f.stop, NameOr(e, ""))

(* An entry the loop keeps (is_relevant).                                  *)
Relevant(f, e) ==
  /\ e.uuid \notin f.processed_uuids
  /\ \/ e.type \in {"map_change", "reset", "history_clear", "segment_clear"}
     \/ f.status = "running"  /\ e.type \in {"stop", "segment"}
     \/ f.status = "stopped"  /\ e.type \in {"start", "prepare"}
     \/ f.status = "prepared" /\ e.type \in {"start", "stop"}

Transition(f, e) ==
  CASE e.type = "map_change"    -> OnMapChange(f, e)
    [] e.type = "reset"         -> OnReset(f, e)
    [] e.type = "history_clear" -> OnHistoryClear(f)
    [] e.type = "segment_clear" -> OnSegmentClear(f)
    [] e.type = "start"         -> OnStart(f, e)
    [] e.type = "prepare"       -> OnPrepare(f, e)
    [] e.type = "segment"       -> OnSegment(f, e)
    [] OTHER                    -> IF f.status = "running"
                                   THEN OnStopRunning(f, e)
                                   ELSE OnStopPrepared(f, e)

(* One iteration of the evaluation loop: an entry that is not relevant     *)
(* leaves every local as it was.                                           *)
Iteration(f, e) ==
  IF Relevant(f, e)
  THEN [Transition(f, e) EXCEPT !.processed_uuids = @ \cup {e.uuid}]
  ELSE f

-----------------------------------------------------------------------------
(* The evaluation of a sorted log: the locals after the last iteration and *)
(* the entries that stay.                                                  *)

(* Mutant: a history_clear is not marked relevant.                         *)
EvalStepDropsClears(acc, e) ==
  [fsm  |-> Iteration(acc.fsm, e),
   kept |-> IF Relevant(acc.fsm, e) /\ e.type # "history_clear"
            THEN Append(acc.kept, e) ELSE acc.kept]

(* Mutant: a prepare is not marked relevant.                               *)
EvalStepDropsPrepares(acc, e) ==
  [fsm  |-> Iteration(acc.fsm, e),
   kept |-> IF Relevant(acc.fsm, e) /\ e.type # "prepare"
            THEN Append(acc.kept, e) ELSE acc.kept]

EvalStep(acc, e) ==
  [fsm  |-> Iteration(acc.fsm, e),
   kept |-> IF Relevant(acc.fsm, e) THEN Append(acc.kept, e) ELSE acc.kept]

Eval(s) == FoldLeft(EvalStep, [fsm |-> FsmInit, kept |-> <<>>], s)

Verdict(f) ==
  [status |-> f.status, start_time |-> f.start, was_prepared |-> f.was_prepared]

-----------------------------------------------------------------------------
(* What the properties say of a log and of the locals.                     *)

UuidsOf(s) == {s[i].uuid : i \in 1 .. Len(s)}

UniqueUuids(s) == \A i, j \in 1 .. Len(s) : s[i].uuid = s[j].uuid => i = j

(* No run and no segment ends before it begins.                            *)
Ordered(f) ==
  /\ \A i \in 1 .. Len(f.history) : f.history[i].start <= f.history[i].end
  /\ \A i \in 1 .. Len(f.segments) : f.segments[i].start <= f.segments[i].end

=============================================================================
