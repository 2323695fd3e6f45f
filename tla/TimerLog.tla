------------------------------ MODULE TimerLog ------------------------------
(***************************************************************************)
(* What the event store promises: a log of timer events, in which every    *)
(* arrival is sorted into place, the whole log is evaluated and the        *)
(* entries that had no effect are dropped, in one indivisible step.        *)
(* EventStore is the program that does this with threads, a lock and a     *)
(* loop, and is shown to implement this module.                            *)
(***************************************************************************)
EXTENDS EventLog, SequencesExt, FiniteSets

CONSTANTS
  Input,        \* the events that can arrive
  RegionUuid    \* uuids of trigger regions, which events reuse

ASSUME InputAssumption == Input \subseteq EventEntry
ASSUME RegionAssumption == RegionUuid \subseteq Uuid

VARIABLES
  log,        \* the entries, canonical after every step
  state,      \* what get_timer_state shows, but for the clock in current_time
  history,
  segments,
  received    \* every event that was added, in order of arrival

vars == <<log, state, history, segments, received>>

-----------------------------------------------------------------------------
(* A generated uuid is new.  Only a trigger region uses its own again, and *)
(* it signals once per frame, which is later than the frame before.        *)
IsNew(e, seen) ==
  \/ e.uuid \notin {d.uuid : d \in seen} \cup RegionUuid
  \/ /\ e.type = "segment" /\ e.uuid \in RegionUuid
     /\ \A d \in seen : d.uuid = e.uuid => d.time # e.time

Init ==
  /\ log = <<>>
  /\ state = [status |-> "stopped", start_time |-> 0, was_prepared |-> FALSE]
  /\ history = <<>>
  /\ segments = <<>>
  /\ received = <<>>

Add(e) ==
  /\ received' = Append(received, e)
  /\ \E s \in SortedForms(Append(log, e)) :
       LET result == Eval(s)
       IN  /\ log' = result.kept
           /\ state' = Verdict(result.fsm)
           /\ history' = result.fsm.history
           /\ segments' = result.fsm.segments

Arrive(e) ==
  /\ IsNew(e, ToSet(received))
  /\ Add(e)

Next == \E e \in Input : Arrive(e)

Spec == Init /\ [][Next]_vars

-----------------------------------------------------------------------------

(* Evaluating the stored log again changes nothing: the entries dropped    *)
(* after an evaluation had no part in its outcome, so the next event is    *)
(* judged against the same history the display was computed from.          *)
(* (eventstore.cpp: reevaluate_state with its erase_if)                    *)
ReevaluationStable ==
  received # <<>> =>
    LET again == Eval(log)
    IN  /\ again.kept = log
        /\ Verdict(again.fsm) = state
        /\ again.fsm.history = history
        /\ again.fsm.segments = segments

(* Erasing irrelevant entries loses nothing as long as events arrive in    *)
(* the order of their time stamps: the log evaluates to what all events    *)
(* ever added would.  (eventstore.cpp: erase_if at the end of              *)
(* reevaluate_state)                                                       *)
PruningIsExact ==
  received # <<>> /\ Sorted(received) =>
    LET whole == Eval(received).fsm
    IN  /\ Verdict(whole) = state
        /\ whole.history = history
        /\ whole.segments = segments

(* The runs in a log, found without an FSM: a start and a stop with        *)
(* nothing between them that ends a run.                                   *)
RunsIn(s) ==
  {r \in (1 .. Len(s)) \X (1 .. Len(s)) :
     /\ r[1] < r[2]
     /\ s[r[1]].type = "start" /\ s[r[2]].type = "stop"
     /\ \A k \in r[1] + 1 .. r[2] - 1 :
          s[k].type \in {"segment", "segment_clear", "history_clear"}}

MapAt(s, i) ==
  LET changes == {k \in 1 .. i : s[k].type = "map_change"}
  IN  IF changes = {} THEN "Unknown"
      ELSE NameOr(s[CHOOSE k \in changes : \A j \in changes : j <= k], "Unknown")

(* The history is exactly the runs of the log that ended after the last    *)
(* history_clear, oldest first, each with the times of its start and its   *)
(* stop and the map it was run on.                                         *)
HistoryIsTheRuns ==
  LET shown == {r \in RunsIn(log) :
                  \A k \in r[2] .. Len(log) : log[k].type # "history_clear"}
      place(r) == Cardinality({q \in shown : q[2] <= r[2]})
  IN  /\ Len(history) = Cardinality(shown)
      /\ \A r \in shown :
           history[place(r)] = [name  |-> MapAt(log, r[1]),
                                start |-> log[r[1]].time,
                                end   |-> log[r[2]].time]

(* The entries of a log that end a segment: splits, and stops of runs.     *)
Ends(s, k) == s[k].type = "segment" \/ \E a \in 1 .. Len(s) : <<a, k>> \in RunsIn(s)

(* The segments on display cut the run into consecutive pieces: a set slot *)
(* follows set slots only and begins where the one before it ended, the    *)
(* first of a run in progress begins with the run, unless the segments     *)
(* were cleared during it, and the last ends where a run was split or      *)
(* stopped last.                                                           *)
SegmentsChain ==
  /\ \A i \in 2 .. Len(segments) :
       segments[i].is_set =>
         segments[i-1].is_set /\ segments[i].start = segments[i-1].end
  /\ state.status = "running" /\ segments # <<>> =>
       \/ segments[1].is_set => segments[1].start = state.start_time
       \/ \E k \in 1 .. Len(log) : /\ log[k].type = "segment_clear"
                                   /\ log[k].time >= state.start_time
  /\ \A i \in 1 .. Len(segments) :
       segments[i].is_set /\ (i < Len(segments) => ~ segments[i+1].is_set) =>
         \E k \in 1 .. Len(log) :
           /\ Ends(log, k) /\ segments[i].end = log[k].time
           /\ \A j \in k + 1 .. Len(log) : ~ Ends(log, j)

=============================================================================
