----------------------------- MODULE EventStore -----------------------------
(***************************************************************************)
(* The event store of the timer (eventstore.cpp) with the threads that     *)
(* call it: the render thread (imgui), the window procedure's thread       *)
(* (window), arcdps' combat thread (combat) and the threads defer() makes  *)
(* (deferred).                                                             *)
(*                                                                         *)
(* The log is guarded by log_mutex, the TimerState that the display and    *)
(* the auto start look at is not: it is stored and copied member by        *)
(* member, in an order of the threads' choosing.                           *)
(***************************************************************************)
EXTENDS EventLog, SequencesExt, FiniteSets

CONSTANTS
  Thread,
  Role,         \* what each thread is
  NoThread,     \* log_mutex is free
  NoEvent,      \* a thread that carries no event
  RegionUuid,   \* uuids of trigger regions, which events reuse
  Draw,         \* the uuids random_generator may return at each instant
  Lag,          \* how far the ticks of combat events lie in the past
  StartWindow,  \* within which a skill cast may replace the start: 3 s
  MaxNow        \* bound on the clock, and so on the number of events

ASSUME RoleAssumption ==
  Role \in [Thread -> {"imgui", "window", "combat", "deferred"}]
ASSUME NoneAssumption == NoThread \notin Thread /\ NoEvent \notin EventEntry
ASSUME RegionAssumption == RegionUuid \subseteq Uuid
ASSUME DrawAssumption == Draw \in [1 .. MaxNow -> SUBSET Uuid]
ASSUME ClockAssumption ==
  Lag \in Nat /\ StartWindow \in Nat /\ MaxNow \in Nat /\ 0 < MaxNow /\ MaxNow < TimeMax

VARIABLES
  entries,   \* EventStore::entries
  fsm,       \* the locals of reevaluate_state, history and segments
  cursor,    \* how many entries the loop has been through
  kept,      \* those of them that are still marked is_relevant
  holder,    \* who holds log_mutex
  state,     \* EventStore::state
  pc, ev,    \* where each thread is, and the event it carries
  snap,      \* the copy of state that get_timer_state makes
  field,     \* how far a thread is in storing or copying a TimerState
  now,       \* system_clock::now()
  posted,    \* the events handed to post_serverapi
  saving,    \* the copied map logs, by uuids, that threads are yet to write
  saved      \* the uuids of the events in the files written so far

VARIABLE
  unsaved    \* the events that were added since a copy was made of the log,
             \* and no thread was at work on it

logVars == <<entries, fsm, cursor, kept, holder, posted>>
fileVars == <<saving, saved, unsaved>>
vars == <<logVars, state, pc, ev, snap, field, now, fileVars>>

-----------------------------------------------------------------------------

Fields == <<"status", "start_time", "current_time", "was_prepared">>

(* The global store is zero-initialised before it is constructed.          *)
ZeroState ==
  [status |-> "stopped", start_time |-> 0, current_time |-> 0, was_prepared |-> FALSE]

(* What reevaluate_state stores into state.                                *)
Result(f) ==
  [status |-> f.status, start_time |-> f.start, current_time |-> f.stop,
   was_prepared |-> f.was_prepared]

Init ==
  /\ entries = <<>> /\ fsm = FsmInit /\ cursor = 0 /\ kept = <<>>
  /\ holder = NoThread
  /\ state = ZeroState
  /\ pc = [t \in Thread |-> "idle"] /\ ev = [t \in Thread |-> NoEvent]
  /\ snap = [t \in Thread |-> ZeroState] /\ field = [t \in Thread |-> 1]
  /\ now = 1
  /\ posted = <<>> /\ saving = {} /\ saved = {} /\ unsaved = {}

Goto(t, label) == pc' = [pc EXCEPT ![t] = label]

(* The member a thread stores or copies next, and where it goes then.      *)
Member(t) == Fields[field[t]]

NextField(t, here, there) ==
  /\ field' = [field EXCEPT ![t] = IF @ = Len(Fields) THEN 1 ELSE @ + 1]
  /\ Goto(t, IF field[t] = Len(Fields) THEN there ELSE here)

-----------------------------------------------------------------------------
(* get_timer_state, which takes no lock: look at the status, set the clock *)
(* of a running timer, copy the members.                                   *)

Look(t) ==
  /\ pc[t] = "idle" /\ Role[t] \in {"imgui", "combat"}
  /\ Goto(t, "refresh")
  /\ UNCHANGED <<logVars, state, ev, snap, field, now, fileVars>>

Refresh(t) ==
  /\ pc[t] = "refresh"
  /\ Goto(t, IF state.status = "running" THEN "clock" ELSE "copy")
  /\ UNCHANGED <<logVars, state, ev, snap, field, now, fileVars>>

(* The time is read, and stored a step later: until then it is where the  *)
(* copy will be made.                                                      *)
Clock(t) ==
  /\ pc[t] = "clock"
  /\ snap' = [snap EXCEPT ![t].current_time = now]
  /\ Goto(t, "set")
  /\ UNCHANGED <<logVars, state, ev, field, now, fileVars>>

SetTime(t) ==
  /\ pc[t] = "set"
  /\ state' = [state EXCEPT !.current_time = snap[t].current_time]
  /\ Goto(t, "copy")
  /\ UNCHANGED <<logVars, ev, snap, field, now, fileVars>>

Copy(t) ==
  /\ pc[t] = "copy"
  /\ snap' = [snap EXCEPT ![t][Member(t)] = state[Member(t)]]
  /\ NextField(t, "copy", IF ev[t] = NoEvent THEN "looked" ELSE "decide")
  /\ UNCHANGED <<logVars, state, ev, now, fileVars>>

-----------------------------------------------------------------------------
(* The callers: each makes an EventEntry and calls dispatch_event.         *)

Carried == {ev[t] : t \in Thread} \ {NoEvent}

(* random_generator()() does not return a uuid twice.                      *)
NewUuids == Draw[now] \ ({e.uuid : e \in ToSet(posted) \cup Carried} \cup RegionUuid)

Plain(types, source) ==
  [time : {now + 1}, type : types, source : {source}, uuid : NewUuids, name : {NoName}]

Keys == {"start", "stop", "reset", "prepare", "segment"}

(* What a thread sends without looking at the timer first: the buttons and *)
(* the trigger regions, the key binds, a boss kill, the auto prepare.      *)
Offered(t) ==
  CASE Role[t] = "imgui" ->
         Plain(Keys \cup {"segment_clear", "history_clear"}, "manual")
         \cup [time : {now + 1}, type : {"segment"}, source : {"combat"},
               uuid : RegionUuid, name : Name]
    [] Role[t] = "window"   -> Plain(Keys, "manual")
    [] Role[t] = "combat"   -> Plain({"stop"}, "combat")
    [] Role[t] = "deferred" -> Plain({"prepare"}, "other")

Carry(t, e) ==
  /\ now < MaxNow
  /\ now' = now + 1
  /\ ev' = [ev EXCEPT ![t] = e]

Send(t) ==
  /\ pc[t] = "idle"
  /\ \E e \in Offered(t) : Carry(t, e)
  /\ Goto(t, "lock")
  /\ UNCHANGED <<logVars, state, snap, field, fileVars>>

(* Timer::mod_imgui: the player moved while the copy says prepared.        *)
Move(t) ==
  /\ pc[t] = "looked" /\ Role[t] = "imgui" /\ snap[t].status = "prepared"
  /\ \E e \in Plain({"start"}, "movement") : Carry(t, e)
  /\ Goto(t, "lock")
  /\ snap' = [snap EXCEPT ![t] = ZeroState]
  /\ UNCHANGED <<logVars, state, field, fileVars>>

(* Timer::mod_combat: a skill was cast; the event is stamped with the tick *)
(* it carries.                                                             *)
Activate(t) ==
  /\ pc[t] = "looked" /\ Role[t] = "combat"
  /\ \E e \in Plain({"start"}, "combat"), tick \in {n \in Time : now + 1 - Lag <= n /\ n <= now + 1} :
       Carry(t, [e EXCEPT !.time = tick])
  /\ Goto(t, "refresh")
  /\ snap' = [snap EXCEPT ![t] = ZeroState]
  /\ UNCHANGED <<logVars, state, field, fileVars>>

(* Nobody moved and no skill was cast.                                     *)
Rest(t) ==
  /\ pc[t] = "looked"
  /\ Goto(t, "idle")
  /\ snap' = [snap EXCEPT ![t] = ZeroState]
  /\ UNCHANGED <<logVars, state, ev, field, now, fileVars>>

-----------------------------------------------------------------------------
(* The log of a map is what follows its map_change.  It is copied without  *)
(* the lock, and a copy that is made while another thread works on the     *)
(* vector may miss anything.                                               *)

(* Mutant: the log of the map is searched for from the front.              *)
FirstMapLog ==
  {entries[i].uuid : i \in {j \in 1 .. Len(entries) :
                              \A k \in 1 .. j : entries[k].type # "map_change"}}

MapLog ==
  {entries[i].uuid : i \in {j \in 1 .. Len(entries) :
                              \A k \in j .. Len(entries) : entries[k].type # "map_change"}}

Copies == IF holder = NoThread THEN {MapLog} ELSE SUBSET MapLog

CopyIsMade == unsaved' = IF holder = NoThread THEN {} ELSE unsaved

(* save_map_log: the copy is for a thread of its own.                      *)
SaveMapLog ==
  /\ \E copied \in Copies : saving' = saving \cup ({copied} \ {{}})
  /\ CopyIsMade
  /\ UNCHANGED saved

(* save_log_thread, which may be late, or never come to its file: nothing  *)
(* waits for it.                                                           *)
WriteLog(copied) ==
  /\ copied \in saving
  /\ saving' = saving \ {copied} /\ saved' = saved \cup copied
  /\ UNCHANGED <<logVars, state, pc, ev, snap, field, now, unsaved>>

(* The map change handler of mod_init saves before it dispatches, and      *)
(* dispatch_event saves once more.                                         *)
ChangeMap(t) ==
  /\ pc[t] = "idle" /\ Role[t] = "imgui"
  /\ SaveMapLog
  /\ \E e \in [time : {now + 1}, type : {"map_change"}, source : {"other"},
               uuid : NewUuids, name : Name] : Carry(t, e)
  /\ Goto(t, "save")
  /\ UNCHANGED <<logVars, state, snap, field>>

Save(t) ==
  /\ pc[t] = "save"
  /\ SaveMapLog
  /\ Goto(t, "lock")
  /\ UNCHANGED <<logVars, state, ev, snap, field, now>>

(* EventStore::mod_release: the last map's log is written at once and the  *)
(* host makes no further call on this thread.                              *)
Release(t) ==
  /\ pc[t] = "idle" /\ Role[t] = "imgui"
  /\ \E copied \in Copies : saved' = saved \cup copied
  /\ CopyIsMade
  /\ Goto(t, "released")
  /\ UNCHANGED <<logVars, state, ev, snap, field, now, saving>>

-----------------------------------------------------------------------------
(* dispatch_event of a skill cast: judged by the copy just made.           *)

(* Mutant: a run in progress is started anew, prepared or not.             *)
AdmittedAnyRun(t) ==
  \/ snap[t].status = "running" /\ now - snap[t].start_time < StartWindow
  \/ snap[t].status = "prepared"

Admitted(t) ==
  \/ /\ snap[t].status = "running" /\ snap[t].was_prepared
     /\ now - snap[t].start_time < StartWindow
  \/ snap[t].status = "prepared"

Decide(t) ==
  /\ pc[t] = "decide"
  /\ \/ Admitted(t) /\ Goto(t, "lock") /\ UNCHANGED ev
     \/ ~ Admitted(t) /\ Goto(t, "idle") /\ ev' = [ev EXCEPT ![t] = NoEvent]
  /\ snap' = [snap EXCEPT ![t] = ZeroState]
  /\ UNCHANGED <<logVars, state, field, now, fileVars>>

-----------------------------------------------------------------------------
(* add_event                                                               *)

Lock(t) ==
  /\ pc[t] = "lock" /\ holder = NoThread
  /\ holder' = t
  /\ entries' \in SortedForms(Append(entries, ev[t]))
  /\ fsm' = FsmInit /\ cursor' = 0 /\ kept' = <<>>
  /\ Goto(t, "eval")
  /\ UNCHANGED <<state, ev, snap, field, now, posted, fileVars>>

Iterate(t) ==
  /\ pc[t] = "eval" /\ cursor < Len(entries)
  /\ LET entry == entries[cursor + 1]
     IN  /\ fsm' = Iteration(fsm, entry)
         /\ kept' = IF Relevant(fsm, entry) THEN Append(kept, entry) ELSE kept
  /\ cursor' = cursor + 1
  /\ UNCHANGED <<entries, holder, state, pc, ev, snap, field, now, posted, fileVars>>

(* Mutant: as long as entries would be erased, the loop starts again.      *)
EraseLater(t) ==
  /\ pc[t] = "eval" /\ cursor = Len(entries)
  /\ IF kept = entries THEN Goto(t, "store") /\ UNCHANGED <<fsm, cursor, kept>>
     ELSE fsm' = FsmInit /\ cursor' = 0 /\ kept' = <<>> /\ UNCHANGED pc
  /\ UNCHANGED <<entries, holder, state, ev, snap, field, now, posted, fileVars>>

(* std::erase_if                                                           *)
Erase(t) ==
  /\ pc[t] = "eval" /\ cursor = Len(entries)
  /\ entries' = kept
  /\ Goto(t, "store")
  /\ UNCHANGED <<fsm, cursor, kept, holder, state, ev, snap, field, now, posted, fileVars>>

Store(t) ==
  /\ pc[t] = "store"
  /\ state' = [state EXCEPT ![Member(t)] = Result(fsm)[Member(t)]]
  /\ NextField(t, "store", "post")
  /\ UNCHANGED <<logVars, ev, snap, now, fileVars>>

(* Mutant: the newest entry is posted, not the one that was added.         *)
PostNewest(t) ==
  /\ pc[t] = "post"
  /\ posted' = IF entries = <<>> THEN posted ELSE Append(posted, Last(entries))
  /\ unsaved' = unsaved \cup {ev[t].uuid}
  /\ ev' = [ev EXCEPT ![t] = NoEvent]
  /\ holder' = NoThread
  /\ Goto(t, "idle")
  /\ UNCHANGED <<entries, fsm, cursor, kept, state, snap, field, now, saving, saved>>

(* Mutant: an event that had no effect is not posted.                      *)
PostRelevant(t) ==
  /\ pc[t] = "post"
  /\ posted' = IF ev[t] \in ToSet(entries) THEN Append(posted, ev[t]) ELSE posted
  /\ unsaved' = unsaved \cup {ev[t].uuid}
  /\ ev' = [ev EXCEPT ![t] = NoEvent]
  /\ holder' = NoThread
  /\ Goto(t, "idle")
  /\ UNCHANGED <<entries, fsm, cursor, kept, state, snap, field, now, saving, saved>>

Post(t) ==
  /\ pc[t] = "post"
  /\ posted' = Append(posted, ev[t])
  /\ unsaved' = unsaved \cup {ev[t].uuid}
  /\ ev' = [ev EXCEPT ![t] = NoEvent]
  /\ holder' = NoThread
  /\ Goto(t, "idle")
  /\ UNCHANGED <<entries, fsm, cursor, kept, state, snap, field, now, saving, saved>>

(* Time passes.                                                            *)
Tick ==
  /\ now < MaxNow
  /\ now' = now + 1
  /\ UNCHANGED <<logVars, state, pc, ev, snap, field, fileVars>>

Run(t) ==
  \/ Refresh(t) \/ Clock(t) \/ SetTime(t) \/ Copy(t) \/ Save(t) \/ Decide(t)
  \/ Lock(t) \/ Iterate(t) \/ Erase(t) \/ Store(t) \/ Post(t)

Call(t) ==
  \/ Look(t) \/ Send(t) \/ Move(t) \/ Activate(t) \/ Rest(t)
  \/ ChangeMap(t) \/ Release(t)

Next ==
  \/ Tick
  \/ \E t \in Thread : Run(t) \/ Call(t)
  \/ \E copied \in saving : WriteLog(copied)

(* A thread that is inside the store is scheduled until it leaves it, and  *)
(* a frame or a combat event that looked at the timer comes to its end.    *)
Fairness == \A t \in Thread : WF_vars(Run(t))

Spec == Init /\ [][Next]_vars /\ Fairness

-----------------------------------------------------------------------------

PcLabel == {"idle", "refresh", "clock", "set", "copy", "looked", "decide", "save",
            "lock", "eval", "store", "post", "released"}

TypeOK ==
  /\ entries \in Seq(EventEntry) /\ kept \in Seq(EventEntry) /\ posted \in Seq(EventEntry)
  /\ fsm \in Fsm /\ cursor \in Nat
  /\ holder \in Thread \cup {NoThread}
  /\ state \in TimerState /\ snap \in [Thread -> TimerState]
  /\ pc \in [Thread -> PcLabel]
  /\ ev \in [Thread -> EventEntry \cup {NoEvent}]
  /\ field \in [Thread -> 1 .. Len(Fields)]
  /\ now \in 1 .. MaxNow
  /\ saving \subseteq SUBSET Uuid /\ saved \subseteq Uuid /\ unsaved \subseteq Uuid

(* Whenever the lock is free the log is in the order of operator<, no two  *)
(* entries share a uuid, and the entries are exactly those the FSM         *)
(* processed.  (eventstore.cpp: reevaluate_state)                          *)
LogCanonical ==
  holder = NoThread =>
    Sorted(entries) /\ UniqueUuids(entries) /\ fsm.processed_uuids = UuidsOf(entries)

(* No run in the history and no segment ends before it begins, although    *)
(* ticks of combat events arrive late and the loop fills a segment from a  *)
(* mark an earlier entry set.  (eventstore.cpp:162, 170, 187)              *)
RunsOrdered == Ordered(fsm)

(* segments[segment_index++] stays inside the vector, whatever sequence of *)
(* starts, clears and map changes came before.  (eventstore.cpp:168, 185)  *)
SlotInBounds == fsm.segment_index <= Len(fsm.segments)

(* Every entry of the log has been handed to the group, or is being added  *)
(* by the thread that holds the lock, and no event is handed over twice    *)
(* unless a trigger region repeated its uuid.  (eventstore.cpp:275-287)    *)
EntriesArePosted ==
  /\ \A i \in 1 .. Len(entries) :
       \/ \E j \in 1 .. Len(posted) : posted[j] = entries[i]
       \/ holder # NoThread /\ ev[holder] = entries[i]
  /\ \A i, j \in 1 .. Len(posted) :
       posted[i].uuid = posted[j].uuid => i = j \/ posted[i].uuid \in RegionUuid

(* An automatic start reaches the group only after a prepare did: however  *)
(* the members of the copy it was judged by were mixed by other threads,   *)
(* nothing but a prepare makes a timer start by itself.                    *)
(* (eventstore.cpp:20-26, timer.cpp: Timer::mod_imgui)                     *)
AutoStart(e) == e.type = "start" /\ e.source \in {"movement", "combat"}

AutoStartsWerePrepared ==
  \A i \in 1 .. Len(posted) :
    AutoStart(posted[i]) => \E j \in 1 .. i - 1 : posted[j].type = "prepare"

(* An event that reached add_event enters the log and is handed to the     *)
(* group, whatever the other threads do.  (eventstore.cpp:275-287)         *)
EventsArrive ==
  \A u \in Uuid :
    (\E t \in Thread : pc[t] = "lock" /\ ev[t].uuid = u)
      ~> \E i \in 1 .. Len(posted) : posted[i].uuid = u

(* What is in no file of the map the player is on, and in no copy a thread *)
(* is to write, was added since the log was last copied while no thread    *)
(* was at work on it: so much and no more is lost when the map changes,    *)
(* however many threads add events between the copies and the map_change,  *)
(* and in whatever order their files are written.                          *)
(* (eventstore.cpp:32-34, 91-96; mod.cpp:77-80)                            *)
LogsMissOnlyNews ==
  holder = NoThread =>
    \A i \in 1 .. Len(entries) :
      (\A k \in i .. Len(entries) : entries[k].type # "map_change") =>
        entries[i].uuid \in saved \cup unsaved \cup UNION saving

-----------------------------------------------------------------------------
(* The inductive invariant behind LogCanonical and RunsOrdered.            *)

Evaluating == holder # NoThread /\ pc[holder] = "eval"

LockHeld == \A t \in Thread : pc[t] \in {"eval", "store", "post"} <=> holder = t

Carrying ==
  \A t \in Thread :
    pc[t] \in {"decide", "save", "lock", "eval", "store", "post"} => ev[t] # NoEvent

(* Between two iterations: what is kept lies before what is to come, and   *)
(* the marks of a run in progress do not lie after it.                     *)
LoopInvariant ==
  Evaluating =>
    /\ cursor <= Len(entries)
    /\ Sorted(entries) /\ Sorted(kept) /\ UniqueUuids(kept)
    /\ fsm.processed_uuids = UuidsOf(kept)
    /\ \A j \in cursor + 1 .. Len(entries) :
         /\ \A i \in 1 .. Len(kept) : ~ Before(entries[j], kept[i])
         /\ fsm.status = "running" =>
              fsm.start <= entries[j].time /\ fsm.segment <= entries[j].time

CanonicalOutside ==
  ~ Evaluating =>
    Sorted(entries) /\ UniqueUuids(entries) /\ fsm.processed_uuids = UuidsOf(entries)

IInv ==
  /\ TypeOK /\ LockHeld /\ Carrying
  /\ LoopInvariant /\ CanonicalOutside /\ RunsOrdered /\ SlotInBounds

(* With it, what EntriesArePosted needs: the loop keeps entries only, and  *)
(* a generated uuid that a thread carries is nobody else's.                *)
KeptAreEntries ==
  Evaluating => \A i \in 1 .. Len(kept) : \E j \in 1 .. Len(entries) : kept[i] = entries[j]

CarriedAreFresh ==
  \A t \in Thread :
    ev[t] # NoEvent /\ ev[t].uuid \notin RegionUuid =>
      /\ ev[t].uuid \notin UuidsOf(posted)
      /\ \A s \in Thread \ {t} : ev[s] # NoEvent => ev[s].uuid # ev[t].uuid

PostInv == IInv /\ EntriesArePosted /\ KeptAreEntries /\ CarriedAreFresh

-----------------------------------------------------------------------------
(* The store implements TimerLog: adding an event takes effect when the    *)
(* dropped entries are erased.  Until then the log is without the event,   *)
(* from then on the outcome is the one about to be stored.                 *)

Committing == holder # NoThread /\ pc[holder] \in {"store", "post"}

Log ==
  IF Evaluating
  THEN RemoveAt(entries, CHOOSE i \in 1 .. Len(entries) : entries[i] = ev[holder])
  ELSE entries

Outcome ==
  LET r == IF Committing THEN Result(fsm) ELSE state
  IN  [status |-> r.status, start_time |-> r.start_time, was_prepared |-> r.was_prepared]

Stored == Eval(Log).fsm

(* The events the callers can make at an instant.                          *)
SentAt(n) ==
  LET stamped(types, source, times, uuids, names) ==
        [time : times, type : types, source : {source}, uuid : uuids, name : names]
  IN  stamped(Keys \cup {"segment_clear", "history_clear"}, "manual", {n + 1}, Draw[n], {NoName})
      \cup stamped({"start"}, "movement", {n + 1}, Draw[n], {NoName})
      \cup stamped({"start"}, "combat", {k \in Time : n + 1 - Lag <= k /\ k <= n + 1},
                   Draw[n], {NoName})
      \cup stamped({"stop"}, "combat", {n + 1}, Draw[n], {NoName})
      \cup stamped({"prepare"}, "other", {n + 1}, Draw[n], {NoName})
      \cup stamped({"map_change"}, "other", {n + 1}, Draw[n], Name)
      \cup stamped({"segment"}, "combat", {n + 1}, RegionUuid, Name)

Sent == UNION {SentAt(n) : n \in 1 .. MaxNow - 1}

Promise ==
  INSTANCE TimerLog WITH
    Input     <- Sent,
    log       <- Log,
    state     <- Outcome,
    history   <- IF Evaluating THEN Stored.history ELSE fsm.history,
    segments  <- IF Evaluating THEN Stored.segments ELSE fsm.segments,
    received  <- IF Committing THEN Append(posted, ev[holder]) ELSE posted

ImplementsTimerLog == Promise!Spec

=============================================================================
