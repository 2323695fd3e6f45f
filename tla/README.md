# ArcDPS-Timer: a TLA+ model

ArcDPS-Timer is an addon for arcdps that shows a speedrun timer in Guild Wars 2,
with segments, a history, automatic start and stop, and a server that relays timer
events between the players of a group. This directory holds TLA+ modules of its
core, the TLC configurations that check them and proofs that TLAPS checks.

`tlc -config X.cfg M.tla` runs a configuration, `tlapm M.tla` checks the proofs of a
module. `PROJECT.json` lists the runs, the theorems, which lines of the code each
definition stands for, and for every property a mutated definition that breaks it.

## Inventory of the system

| component | state | operations | hard about it |
|---|---|---|---|
| Event store (`eventstore.*`) | the log `entries`, `history`, `segments`, `state`, `log_mutex` | `dispatch_event`, `add_event`, `reevaluate_state`, `get_*`, `save_map_log`, `sync` | events from four kinds of threads; `state` is read and written without the lock; late time stamps; entries are erased for good; uuids are reused |
| Timer window (`timer.*`) and wiring (`mod.cpp`) | last position | buttons, key binds, movement, skill casts, deferred prepare, signal handlers | decides on a copy of `state` that may be stale |
| Sync server (`ArcDPS-Timer-Server`) | sessions with write queues, group objects, the registry | accept, `join`, `state`, `version`, parse error, read and write completion | asynchronous reads and writes fail separately; groups are entered and left in overlapping order |
| Server client (`api.*`) | socket, `server_status`, group id | `start_sync`, `post_serverapi`, `mod_imgui`, `sync` | a thread per event writes to one socket; the receive loop is never run |
| Boss kill recognition (`bosskill_recognition.*`) | agents of the encounter, its species and start | hits, log start, log end, conditions | agents that are reset or kept when they should not be |
| Trigger regions and editor (`trigger_region.*`) | regions, files per map, sets, selected line | `watch`, `map_change`, place, delete, move, load, save | files written for the map that was left; shared regions; a stale index |
| Map tracker (`maptracker.*`) | map id, map code | `watch`, `get_map_name`, `get_instance_id` | handlers run before the code is updated; one blocks on HTTP and watches again |
| Group tracker (`grouptracker.*`) | own name, players, code | notices of arcdps | every client of a party must compute the same code by itself |
| NTP client (`ntp.*`) | samples, the variables of a request | `get_time_delta` | an attempt that timed out goes on; exceptions end up in a future nobody reads |
| Settings (`settings.*`) | 31 settings, the file, open popups | load, save, controls, decisions for the place | two long lists of names; a crash while the file is written; the place is read from two sources |
| Translations, arcdps binding, JSON adapters | - | strings, host functions, conversions | - |

How they interact. arcdps calls `mod_imgui` on the render thread, `mod_combat` on its
combat thread and `mod_wnd` on the window's thread; `defer` makes detached threads.
A frame runs the map tracker, whose signal calls the timer, the trigger watcher, the
editor and the event store; then the trigger watcher, whose signal dispatches segment
events; then the timer and the client. A combat event goes to the group tracker, the
boss kill recognition, whose signal dispatches stop events, and the timer. Every
event ends in `EventStore::add_event`, which evaluates the whole log under
`log_mutex` and hands the event to the client; the server relays it.

What makes each part correct: the store shows what its log says, whatever the threads
and the order of time stamps; the server keeps the members of a group together,
relays to all of them in one order and forgets who is gone; the regions in use are
those of the map, no two of them have one uuid, and one is signalled once; a boss is
signalled for the fight that ended and nothing it did not lose is counted; a map
change comes before the prepare it causes, and the log names the map; a client ends
in the group its place names, the members of a party name the same one, and a state
gets no further than the groups of its sender; the clock correction is one that was
measured; settings are found again as they were left.

## The modules

| module | what it is |
|---|---|
| `EventLog` | the data of the store and the FSM of `reevaluate_state` as pure operators: one operator per branch, `Relevant` for `is_relevant`, `Iteration` for one pass of the loop |
| `TimerLog` | the abstract store: an event is sorted in, the log is evaluated and irrelevant entries are dropped, in one step |
| `EventStore` | the store with its threads: extends `EventLog`, implements `TimerLog` |
| `StoreThreads` | `EventStore` where only some of its threads come into being |
| `EventLogProofs` | lemmas about the operators of `EventLog`: sorting, iterations, the evaluation of a log with one more entry |
| `TimerLogProofs` | theorems about `TimerLog` |
| `EventStoreProofs` | theorems about `EventStore`, among them that it implements `TimerLog` |
| `GroupRelay` | the abstract server: who is in which group, a mailbox each |
| `GroupServer` | the server: sessions, queues, group objects, registry; implements `GroupRelay` |
| `RegionLists` | the abstract trigger regions: a list for every map |
| `TriggerRegions` | watcher, editor, files and sets; implements `RegionLists` |
| `TriggerRegionsProofs` | theorems about `TriggerRegions` |
| `BossKill` | combat events, agents, logs and the conditions of bosses |
| `BossKillProofs` | theorems about `BossKill` |
| `GroupSync` | the clients of the server, composed with it: extends `GroupServer`, whose client actions it replaces by the code of the addon, and implements it |
| `GroupTracker` | the group codes of the clients of some parties |
| `GroupProofs` | theorems about `GroupServer`, about `GroupSync`, which rest on those, and about `GroupTracker` |
| `MapChange` | map tracker, its handlers, the timer's part of a frame, the prepares and the start on movement, composed with the log and FSM of `EventLog` |
| `NtpClient` | a call of the clock synchronization with its tasks and the network |
| `NtpClientProofs` | theorems about `NtpClient` |
| `Settings` | the settings file, the options and what they decide |
| `MapProofs` | theorems about `MapChange` and about `Settings`, which decides what a map change prepares |
| `MC...` | instances for TLC |

Operators marked `Mutant` are not part of a model; each is a plausible slip in the
definition after it, and shows that some property would notice.

### EventStore and the code

A thread has a role: `imgui` (render thread), `window` (key binds), `combat`, or
`deferred` (the prepare after a map change). Its program counter `pc` walks through

- `get_timer_state`: `Refresh` reads the status, `Clock` reads the time and `SetTime`
  stores it in `current_time` a step later, `Copy` copies one member at a time. None
  of it takes the lock, so each is a step of its own, and `Store` (the end of
  `reevaluate_state`) writes one member at a time;
- the callers: `Send` (what is sent without looking), `Move` (`Timer::mod_imgui`),
  `Activate` (`Timer::mod_combat`), `ChangeMap` (the lambda in `mod_init`), `Rest`
  (nothing to send), `Release` (`mod_release`);
- `dispatch_event`: `Decide` for skill casts, `Save` for map changes;
- `add_event`: `Lock` takes the lock, appends and sorts; `Iterate` is one pass of the
  loop; `Erase`, `Store`, `Post` follow; `Post` releases the lock.

Under the lock nobody else reads `entries`, `history` or `segments` in the model
but `save_map_log`, whose unlocked copy may miss anything while the lock is held
(`Copies`). `SaveMapLog` hands the copy to a thread of its own (`saving`), and `WriteLog` is
that thread writing the file (`saved`), as late as it likes or never; `Release` writes
at once. `unsaved` is history: what was added since a copy was made of a log that no
thread was at work on. The exception of a directory that cannot be made
(`eventstore.cpp:82`) would end the game, and is not modelled.

Abstractions: names are values of a small set; times are small numbers and the clock
moves whenever an event is made, so two events have the same time stamp only if one
carries an older tick; `std::sort` may return any sorted permutation; uuids are
numbers whose order breaks ties both ways; skill casts happen up to `Lag` before they
are reported; `save_logs` is on; durations are in the unit of the clock, without the
cast to milliseconds. `EventStore::sync` is not an action: nothing runs the
`io_context` of the client, so it is never called.

### GroupServer and the code

One thread runs the `io_context`, so each completion handler is one action:
`Accept` (with `Session::start`), the four outcomes of the read handler
(`ReceiveJoin`, `ReceiveState`, `ReceiveVersion`, `ReceiveGarbled`), `ReadError`, `Written`
and `WriteError`. Clients send lines the addon can send: a join with a group, a
state, a version request, and lines that do not parse, since the addon writes to
one socket from several threads. `Break` fails a connection and loses any part of
the lines not yet received. A group's `name` is never assigned, so it is the
constant `Untitled`, a name no client uses: the addon sends "default" instead of
an empty id (`api.cpp:100-102`).

`is_valid` builds a validator and never applies it, so every line that parses is
valid; a session whose line does not parse is the only kind that is refused.

### TriggerRegions and the code

Everything runs on the render thread, and the game writes the map id into shared
memory whenever it likes (`Travel`). So each read of the id is a step of its own, and
`stage` says where the thread is between two of them. A map change is `WatchMap` (the
ids differ), `TrackMap` (the id is read again and stored, the signal is called), then
`TriggerWatcher::map_change` with `LeaveMap` and `KeepRegions` (the file of the map that is
left is truncated, then written) and `EnterMap` (the id is read to look for a file and
to remember the map), then `TriggerEditor::map_change` with `FindSets` and `ReadSets`. The
tracked map, the one whose regions are in use and the one whose sets were read can be
three. The files of sets have the two steps `SaveSet` or `DeleteSet` and `WriteSets`, the
destructor has `OpenToClose` and `WriteToClose`.

`GameEnds` may happen at any step, and leaves a file `Torn` that was truncated and not
written. Parsing such a file throws: `ParseError` ends the game.

`std::shared_ptr` is what makes this component hard. `object` is the heap: `regions`
and `trigger_sets` hold addresses, saving and loading a set copies addresses, and
reading a file makes objects at addresses that nothing points to. `Collect` frees what
nothing points to. `files` and `set_files` are the directories on disk; there is a
file for the id 0 (`Nowhere`), because the first map change writes one.
`selected_line` counts from 0 as in the code, and a button that indexes past the end
sets `broken`, after which only a restart follows.

The geometry of regions is left out: the player may be in any of them. What is
written to a file leaves `is_triggered` out, as the code's `to_json` does.

### BossKill and the code

`Combat` is an event of arcdps with a source or a target that is an NPC, `LogStart`
and `LogEnd` are the state changes of arcdps, `Tick` moves the clock. The inverted
tests for a known agent (`bosskill_recognition.cpp:17` and `:34`) are modelled as they
are: the first hit makes an agent without a species, every later event makes it anew.
The descriptions of bosses are sets of conditions; a condition is a record with its
kind and parameters, evaluated by `Holds` at the end of a log. The instance has a
boss for each kind. The time that a description computes is left out: the handler of
the signal ignores it and stamps the stop with the clock (`mod.cpp:93`), and
`EventStore` offers that stop on the combat thread. `met` is history for the
properties.

### GroupSync and the code

`Connect`, `WriteVersion`, `ReadVersion` and `CannotSync` are `start_sync`, which blocks
the thread that loads the addon (`stage`). `UpdateGroup` is the part of a frame that
finds a new group: it takes the id before the join is written. A write is under way
(in `pending`) from the moment its thread has it until it returns: `WriteReturns`;
two at a time may mix their bytes (`Mixed`), and one fails after the connection did
(`JoinFails`, `StateFails`, the latter in a thread without a catch). What arrives is a
line of `GroupServer`, whose `Init` and `Next` are the property `ImplementsServer`:
all that is proved of the server holds for these clients.

`told` and `carried` are history. `aim` of a state says to which groups it may go:
the one the server was last told, the one the client has taken and any it takes
before the state is written. `Place` stands for what `get_id` reads: the custom id of
the settings, the type of the map, the code of the map tracker and that of the group
tracker, which `MapChange` and `GroupTracker` are about. No action runs the handler
of `sync`.

### GroupTracker and the code

`Load` and `ChangeParty` are what arcdps sees: it tells a client of all players around when
it loads a map, and of one that comes or goes, in any order within one of these but
in sequence. `mod_combat` handles the first notice with `Added` or `Removed`. The names
of a `std::set` have one order, so the concatenation is a function of the set; the
CRC is assumed to be one to one (`OneToOneAssumption`).

### MapChange and the code

`watch` is called in every frame, by `get_instance_id` and by `get_map_name`, which the
last of its own handlers calls. `Watch` compares the map id, `TrackMap` reads it a second
time and stores it. `calls` is the stack of the calls under way: each goes from `track`
(`TrackMap`) to `signal` (`TimerMapChange`), `name` (`GetMapName`, which may begin another),
`request` (`DispatchMapChange`, not before the request has returned or timed out) and
`code` (`UpdateCode`). C++ leaves open whether the time of an event or its name is
evaluated first, so both are possible. The handlers of the trigger regions are in
`TriggerRegions`, `save_map_log` in `EventStore`; here an event is sorted into the log
and the log evaluated in one step, as in `TimerLog`, with the operators of `EventLog`.
`Stamp` counts the readings of the clock for an event, up to the bound `TimeMax`; no two
are equal, and the uuid of an event is its time. The clock counts units of the half
second that a deferred thread waits; a frame that waits for nothing takes no time.

After the watch a frame is `Look` (the copy of the status, `timer.cpp:28`),
`CompareAxis` for one coordinate after the other and `StartOnMovement`, which
dispatches. Whatever prepares the timer is a record in `deferred`: the thread of an
automatic prepare, or the button (`PrepareButton`), which keeps its frame. It reads
and stores one coordinate after the other (`ReadAxis`, `StoreAxis`) and then
dispatches (`DispatchPrepare`), with frames and other copies in between; a coordinate
itself is read whole. `PrepareKey` stores no position. History is `arrival` (with
`moved`, a change of the server that `watch` did not see), `moved` of a prepare (the
avatar moved while it copied), `still` (all of the position was stored where the
avatar is) and `frame.still` (that held at the look, and nobody moved since).

### NtpClient and the code

The tasks of `std::async` are numbered by attempt, share `t` (the variables `t0` to `t3`
they capture by reference) and go on after a timeout, until the destructor of the
future has waited for them (`Retry`). A packet takes any time, in each direction, or is
`lost`, in which case the task receives for ever. A task may throw at any point
(`TaskThrows`), which makes its future ready, with any `Junk` in variables not yet
set. `ChooseNone` reads the first of no samples. Offset and bias are twice
their value, so that they are integers.

### Settings and the code

`settings` is a function of the names that the code reads; `WrittenAs` is the name it
writes, which differs for one. `OpenFile` and `WriteFile` are the two steps of
`mod_release`, between which a `Crash` leaves a torn file. A control exists only while
it is `Shown`. `PopupFrame` is a frame with a color popup open: it stores what the
picker shows, which is the color of the start button. The decisions (`is_enabled`,
`should_autoprepare`, `should_autostop`, `get_early_gg_threshold`) are operators of a
`Place`: type and id of the map in the shared memory, and the id the map tracker has.
The ids of maps are those of the enumeration. A file is its version and what is stored
by name; `NoFile` has the version 0, a `Torn` one -1.

## What is checked

| run | instance | properties |
|---|---|---|
| `log` | 3 events of any kind in any order, times 1-3, ties, 3 uuids and a region's; or 5 events in the order of time | the log is what is on display (`ReevaluationStable`), the history is the runs found without an FSM (`HistoryIsTheRuns`), dropping entries loses nothing (`PruningIsExact`), segments are consecutive, the first begins with the run and the last ends at its last split or stop (`SegmentsChain`) |
| `store` | render thread alone with clears, regions, map changes and unloading, clock to 4; render and window thread, render and combat thread, and window, deferred and combat thread, clock to 3 | `ImplementsTimerLog`, `LogCanonical`, `RunsOrdered`, `EntriesArePosted`, `SlotInBounds`; the files of the map the player is on, and the copies yet to be written, miss only what was added since a copy was made of a log at rest (`LogsMissOnlyNews`); no automatic start without a prepare before it (`AutoStartsWerePrepared`); `EventsArrive` under fairness; no deadlock |
| `regions` | 2 maps, 2 uuids, 1 set, 4 addresses, 11 steps that begin something | `ImplementsRegionLists`, `UuidsDistinct`, `SignalledOnce`, `OnlyReplacementBreaks` |
| `boss` | 2 NPCs, clock 3-6, 3 combat events, damage 1 or 2 | `DamageNotOvercounted`, `TwoHitsMakeKnown`, `SignalledBossWasMet`; no deadlock |
| `server` | 2 sessions, 2 groups, 3 lines in all | `ImplementsRelay`, `ReceiversRead`, `OneObjectPerName`, `StatesInOneOrder`; `BrokenLeaves` under fairness; the queue of a session whose own writes complete drains, whatever becomes of the others (`QueueDrains`) |
| `sync` | 2 clients, 2 group objects, 5 lines, 1 event, 2 moves | `ImplementsServer`; a state gets to no group but those of its sender (`StatesReachAims`); client and server agree on the group (`GroupsAgree`) |
| `map_change` | 2 maps, 2 servers, 2 positions on 2 axes, a request of up to 1 delay, clock to 1, a change besides the first one, 1 walk and 1 prepare by hand | `PrepareComesLast`, `LogNamesTheMap`, `InstanceIdIsTheServers`; no start of a timer whose position was stored where the avatar stands (`StartsAreMoves`); `TrackerCatchesUp` under fairness |
| `group_tracker` | 3 players, 2 parties, 4 loads and moves | `CodesMatchParties` |
| `ntp` | 2 requests of 2 attempts, offsets -1 to 1, clock to 5 | `OffsetIsWithinBias`; `CallEnds` under fairness |
| `settings` | 3 starts, 2 changes, 4 states of the file, 6 maps | `SettingsSurvive`, `HandlersFollowKeys`, `TabsAreSeparate` |

The type invariants of all modules are proved; no run spends its time on them.

Two runs show where the code departs from what it says of itself, with a behaviour
that takes TLC to find:

- `boss_damage`: damage does not add up, so the thresholds on the damage of a boss are
  not reached by a fight of many hits (`bosskill_recognition.cpp:118`).
- `sync_shared`: an event that reaches a client never gets into its store, since nothing
  runs the `io_context` of the receive loop ("Group sync for timer", `Readme.md:7`).

More departures are in the models as they are in the code. Some are the exceptions that
a property names, the others can be read off one definition:

- After one run the best duration of a segment is not the duration it took. The minimum
  starts at zero, and a split computes it from the time of an earlier stop ("Best Time
  (Duration)", `lang.h:28`; `Filled` in `EventLog`).
- A trigger region that was crossed in an earlier run does not split a later one. Its
  events all carry the uuid of the region, and the log ignores a uuid it has seen
  ("Automatic segments", `Readme.md:11`; `Relevant`).
- A log that is too short to count leaves its agents for the next log, which then
  signals a boss of the log that was to be ignored (`lang.h:52`; `LogEnd`).
- A client that connects while a player in no group has an event takes the event for the
  answer to its version request, and tells its user that the addon is out of date
  (`lang.h:22`; `ReadVersion`). The group "default" relays like any other.
- On a change of the server between two instances of one map the group stays that of the
  server before ("via server IP", `Readme.md:7`; excepted by `InstanceIdIsTheServers`).
- A timer prepared with the key may start at once without a move, as the key does not
  store the position, and so may one that a deferred thread prepares between the look
  of a frame and its comparison: the position is stored and the prepare posted, and the
  start that the look before allowed follows on the spot ("start on
  movement/skillcast", `lang.h:50`; `StartsAreMoves` is about frames that looked later).
- A map_change whose name takes longer than half a second undoes the prepare it caused,
  and a change during the handlers of another is logged before it (the exceptions of
  `PrepareComesLast` and `LogNamesTheMap`).
- An offset that is too large passes if it is negative (`ntp.cpp:35`; `Choose`). A lost
  packet hangs a synchronization, and an exception in a task makes a sample of junk (the
  exceptions of `CallEnds` and `OffsetIsWithinBias`).
- The time formatter is lost at every restart, written under one name and read under
  another (`lang.h:39`; excepted by `SettingsSurvive`).
- A frame with the popup of a color open sets that color to the one of the start button
  (`lang.h:57`; `PopupFrame`).
- The tab of fractals is without effect on Nightmare, which `get_instance_type` forgets
  (`maptracker.h:11`, `lang.h:72`); auto prepare prepares a timer that is disabled
  (`lang.h:80`; `should_autoprepare`).
- A game that ends between the two steps of saving the settings leaves a file on which
  the addon does not start (`Crash` between `OpenFile` and `WriteFile`). One that ends
  between the two steps of a file of regions loses them and ends again at every visit
  of their map, as parsing throws (`trigger_region.cpp:132`, `:357`; `Torn` and
  `ParseError`).
- The regions in use may belong to another map than the tracked one, if the player
  travels while the handlers of a change run: `last_map_id` follows the shared memory, not
  the argument of the signal (`EnterMap`).
- An automatic start can be kept in the log without a prepare before it, as the status
  is read before the lock (`AutoStartsWerePrepared` says that there was one, and a reset
  may have followed it). The clock of a timer that is stopped, reset or started anew
  can stand at the time a look has read before or after that, so that a stopped timer
  shows less or more than its run (`SetTime` after `Store`).
- The file of a map's log can miss its last events: those that other threads add between
  the copies and the map_change, and whatever a copy made during an evaluation misses.
  The thread that writes it may not come to it before the game ends (`SaveMapLog`,
  `WriteLog`).
- Two lines that mix end a session for good.

Bounds. Three events in any order reach every pair of transitions with an entry sorted
before, between and behind them; five in order reach two runs with splits, the
shortest sequences in which an unset slot, a cleared vector or a stale mark matters.
In `EventStore` an event costs one tick of the clock: a clock to 3 gives two events
and an older tick, enough for two threads to be between look and lock with an entry in
the log; the render thread alone has three. In `GroupServer` three lines are enough
for every pair of messages and a failure between them, for a join that follows a
failed write and for two states in one queue; with the echo of its own states each of
two sessions sees the order of both senders. In `TriggerRegions` two uuids allow two
regions, enough to swap, delete and share them; a set that is saved, loaded after its
map was left and read again takes eight steps that begin something, besides the
handlers, which are taken to their end; eleven leave room for a travel into the middle
of them and a game that ends there; four addresses hold two lists that share nothing.
In `BossKill` three events are the first hit, the event that names the agent and one
that makes it anew; the clock has room for a log that is long enough after one that is
not. In `GroupSync` five lines are two versions, two joins and a state, or the two
lines that a client mixes; two moves are a travel there and back. Three players are
the least with a party that loses one and stays one; four loads and moves are a party
formed by loading and broken again. In `MapChange` a request of one delay is one that
ends before or after the prepare is due, and two changes are one inside of the other;
two axes are the least of which a copy can have stored one, and a walk and a prepare
by hand the least that disturb it; a second server is one that is reached with or
without a change of the map. In `NtpClient` two attempts are one abandoned and one
that may use what it left; two samples are a choice; two requests and a doubled
timeout fit the clock. In `Settings` two changes in three starts are one that is saved
and one that a crash may lose; the maps are one of each kind, the lobby and Nightmare.

Symmetry. The clients and group objects of `sync`, the maps, uuids and addresses of
`regions` and the players and parties of `group_tracker` are interchangeable; those runs
check no liveness.

Fairness. `EventStore`: a thread inside the store is scheduled (`WF` of `Run`); the
lock is free infinitely often, and a `std::shared_mutex` that starves a waiter for
ever is not considered: three threads with finitely many events cannot keep each other
out for ever. Nothing is assumed of players: `Send`, `Move`, `Activate` and map
changes may never happen. `GroupServer`: `io_context::run` calls the handler of every
line that arrived, and nothing else. A write completes when the client reads, which
the addon never does (`api.cpp:134`), and the server has no timeout for it; so
`QueueDrains` assumes of a session, as a condition within the property, that its own
writes complete, and nothing of the others. `GroupSync` adds that the addon loads,
frames are drawn and writes return. `MapChange`: the render thread goes on, weakly, in
`Watch` and what it calls, in the timer's part of a frame and in the copy of the
button, for which the frame waits; nothing is assumed of the player, of the deferred
threads or of the threads that write logs. `NtpClient`: its two threads run and a
packet arrives or is lost; nothing makes a task throw.

`CHECK_DEADLOCK FALSE`: the run of `MCTimerLog` ends when the events are used up, the
server is idle when all lines are handled, a run of `MCTriggerRegions` ends after its
steps (or with a vector that was indexed out of its bounds), and players, clients and
the map tracker are idle when moves, lines and travels are used up; a synchronization
ends; so do the starts of `Settings`, at the latest with a torn file.

## What is proved

Every theorem is for all values of the constants under the `ASSUME`s of the modules
(uuids are numbers, names and absent values are distinct, the clock is bounded by
`MaxNow` below `time_point::max()`, "default" is a group and the empty name is not, there
are finitely many names of groups and at least as many objects;
in `MapChange` a time stamp below `max()` also serves as the uuid of its event;
in `BossKill` an instance is of one NPC, ids of bosses are of NPCs, and the clock starts
later than a log can be short; in `TriggerRegions` no map has the id 0; in
`GroupSync` custom ids and places name groups of the server; in `GroupTracker` there
are finitely many players and no two groups of them have one code;
in `Settings` the defaults can be entered and a file that is found is well typed).

`EventLogProofs`. The evaluation is a fold, that is a recursive function on the sets of
positions of a log, and so has no unfolding of its own: `FoldUnfolds` takes one from the
`CHOOSE` behind it, `EvalAppend` says what one more entry does, and `SeqInduction` and
`FixedInduction` make inductions of that, with a set of logs as the hypothesis where the
library would take an operator (the least element that is not in the set, by
`NatLessThanWellFounded`). `EvalTwice` is the fact that everything else keeps needing:
to evaluate what an evaluation left yields the same and drops nothing. `StrictEqual`
is that a log has one sorted form.

`TimerLogProofs`. `ReevaluationIsStable`, `PruningLosesNothing`, `SegmentsAreChained`,
`HistoryHasTheRuns` and `TypeCorrect`, for any events. The invariant `Canonical` says
that log and outcome are those of an evaluation; each theorem is then one about
`Eval`. `PruningLosesNothing` needs that an event that arrives in order is the last of
the sorted form of all received events (`AddExact`). For the segments, `Chained` is
carried through the iterations: the slots before the index are set and consecutive and
end where the mark is, those behind it are unset. `Ends` is that mark read off the log
without an FSM: the last entry that splits or ends a run is where the last segment
ends (`EndedAt`). For the history, `Recorded` says that the history is the list that
`HistoryIsTheRuns` reads off the log without an FSM, and that the timer runs exactly
if there is a start that nothing but splits and clears follows (`OneIsOpen`: one start
at most).

`EventStoreProofs`. `LogIsCanonical`, `RunsAreOrdered`, `SlotsAreInBounds` and
`TypeCorrect` follow from the invariant `IInv`. None of them is inductive: inside
the loop the log is neither pruned nor judged. `LoopInvariant` says what holds
there: the entries kept so far are sorted, have distinct uuids, are those in
`processed_uuids` and lie before what is to come, and if the timer runs then its
two marks (`start`, `segment`) do not lie after any entry to come. From that, a
segment filled at the next entry begins before it ends. `LockHeld` gives the thread
in the loop the log for itself. `EntriesAreHandedOver` needs `PostInv`: what is kept
is in the log, and a generated uuid carried by one thread is nobody else's.

`StoreIsALog` is the refinement of `TimerLog`. Adding an event takes effect at `Erase`,
for which `RefinementInv` adds to `PostInv`: in the loop, what it has come to is the
evaluation of the entries it has been through, and the vector is a sorted form of
the log with the event (`Folding`); outside of it, to evaluate the log would change
nothing (`Settled`); the members of the state stored so far are those of the outcome
(`Storing`), although other threads write `current_time` meanwhile; and an event that is
carried is one that callers can make at that time (`Issued`).

Through that refinement the store has what is proved of `TimerLog`:
`StoredLogIsStable`, `StoredPruningLosesNothing`, `StoredHistoryHasTheRuns` and
`StoredSegmentsAreChained` say of the log, the history and the segments behind the lock
what `TimerLog` promises of its own. `Lifted` is `TimerLogProofs` under the
refinement mapping, and its lemmas are cited at the mapped variables, for the initial
state and for each step.

`LogsMissNewsOnly` follows from `FilesInv`: of the entries that come after every
map_change of the log, in the order of the log also while it is not sorted, each is in
a file or in a copy to be written, was added since the last copy of a log at rest, or
is being added (`Covered`). An entry that is sorted in before older ones makes none of
them the log of the map again, since only a map_change bounds it, and the loop erases
no map_change (`ChangesKept`): a uuid that is repeated is that of a region
(`ChangesDiffer`).

`AutoStartsArePrepared` is about the state that threads read and write without the lock.
`Preparing` says that whatever shows a prepared timer, or a run that was prepared - the
state, each copy of it however its members were mixed, the loop - does so because a
prepare was posted or is being stored.

`AddsComeToAnEnd` is what `EventsArrive` needs besides fairness: a step of the thread that
holds the lock brings it closer to the release, by a number that the length of the log
bounds (`Remaining`), no other thread or tick changes that number, and the event stays
with its thread until it is posted.

`GroupProofs`, the server. `ReceiversAreReading`, `GroupsAreOneObject`, `QueuesMove` and
`TypeCorrect` follow from an invariant that adds two facts: a session without a
group reads and queues nothing (`Attached`), and the registry leads by the name a
session gave to the object it points to, also after it has left (`Acquainted`).
`ServerIsARelay` proves the refinement: `MembersAreReceivers` shows that the
members of the named group are the receivers of the object, and each handler is one
step of the relay. It rests on the registry never losing an entry, which is true
because `Group::leave` erases by a name that is never set: a repair of that line
has to erase only the entry of the empty group to keep the theorem. `StatesAreInOneOrder`
needs a witness that no state of the server holds, the order itself: `Ranked` says that
there is a rank of the lines in which the mail of every session ascends. A line that is
relayed gets the next rank. `GoneForGood` says that a session that stopped reading after
its connection failed is in no group from then on, and `BrokenReadToTheEnd` that a session
whose connection failed gets there: it takes no more lines and each handler uses up one,
joins included, for which the registry always finds a group or has room for one
(`GroupsAreFound`, by counting the objects in use: this is where names must be finite).

`GroupProofs`, the clients. `ServerIsImplemented`, `GroupsAgreeWithServer`,
`StatesReachTheirAims` and `SyncTypeCorrect`, on top of the server's `IInv`: every
step of the addon is one that the server's proof allows a client (`StepOfServer`,
which needs that nobody writes before the connection is there, `Stages`), so what is
proved of the server holds of the two together. The invariant follows the lines of a
client that its session has not handled: each join moves the session on, up to the
group that the client told last (`Ends`), and each state among them will find it in a
group the state is meant for (`Aimed`). What lies behind a line that mixed is never
handled, and a broken connection only takes lines from the end. `Telling` ties that to
the addon: `id` is what was told, or the one join that tells it is being written,
which is so because the render thread waits for its write. `AddonIsServed` draws the
conclusion: with the addon's threads as clients the server still implements the relay,
and its invariants hold.

`BossKillProofs`. `DamageIsNotOvercounted`, `AgentsBecomeKnown`, `SignalledBossesWereMet`
and `TypeCorrect`. The argument follows one event through both of its roles:
`RenewedFacts` and `FoundFacts` say that an agent leaves a role with no more than the
damage it entered with and that of the event, `CombatFacts` puts source and target
together, also when they are the same agent. `Familiar` is the strengthening: an agent
that is there was met, and one that was met twice has its species: what a repair of
the inverted tests has to keep.

`TriggerRegionsProofs`. `UuidsAreDistinct`, `RegionsAreSignalledOnce`,
`ReplacementBreaks`, `TypeCorrect` and the refinement `RegionsAreLists`. The invariant
has a part for each: an object is there exactly while something points to it
(`HeapOK`), so that what is read from a file is nobody else's; no list, in memory
(`UuidsOK`) or on disk (`DiskOK`), holds a uuid twice; a region whose uuid was
signalled is marked (`SignalsOK`); without a replacement the selected line exists
(`SelectionOK`); a file is torn only as long as it is being written, unless the game
ended (`KeptOK`), which says that what is in use can be kept. `IdsOK` asks nothing of
the tracker's and the watcher's ids but that each is a map once there was a change:
they may differ. For the refinement, `NextListFacts` shows that whatever a button does
leaves a list with distinct uuids, and `VisitsList` that a list is read back as it was
written.

`GroupProofs`, the codes. `CodesAreThoseOfParties`, `OneselfStays` and
`TrackerTypeCorrect`. What a
client knows lags behind what arcdps tells it; `Informed` is about both: of every
player, the last notice that is not yet handled tells the truth, or there is none and
the client knows the truth already. `OneselfStays` is not checked by a run: a client
that was once added to its own group stays in it, so a lone player never goes by the
code of nobody, which all would share.

`NtpClientProofs`. `OffsetsAreWithinBias` and `TypeCorrect`. `OneAtATime` says that the
attempts of a request follow one another, which is due to the destructor of a future
and is what a change to another way of waiting would lose; therefore the four times
are of one attempt, and in order up to the offset (`Measured`), from which the bound
on a sample is arithmetic. `CallsComeToAnEnd` is what `CallEnds` needs besides fairness:
every step that is no tick returns a request, gives up an attempt, or moves the call or
the task it waits for ahead (`Closer`), and a call that waits has a task to wait for, one
that chooses a sample to choose (`BestExists`).

`MapProofs`, map changes. `PreparesComeLast`, `LogsNameTheMap`, `InstanceIdsAreTheServers`,
`StartsFollowMoves` and `MapTypeCorrect` follow from the invariant `MapIInv`. `CallsInv`
is about the stack of calls, however deep: all but the innermost wait for a name, and no
two events under way have one time, nor one that is in the log. With that an event is
sorted in (`InsertedFacts`) without a tie, a map_change is kept wherever it goes
(`ChangeIsKept`, by induction over the log, since an older change must not make the
evaluation drop what is later), and an event of the present is the last (`NewestEvent`).
`NamesInv` and `PrepareInv` follow a change that no other came into from its signal to
its return: the map it asks for is the one that is tracked, no map_change in the log is
later than its time, and as long as its delay is not over there is a thread that will
prepare for it, so that a map_change that is not late finds one. What is not assumed is
that the thread ever runs: the theorem is about what has happened when none is left.
`PlaceInv` is about the copies of the position, one over the other: as long as no copy was
under way when the avatar moved, what each has stored and is about to store is where
the avatar is, and a frame that looked at a position stored so finds no difference.
`CodeInv` is the short one. `TrackerComesCloser` is what
`TrackerCatchesUp` needs besides fairness: a step of the tracker takes the map the player
is on, returns from a call or moves the innermost call to its next stage, and calls are
nested no deeper than the player has travelled (`NestedByTravels`).

`MapProofs`, the settings. `SettingsAreKept`, `HandlersHaveTheKeys`, `TabsDoNotMix` and
`TypeCorrect`. `SavedIsRead` is the lemma on the two lists of names; `KeptInv` carries
it over crashes: whatever is changed, reading a file that is not torn gives what was
last saved. For `TabsDoNotMix`, `TypeIsOfTab` compares the cases of the code with the
lists of maps.

Only model-checked: the five liveness properties, as the prover handles neither fairness
nor `ENABLED`. What is proved of each is all but the fairness: `AddsComeToAnEnd` for
`EventsArrive`, `QueuesMove` for `QueueDrains`, `GoneForGood` and `BrokenReadToTheEnd` for
`BrokenLeaves`, `TrackerComesCloser` for `TrackerCatchesUp`, `CallsComeToAnEnd` for
`CallEnds`. These say that nothing gets in the way and that the way is finite; that
somebody goes it is left to TLC. Every other property of a passing run is a theorem.

## Not modelled, and the plan

Every component with a state of its own has a module. Left, in this order:

1. A composition of `BossKill` and `TriggerRegions` with the event log: one kill is one
   stop, one crossing is one segment. The two meet the log in two lambdas of `mod.cpp`
   that only make an event.

Left out for good: drawing, translations, JSON adapters and the arcdps binding, which
keep no state of their own; the floating-point geometry of regions; the hashing of
names and addresses; reads of a container that another thread changes
(`additional_boss_ids`, the copies of history and segments), which have no outcome.
`EventStore::sync` and the handler of the receive loop have no action because nothing
in the program runs them.
