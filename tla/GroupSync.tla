------------------------------ MODULE GroupSync -----------------------------
(***************************************************************************)
(* The clients of the sync server (api.cpp) together with the server: each *)
(* client connects, asks for the version, joins the group it derives in    *)
(* every frame, and writes the state of each event in a thread of its own  *)
(* to the same socket.  What GroupServer lets its clients do, SendLine, is *)
(* here done by the code of the addon.                                     *)
(***************************************************************************)
EXTENDS GroupServer

CONSTANTS
  CustomId,    \* what users type as their custom id
  Suffixed,    \* custom_id + "_custom"
  Empty,       \* "", no group or no instance yet
  Place,       \* where players are: the settings, the map and the party
  MaxPosts,    \* bound on the events
  MaxMoves     \* bound on changes of places

ASSUME SuffixAssumption == Suffixed \in [CustomId -> GroupName]
ASSUME PlaceAssumption ==
  Place \subseteq [use_custom_id : BOOLEAN, custom_id : CustomId, instance : BOOLEAN,
                   instance_id : GroupName \cup {Empty},
                   group_id : GroupName \cup {Empty}]
ASSUME BoundsAssumption == MaxPosts \in Nat /\ MaxMoves \in Nat

Client == Session

VARIABLES
  place,      \* what get_id reads
  moves,
  stage,      \* where start_sync is: it blocks the thread that loads the addon
  status,     \* API::server_status
  id,         \* API::id
  pending,    \* the writes under way, each in a thread
  told,       \* the group of the last join whose write returned
  posts,      \* how many events were posted
  log,        \* the events in each client's event store
  carried,    \* which event each line of a state carries, and the groups its
              \* sender was in or entering
  crashed     \* a thread ended by an exception, and the game with it

clientVars == <<place, moves, stage, status, id, pending, told, posts, log, carried, crashed>>
syncVars == <<vars, clientVars>>

-----------------------------------------------------------------------------

ServerStatus == {"initializing", "online", "offline", "outofdate"}

(* A write of a state knows the event and the groups it may be meant for.  *)
StateWrite == [command : {"state"}, event : 1 .. MaxPosts, aim : SUBSET GroupName]
JoinWrite == [command : {"join"}, group : GroupName]

(* Mutant: the addon's own name for no group is not the server's.          *)
InitialIdElsewhere == CHOOSE name \in GroupName : name # Default

(* The id a client starts with, and no server was told.                    *)
InitialId == Default

SyncInit ==
  /\ Init
  /\ place \in [Client -> Place] /\ moves = 0
  /\ stage = [c \in Client |-> "connect"]
  /\ status = [c \in Client |-> "initializing"]
  /\ id = [c \in Client |-> InitialId]
  /\ pending = [c \in Client |-> {}]
  /\ told = [c \in Client |-> Default]
  /\ posts = 0
  /\ log = [c \in Client |-> {}]
  /\ carried = {}
  /\ crashed = [c \in Client |-> FALSE]

-----------------------------------------------------------------------------
(* Lines on their way.  A line that was written is a SendLine of the       *)
(* server's client.                                                        *)

LineOf(w, n) ==
  IF w.command = "join" THEN [command |-> "join", group |-> w.group]
  ELSE [command |-> "state", n |-> n]

Arrive(c, line) ==
  /\ sent < MaxLines
  /\ sent' = sent + 1
  /\ lines' = [lines EXCEPT ![c] = Append(@, line)]
  /\ UNCHANGED <<registry, group, named, queue, reading, writing, broken, inbox>>

Joining(c) == \E w \in pending[c] : w.command = "join"

(* Players travel, join parties and change their settings.                 *)
Move(c) ==
  /\ moves < MaxMoves /\ moves' = moves + 1
  /\ \E p \in Place \ {place[c]} : place' = [place EXCEPT ![c] = p]
  /\ UNCHANGED <<vars, stage, status, id, pending, told, posts, log, carried, crashed>>

-----------------------------------------------------------------------------
(* API::start_sync                                                         *)

Connect(c) ==
  /\ stage[c] = "connect"
  /\ Accept(c)
  /\ stage' = [stage EXCEPT ![c] = "version"]
  /\ UNCHANGED <<place, moves, status, id, pending, told, posts, log, carried, crashed>>

(* Mutant: the version is asked for without a connection.                  *)
WriteVersionUnconnected(c) ==
  /\ stage[c] \in {"connect", "version"} /\ ~ broken[c]
  /\ Arrive(c, [command |-> "version"])
  /\ stage' = [stage EXCEPT ![c] = "response"]
  /\ UNCHANGED <<place, moves, status, id, pending, told, posts, log, carried, crashed>>

WriteVersion(c) ==
  /\ stage[c] = "version" /\ ~ broken[c]
  /\ Arrive(c, [command |-> "version"])
  /\ stage' = [stage EXCEPT ![c] = "response"]
  /\ UNCHANGED <<place, moves, status, id, pending, told, posts, log, carried, crashed>>

(* The first line that arrives is taken for the response.                  *)
ReadVersion(c) ==
  /\ stage[c] = "response" /\ inbox[c] # <<>>
  /\ status' = [status EXCEPT ![c] = IF Head(inbox[c]).status = "version"
                                     THEN "online" ELSE "outofdate"]
  /\ stage' = [stage EXCEPT ![c] = "loaded"]
  /\ UNCHANGED <<vars, place, moves, id, pending, told, posts, log, carried, crashed>>

(* system_error: resolving, connecting, writing or reading failed.         *)
CannotSync(c) ==
  /\ stage[c] = "connect" \/ (stage[c] \in {"version", "response"} /\ broken[c])
  /\ status' = [status EXCEPT ![c] = "offline"]
  /\ stage' = [stage EXCEPT ![c] = "loaded"]
  /\ UNCHANGED <<vars, place, moves, id, pending, told, posts, log, carried, crashed>>

-----------------------------------------------------------------------------
(* API::mod_imgui and API::get_id                                          *)

GetId(p) ==
  IF p.use_custom_id THEN Suffixed[p.custom_id]
  ELSE IF p.instance THEN p.instance_id
  ELSE p.group_id

NewId(c) == IF GetId(place[c]) = Empty THEN Default ELSE GetId(place[c])

Online(c) == stage[c] = "loaded" /\ status[c] = "online" /\ ~ crashed[c]

(* What a state under way may be relayed to once its sender enters g.      *)
Aiming(writes, g) ==
  {IF w.command = "state" THEN [w EXCEPT !.aim = @ \cup {g}] ELSE w : w \in writes}

(* Mutant: the join is written by a thread of its own, as states are.      *)
UpdateGroupDetached(c) ==
  /\ Online(c)
  /\ id[c] # NewId(c)
  /\ id' = [id EXCEPT ![c] = NewId(c)]
  /\ told' = [told EXCEPT ![c] = NewId(c)]
  /\ pending' = [pending EXCEPT ![c] = Aiming(@, NewId(c)) \cup
                                       {[command |-> "join", group |-> NewId(c)]}]
  /\ UNCHANGED <<vars, place, moves, stage, status, posts, log, carried, crashed>>

(* The render thread takes the new id and writes the join, which blocks    *)
(* it.                                                                     *)
UpdateGroup(c) ==
  /\ Online(c) /\ ~ Joining(c)
  /\ id[c] # NewId(c)
  /\ id' = [id EXCEPT ![c] = NewId(c)]
  /\ pending' = [pending EXCEPT ![c] = Aiming(@, NewId(c)) \cup
                                       {[command |-> "join", group |-> NewId(c)]}]
  /\ UNCHANGED <<vars, place, moves, stage, status, told, posts, log, carried, crashed>>

-----------------------------------------------------------------------------
(* EventStore::add_event and API::post_serverapi                           *)

Post(c) ==
  /\ stage[c] = "loaded" /\ ~ crashed[c] /\ posts < MaxPosts
  /\ posts' = posts + 1
  /\ log' = [log EXCEPT ![c] = @ \cup {posts'}]
  /\ pending' =
       IF status[c] # "online" THEN pending
       ELSE [pending EXCEPT ![c] =
               @ \cup {[command |-> "state", event |-> posts', aim |-> {told[c], id[c]}]}]
  /\ UNCHANGED <<vars, place, moves, stage, status, id, told, carried, crashed>>

-----------------------------------------------------------------------------
(* boost::asio::write, in the threads of the states and the render thread  *)

ToldBy(c, writes) ==
  told' = [told EXCEPT ![c] = IF \E w \in writes : w.command = "join" THEN id[c] ELSE @]

WriteReturns(c, w) ==
  /\ ~ broken[c] /\ ~ crashed[c]
  /\ Arrive(c, LineOf(w, sent + 1))
  /\ carried' = carried \cup (IF w.command # "state" THEN {}
                              ELSE {[n |-> sent', event |-> w.event, aim |-> w.aim]})
  /\ pending' = [pending EXCEPT ![c] = @ \ {w}]
  /\ ToldBy(c, {w})
  /\ UNCHANGED <<place, moves, stage, status, id, posts, log, crashed>>

(* Two writes to one socket at a time: the bytes of the two lines mix.     *)
Mixed(c, v, w) ==
  /\ v # w /\ ~ broken[c] /\ ~ crashed[c]
  /\ Arrive(c, [command |-> "garbled"])
  /\ pending' = [pending EXCEPT ![c] = @ \ {v, w}]
  /\ ToldBy(c, {v, w})
  /\ UNCHANGED <<place, moves, stage, status, id, posts, log, carried, crashed>>

(* A write that fails throws: the frame catches it, a thread of a state    *)
(* does not.                                                               *)
JoinFails(c, w) ==
  /\ w.command = "join" /\ broken[c] /\ ~ crashed[c]
  /\ status' = [status EXCEPT ![c] = "offline"]
  /\ pending' = [pending EXCEPT ![c] = @ \ {w}]
  /\ UNCHANGED <<vars, place, moves, stage, id, told, posts, log, carried, crashed>>

StateFails(c, w) ==
  /\ w.command = "state" /\ broken[c] /\ ~ crashed[c]
  /\ crashed' = [crashed EXCEPT ![c] = TRUE]
  /\ pending' = [pending EXCEPT ![c] = {}]
  /\ UNCHANGED <<vars, place, moves, stage, status, id, told, posts, log, carried>>

-----------------------------------------------------------------------------

WriteEnds(c) ==
  \E w \in pending[c] :
    \/ WriteReturns(c, w) \/ JoinFails(c, w) \/ StateFails(c, w)
    \/ \E v \in pending[c] : Mixed(c, v, w)

StartSync(c) == Connect(c) \/ WriteVersion(c) \/ ReadVersion(c) \/ CannotSync(c)

(* What the server does, and connections that fail.                        *)
ServerStep(c) ==
  /\ Break(c) \/ Reading(c) \/ Written(c) \/ WriteError(c)
  /\ UNCHANGED clientVars

SyncNext ==
  \E c \in Client :
    Move(c) \/ StartSync(c) \/ UpdateGroup(c) \/ Post(c) \/ WriteEnds(c) \/ ServerStep(c)

(* Frames are drawn, threads run and writes return.                        *)
SyncFairness ==
  /\ Fairness
  /\ \A c \in Client :
       WF_syncVars(StartSync(c)) /\ WF_syncVars(UpdateGroup(c)) /\ WF_syncVars(WriteEnds(c))

SyncSpec == SyncInit /\ [][SyncNext]_syncVars /\ SyncFairness

-----------------------------------------------------------------------------

SyncTypeOK ==
  /\ TypeOK
  /\ place \in [Client -> Place] /\ moves \in 0 .. MaxMoves
  /\ stage \in [Client -> {"connect", "version", "response", "loaded"}]
  /\ status \in [Client -> ServerStatus]
  /\ id \in [Client -> GroupName] /\ told \in [Client -> GroupName]
  /\ pending \in [Client -> SUBSET (StateWrite \cup JoinWrite)]
  /\ posts \in 0 .. MaxPosts /\ log \in [Client -> SUBSET (1 .. MaxPosts)]
  /\ carried \subseteq [n : 1 .. MaxLines, event : 1 .. MaxPosts, aim : SUBSET GroupName]
  /\ crashed \in [Client -> BOOLEAN]

(* The clients do nothing to the server that GroupServer does not allow    *)
(* its clients, so what is checked and proved of the server holds.         *)
(* (api.cpp: every write to the socket)                                    *)
ImplementsServer == Init /\ [][Next]_vars

(* A state that is relayed goes to a group that its sender was in, or on   *)
(* its way to, when the event was posted, or entered before the state was  *)
(* written: threads overtake each other, but not by more.  (api.cpp: a     *)
(* thread per state beside the join of the frame; session.cpp: the group   *)
(* of the session at the time the line is handled)                         *)
StatesReachAims ==
  \A c \in Client : \A m \in {inbox[c][i] : i \in DOMAIN inbox[c]}
                           \cup {queue[c][i] : i \in DOMAIN queue[c]} :
    m.status = "state" => \E r \in carried : r.n = m.n /\ m.group \in r.aim

(* A client that takes itself to be connected, and is.                     *)
Well(c) == Online(c) /\ reading[c] /\ ~ broken[c]

(* When the lines of a client are handled and none is being written, the   *)
(* server has it in the group the client takes itself to be in, from the   *)
(* first connection on, where neither side names the group to the other.   *)
(* (api.cpp:15, session.cpp:14; mod_imgui writes only when the id changes) *)
GroupsAgree ==
  \A c \in Client :
    Well(c) /\ lines[c] = <<>> /\ pending[c] = {} => named[c] = id[c]

-----------------------------------------------------------------------------
(* "Group sync for timer" (Readme.md:7): an event that is relayed to a     *)
(* client gets into its event store, unless its connection fails.          *)
RelayedEventsAreShared ==
  \A c \in Client : \A e \in 1 .. MaxPosts :
    (\E i \in DOMAIN inbox[c] : inbox[c][i].status = "state" /\
       \E r \in carried : r.n = inbox[c][i].n /\ r.event = e)
      ~> (e \in log[c] \/ ~ Well(c))

=============================================================================
