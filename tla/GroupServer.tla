----------------------------- MODULE GroupServer ----------------------------
(***************************************************************************)
(* The sync server (ArcDPS-Timer-Server): the acceptor, a Session per      *)
(* client and the static registry of Groups.  One thread runs the          *)
(* io_context, so every completion handler is one step; what interleaves   *)
(* are the lines of the clients, the completions of the writes and the     *)
(* connections that fail.                                                  *)
(***************************************************************************)
EXTENDS Naturals, Sequences, FiniteSets

CONSTANTS
  Session,
  GroupName,    \* the names the addon joins
  Default,      \* "default"
  Untitled,     \* "", the name of every Group: nothing sets Group::name
  GroupId,      \* Group objects
  NoGroup,      \* an empty std::optional
  MaxLines      \* bound on the lines the clients send

(* The addon sends "default" where it has no group id (api.cpp:100-102).   *)
ASSUME NamesAssumption ==
  /\ Default \in GroupName /\ Untitled \notin GroupName
  /\ NoGroup \notin GroupName \cup GroupId
ASSUME LinesAssumption == MaxLines \in Nat
ASSUME GroupIdAssumption ==
  /\ IsFiniteSet(GroupName) /\ IsFiniteSet(GroupId)
  /\ Cardinality(GroupName) <= Cardinality(GroupId)

VARIABLES
  groups,       \* Group::groups, the registry: a function on names in use
  receivers,    \* Group::receivers of each object
  group,        \* Session::group
  named,        \* the name that group was got by
  queue,        \* Session::message_queue
  reading,      \* an async_read_until is outstanding
  writing,      \* an async_write is outstanding
  lines,        \* what a client sent and the session has not handled
  sent,         \* how many lines the clients sent
  broken,       \* the connection failed, or the client closed it
  inbox         \* what was written to a client

registry == <<groups, receivers>>
vars == <<registry, group, named, queue, reading, writing, lines, sent, broken, inbox>>

-----------------------------------------------------------------------------

Replies == [status : {"ok", "version", "error"}]

(* The data of the n-th line, relayed to the group its sender was in.      *)
State == [status : {"state"}, n : 1 .. MaxLines, group : GroupName]

Message == Replies \cup State

Line ==
  [command : {"join"}, group : GroupName] \cup [command : {"state"}, n : 1 .. MaxLines]
  \cup [command : {"version", "garbled"}]

Init ==
  /\ groups = <<>>
  /\ receivers = [g \in GroupId |-> {}]
  /\ group = [s \in Session |-> NoGroup] /\ named = [s \in Session |-> NoGroup]
  /\ queue = [s \in Session |-> <<>>]
  /\ reading = [s \in Session |-> FALSE] /\ writing = [s \in Session |-> FALSE]
  /\ lines = [s \in Session |-> <<>>] /\ sent = 0
  /\ broken = [s \in Session |-> FALSE]
  /\ inbox = [s \in Session |-> <<>>]

-----------------------------------------------------------------------------
(* The clients and the network.                                            *)

Connected(s) == named[s] # NoGroup

SendLine(s) ==
  /\ Connected(s) /\ ~ broken[s] /\ sent < MaxLines
  /\ sent' = sent + 1
  /\ \E line \in Line :
       /\ line.command = "state" => line.n = sent'
       /\ lines' = [lines EXCEPT ![s] = Append(@, line)]
  /\ UNCHANGED <<registry, group, named, queue, reading, writing, broken, inbox>>

(* What was not received yet may be lost with the connection.              *)
Break(s) ==
  /\ Connected(s) /\ ~ broken[s]
  /\ broken' = [broken EXCEPT ![s] = TRUE]
  /\ \E n \in 0 .. Len(lines[s]) : lines' = [lines EXCEPT ![s] = SubSeq(@, 1, n)]
  /\ UNCHANGED <<registry, group, named, queue, reading, writing, sent, inbox>>

-----------------------------------------------------------------------------
(* Group                                                                   *)

(* Mutant: every call makes a new object.                                  *)
GotNewGroup(name, g) == g \notin {groups[n] : n \in DOMAIN groups} \cup {group[s] : s \in Session}

(* Group::get_group: the registered object, or a new one, registered.      *)
GotGroup(name, g) ==
  IF name \in DOMAIN groups THEN g = groups[name]
  ELSE g \notin {groups[n] : n \in DOMAIN groups} \cup {group[s] : s \in Session}

Registered(name, g) ==
  [n \in DOMAIN groups \cup {name} |-> IF n = name THEN g ELSE groups[n]]

(* Group::leave: an object without receivers is erased from the registry,  *)
(* by its name.                                                            *)
Left(reg, members) ==
  IF members = {} THEN [n \in DOMAIN reg \ {Untitled} |-> reg[n]] ELSE reg

LeaveGroup(s) ==
  /\ receivers' = [receivers EXCEPT ![group[s]] = @ \ {s}]
  /\ groups' = Left(groups, receivers[group[s]] \ {s})

-----------------------------------------------------------------------------
(* Session                                                                 *)

(* send_data: a write is started when the queue was empty.                 *)
SendData(to, m) ==
  /\ queue' = [s \in Session |-> IF s \in to THEN Append(queue[s], m) ELSE queue[s]]
  /\ writing' = [s \in Session |-> writing[s] \/ (s \in to /\ queue[s] = <<>>)]

(* accept_connection, Session::start                                       *)
Accept(s) ==
  /\ ~ Connected(s)
  /\ \E g \in GroupId :
       /\ GotGroup(Default, g)
       /\ groups' = Registered(Default, g)
       /\ group' = [group EXCEPT ![s] = g]
       /\ receivers' = [receivers EXCEPT ![g] = @ \cup {s}]
  /\ named' = [named EXCEPT ![s] = Default]
  /\ reading' = [reading EXCEPT ![s] = TRUE]
  /\ UNCHANGED <<queue, writing, lines, sent, broken, inbox>>

(* The handler of receive_command, by the line it finds.                   *)
Receives(s, command) ==
  /\ reading[s] /\ lines[s] # <<>> /\ Head(lines[s]).command = command
  /\ lines' = [lines EXCEPT ![s] = Tail(@)]
  /\ UNCHANGED <<sent, broken, inbox>>

ReceiveJoin(s) ==
  /\ Receives(s, "join")
  /\ LET name == Head(lines[s]).group
         old == group[s]
     IN  /\ \E g \in GroupId :
              /\ GotGroup(name, g)
              /\ group' = [group EXCEPT ![s] = g]
              /\ \/ /\ g = old
                    /\ receivers' = [receivers EXCEPT ![g] = @ \cup {s}]
                    /\ groups' = Registered(name, g)
                 \/ /\ g # old
                    /\ receivers' = [receivers EXCEPT ![g] = @ \cup {s}, ![old] = @ \ {s}]
                    /\ groups' = Left(Registered(name, g), receivers[old] \ {s})
         /\ named' = [named EXCEPT ![s] = name]
  /\ SendData({s}, [status |-> "ok"])
  /\ UNCHANGED reading

(* Mutant: a state is not sent back to its sender.                         *)
ReceiveStateNoEcho(s) ==
  /\ Receives(s, "state")
  /\ SendData(receivers[group[s]] \ {s},
              [status |-> "state", n |-> Head(lines[s]).n, group |-> named[s]])
  /\ UNCHANGED <<registry, group, named, reading>>

(* Group::send_message: the comparison with "default" never holds.         *)
ReceiveState(s) ==
  /\ Receives(s, "state")
  /\ IF Untitled = Default THEN UNCHANGED <<queue, writing>>
     ELSE SendData(receivers[group[s]],
                   [status |-> "state", n |-> Head(lines[s]).n, group |-> named[s]])
  /\ UNCHANGED <<registry, group, named, reading>>

ReceiveVersion(s) ==
  /\ Receives(s, "version")
  /\ SendData({s}, [status |-> "version"])
  /\ UNCHANGED <<registry, group, named, reading>>

(* Mutant: a client whose line cannot be parsed stays in its group.        *)
ReceiveGarbledStays(s) ==
  /\ Receives(s, "garbled")
  /\ SendData({s}, [status |-> "error"])
  /\ reading' = [reading EXCEPT ![s] = FALSE]
  /\ UNCHANGED <<registry, group, named>>

ReceiveGarbled(s) ==
  /\ Receives(s, "garbled")
  /\ SendData({s}, [status |-> "error"])
  /\ LeaveGroup(s)
  /\ reading' = [reading EXCEPT ![s] = FALSE]
  /\ UNCHANGED <<group, named>>

(* Mutant: a client that closed its connection stays in its group.         *)
ReadErrorStays(s) ==
  /\ reading[s] /\ lines[s] = <<>> /\ broken[s]
  /\ reading' = [reading EXCEPT ![s] = FALSE]
  /\ UNCHANGED <<registry, group, named, queue, writing, lines, sent, broken, inbox>>

ReadError(s) ==
  /\ reading[s] /\ lines[s] = <<>> /\ broken[s]
  /\ LeaveGroup(s)
  /\ reading' = [reading EXCEPT ![s] = FALSE]
  /\ UNCHANGED <<group, named, queue, writing, lines, sent, broken, inbox>>

(* Mutant: what was written is not removed from the queue.                 *)
WrittenAgain(s) ==
  /\ writing[s] /\ ~ broken[s]
  /\ inbox' = [inbox EXCEPT ![s] = Append(@, Head(queue[s]))]
  /\ UNCHANGED <<registry, group, named, queue, reading, writing, lines, sent, broken>>

(* Mutant: the next message is not written.                                *)
WrittenOnce(s) ==
  /\ writing[s] /\ ~ broken[s]
  /\ inbox' = [inbox EXCEPT ![s] = Append(@, Head(queue[s]))]
  /\ queue' = [queue EXCEPT ![s] = Tail(@)]
  /\ writing' = [writing EXCEPT ![s] = FALSE]
  /\ UNCHANGED <<registry, group, named, reading, lines, sent, broken>>

(* The handler of async_write.                                             *)
Written(s) ==
  /\ writing[s] /\ ~ broken[s]
  /\ inbox' = [inbox EXCEPT ![s] = Append(@, Head(queue[s]))]
  /\ queue' = [queue EXCEPT ![s] = Tail(@)]
  /\ writing' = [writing EXCEPT ![s] = Tail(queue[s]) # <<>>]
  /\ UNCHANGED <<registry, group, named, reading, lines, sent, broken>>

WriteError(s) ==
  /\ writing[s] /\ broken[s]
  /\ LeaveGroup(s)
  /\ writing' = [writing EXCEPT ![s] = FALSE]
  /\ UNCHANGED <<group, named, queue, reading, lines, sent, broken, inbox>>

Handle(s) ==
  \/ Accept(s) \/ ReceiveJoin(s) \/ ReceiveState(s) \/ ReceiveVersion(s)
  \/ ReceiveGarbled(s) \/ ReadError(s) \/ Written(s) \/ WriteError(s)

Next == \E s \in Session : SendLine(s) \/ Break(s) \/ Handle(s)

(* io_context.run() runs every handler whose operation completed: lines    *)
(* and failures that arrived are read.  A write completes when the client  *)
(* reads, and nothing ends one whose client does not (session.cpp has no   *)
(* timeout), so nothing is assumed of Written and WriteError.              *)
Reading(s) ==
  \/ ReceiveJoin(s) \/ ReceiveState(s) \/ ReceiveVersion(s) \/ ReceiveGarbled(s)
  \/ ReadError(s)

Fairness == \A s \in Session : WF_vars(Reading(s))

Spec == Init /\ [][Next]_vars /\ Fairness

-----------------------------------------------------------------------------

TypeOK ==
  /\ groups \in [DOMAIN groups -> GroupId] /\ DOMAIN groups \subseteq GroupName
  /\ receivers \in [GroupId -> SUBSET Session]
  /\ group \in [Session -> GroupId \cup {NoGroup}]
  /\ named \in [Session -> GroupName \cup {NoGroup}]
  /\ queue \in [Session -> Seq(Message)] /\ inbox \in [Session -> Seq(Message)]
  /\ reading \in [Session -> BOOLEAN] /\ writing \in [Session -> BOOLEAN]
  /\ broken \in [Session -> BOOLEAN]
  /\ lines \in [Session -> Seq(Line)] /\ sent \in 0 .. MaxLines

(* A session is a receiver of the object it points to and of no other, and *)
(* only while it reads: the group does not keep a session alive that will  *)
(* never handle a line again.  (session.cpp: the three leaves, and the     *)
(* join before the leave)                                                  *)
ReceiversRead ==
  \A g \in GroupId : \A s \in receivers[g] : group[s] = g /\ reading[s]

(* Sessions that named the same group last are in one object: the registry *)
(* still leads to it, and leads to it by that name alone, although objects *)
(* without receivers are erased and made again.  (group.cpp: leave,        *)
(* get_group)                                                              *)
OneObjectPerName ==
  /\ \A g \in GroupId : \A s \in receivers[g] :
       named[s] \in DOMAIN groups /\ groups[named[s]] = g
  /\ \A m, n \in DOMAIN groups : groups[m] = groups[n] => m = n

(* A message waits only behind a write that is outstanding, or for a       *)
(* connection that failed; nobody starts a second write or writes an empty *)
(* queue.  (session.cpp: send_data, send_queued_messages)                  *)
QueueMoves ==
  \A s \in Session :
    /\ queue[s] # <<>> => writing[s] \/ broken[s]
    /\ writing[s] => queue[s] # <<>>

(* Every client is told of the states in the same order, and of none       *)
(* twice, even if it changed groups between them.                          *)
StatesInOneOrder ==
  LET mail(s) == inbox[s] \o queue[s]
      told(s, a, b) == \E i, j \in 1 .. Len(mail(s)) : i < j /\ mail(s)[i] = a /\ mail(s)[j] = b
      states(s) == {mail(s)[i] : i \in {k \in 1 .. Len(mail(s)) : mail(s)[k].status = "state"}}
  IN  \A s, r \in Session : \A a \in states(s), b \in states(r) : told(s, a, b) => ~ told(r, b, a)

(* What is queued for a client that takes what is written to it is         *)
(* written, unless its connection fails: one client that reads nothing     *)
(* keeps the server from no other.  (session.cpp: send_data,               *)
(* send_queued_messages; nothing waits for a write)                        *)
QueueDrains ==
  \A s \in Session :
    WF_vars(Written(s)) => ((queue[s] # <<>>) ~> (queue[s] = <<>> \/ broken[s]))

(* A failed connection ends up in no group, also when lines it sent before *)
(* are still handled and even make it join again.                          *)
BrokenLeaves ==
  \A s \in Session : broken[s] ~> [](\A g \in GroupId : s \notin receivers[g])

(* The group a session is a receiver of.                                   *)
Member ==
  [s \in Session |-> IF \E g \in GroupId : s \in receivers[g] THEN named[s] ELSE NoGroup]

Relay ==
  INSTANCE GroupRelay WITH
    member  <- Member,
    mailbox <- queue,
    Answer  <- Replies,
    News    <- State

(* The server implements GroupRelay: the objects, the registry and the     *)
(* writes amount to a relay that knows of each client only the group it    *)
(* named and whether it is in it.                                          *)
ImplementsRelay == Relay!Spec

=============================================================================
