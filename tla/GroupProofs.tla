---------------------------- MODULE GroupProofs -----------------------------
(***************************************************************************)
(* Theorems about the sync server alone (GroupServer), about the clients   *)
(* of the addon with it (GroupSync) and about the group trackers that name *)
(* their groups (GroupTracker).                                            *)
(*                                                                         *)
(* The server: the registry leads to one object per group name, only       *)
(* sessions that read are receivers, queues keep moving, every client is   *)
(* told of the states in one order, and the server implements GroupRelay,  *)
(* for any number of sessions, names and lines.                            *)
(*                                                                         *)
(* The clients: the lines of a client that the session has not handled     *)
(* lead from the group it is in to the group the client has told (Ends),   *)
(* and every state among them finds the session in a group it is meant for *)
(* (Aimed).  What lies behind a line that mixed is never handled.  This    *)
(* holds for any number of clients, places, events and moves.              *)
(*                                                                         *)
(* The trackers: of every other player, a client that has loaded a map is  *)
(* told the truth by the last notice about it that is not yet handled, or, *)
(* when there is none, knows it (Informed).  This holds for any players,   *)
(* parties and changes of party.                                           *)
(***************************************************************************)
EXTENDS GroupSync, GroupTracker, SequenceTheorems, FiniteSetTheorems, TLAPS

-----------------------------------------------------------------------------

(* A session has a group object when it has named a group, and until then  *)
(* it reads, writes and queues nothing.                                    *)
Attached ==
  \A s \in Session :
    /\ named[s] = NoGroup <=> group[s] = NoGroup
    /\ named[s] = NoGroup =>
         ~ reading[s] /\ ~ writing[s] /\ lines[s] = <<>> /\ queue[s] = <<>>

(* The object is the one the registry leads to by that name, also when the *)
(* session has left it.                                                    *)
Acquainted ==
  \A s \in Session :
    named[s] # NoGroup => named[s] \in DOMAIN groups /\ groups[named[s]] = group[s]

IInv ==
  /\ TypeOK /\ ReceiversRead /\ OneObjectPerName /\ QueueMoves
  /\ Attached /\ Acquainted

-----------------------------------------------------------------------------

(* Nobody has a group at the start.                                        *)
LEMMA InitInvariant == Init => IInv
<1> SUFFICES ASSUME Init PROVE IInv
  OBVIOUS
<1> USE DEF Init
<1>1. TypeOK
  BY LinesAssumption DEF TypeOK
<1>2. ReceiversRead /\ OneObjectPerName /\ QueueMoves /\ Attached /\ Acquainted
  BY DEF ReceiversRead, OneObjectPerName, QueueMoves, Attached, Acquainted
<1> QED
  BY <1>1, <1>2 DEF IInv

(* Only a group whose name is empty is ever erased, and none has that name *)
(* in the registry.                                                        *)
LEMMA NothingIsErased ==
  ASSUME NEW reg, NEW members, DOMAIN reg \subseteq GroupName, reg = [n \in DOMAIN reg |-> reg[n]]
  PROVE  Left(reg, members) = reg
<1>1. DOMAIN reg \ {Untitled} = DOMAIN reg
  BY NamesAssumption
<1> QED
  BY <1>1 DEF Left

(* Answers and states are messages.                                        *)
LEMMA RepliesAreMessages ==
  \A answer \in {"ok", "version", "error"} : [status |-> answer] \in Message
BY DEF Message, Replies

(* send_data keeps the queues sequences of messages, and puts a write      *)
(* behind each of them that grows.                                         *)
LEMMA SendDataKeeps ==
  ASSUME IInv, NEW to, NEW m \in Message, SendData(to, m)
  PROVE  /\ queue' \in [Session -> Seq(Message)]
         /\ writing' \in [Session -> BOOLEAN]
         /\ \A s \in Session :
              /\ queue'[s] # <<>> => writing'[s] \/ broken[s]
              /\ writing'[s] => queue'[s] # <<>>
              /\ s \notin to => queue'[s] = queue[s] /\ writing'[s] = writing[s]
<1>1. queue' \in [Session -> Seq(Message)]
  BY DEF SendData, IInv, TypeOK
<1>2. writing' \in [Session -> BOOLEAN]
  BY Zenon DEF SendData, IInv, TypeOK
<1>3. ASSUME NEW s \in Session, s \in to
      PROVE  /\ queue'[s] # <<>>
             /\ writing'[s] \/ broken[s]
  <2>1. queue'[s] = Append(queue[s], m) /\ queue[s] \in Seq(Message)
    BY <1>3 DEF SendData, IInv, TypeOK
  <2>2. writing'[s] = (writing[s] \/ queue[s] = <<>>)
    BY <1>3 DEF SendData
  <2>3. queue'[s] # <<>>
    BY <2>1
  <2>4. queue[s] # <<>> => writing[s] \/ broken[s]
    BY DEF IInv, QueueMoves
  <2> QED
    BY <2>2, <2>3, <2>4, Zenon
<1>4. ASSUME NEW s \in Session, s \notin to
      PROVE  queue'[s] = queue[s] /\ writing'[s] = writing[s]
  BY <1>4 DEF SendData, IInv, TypeOK
<1> QED
  BY <1>1, <1>2, <1>3, <1>4 DEF IInv, QueueMoves

(* A session that leaves is a receiver of nothing, and takes nobody and no *)
(* name with it.                                                           *)
LEMMA LeaveGroupKeeps ==
  ASSUME IInv, NEW s \in Session, group[s] # NoGroup, LeaveGroup(s)
  PROVE  /\ receivers' \in [GroupId -> SUBSET Session]
         /\ groups' = groups
         /\ \A g \in GroupId : receivers'[g] = receivers[g] \ {s}
<1>1. group[s] \in GroupId /\ receivers \in [GroupId -> SUBSET Session]
  BY DEF IInv, TypeOK
<1>2. receivers' = [receivers EXCEPT ![group[s]] = @ \ {s}]
  BY DEF LeaveGroup
<1>3. receivers' \in [GroupId -> SUBSET Session]
  BY <1>1, <1>2
<1>4. groups' = groups
  BY NothingIsErased DEF LeaveGroup, IInv, TypeOK
<1>5. \A g \in GroupId \ {group[s]} : s \notin receivers[g]
  BY DEF IInv, ReceiversRead
<1>6. \A g \in GroupId : receivers'[g] = receivers[g] \ {s}
  BY <1>1, <1>2, <1>5
<1> QED
  BY <1>3, <1>4, <1>6

(* Leaving preserves the two invariants of the registry, provided that     *)
(* nothing of the other sessions changes.                                  *)
LEMMA LeaveGroupInvariants ==
  ASSUME IInv, NEW s \in Session, group[s] # NoGroup, LeaveGroup(s),
         UNCHANGED <<group, named>>,
         \A r \in Session \ {s} : reading'[r] = reading[r]
  PROVE  ReceiversRead' /\ OneObjectPerName' /\ Acquainted'
<1>1. /\ groups' = groups
      /\ \A g \in GroupId : receivers'[g] = receivers[g] \ {s}
      /\ \A g \in GroupId : receivers[g] \subseteq Session
  BY LeaveGroupKeeps DEF IInv, TypeOK
<1>2. ReceiversRead'
  <2>1. group' = group
    OBVIOUS
  <2> SUFFICES ASSUME NEW g \in GroupId, NEW r \in receivers'[g]
               PROVE  group'[r] = g /\ reading'[r]
    BY Zenon DEF ReceiversRead
  <2>2. r \in receivers[g] /\ r \in Session \ {s}
    BY <1>1
  <2>3. group[r] = g /\ reading[r]
    BY <2>2, Zenon DEF IInv, ReceiversRead
  <2>4. reading'[r] = reading[r]
    BY <2>2
  <2> QED
    BY <2>1, <2>3, <2>4
<1>3. OneObjectPerName'
  BY <1>1 DEF IInv, OneObjectPerName
<1>4. Acquainted'
  BY <1>1 DEF IInv, Acquainted
<1> QED
  BY <1>2, <1>3, <1>4

(* A handler that takes a line leaves sequences of lines, and the session  *)
(* has a group.                                                            *)
LEMMA ReceivesKeeps ==
  ASSUME IInv, NEW s \in Session, NEW command, Receives(s, command)
  PROVE  /\ lines' \in [Session -> Seq(Line)]
         /\ lines[s] \in Seq(Line) /\ lines[s] # <<>>
         /\ Head(lines[s]) \in Line /\ Head(lines[s]).command = command
         /\ \A r \in Session \ {s} : lines'[r] = lines[r]
         /\ named[s] \in GroupName /\ group[s] \in GroupId /\ group[s] # NoGroup
         /\ UNCHANGED <<sent, broken, inbox>>
<1>1. lines[s] # <<>> /\ lines' = [lines EXCEPT ![s] = Tail(@)] /\ reading[s]
  BY DEF Receives
<1>2. lines \in [Session -> Seq(Line)] /\ lines[s] \in Seq(Line)
  BY DEF IInv, TypeOK
<1>3. Tail(lines[s]) \in Seq(Line) /\ Head(lines[s]) \in Line
  BY <1>1, <1>2
<1>4. named[s] # NoGroup /\ group[s] # NoGroup
  BY <1>1 DEF IInv, Attached
<1> QED
  BY <1>1, <1>2, <1>3, <1>4 DEF Receives, IInv, TypeOK

-----------------------------------------------------------------------------
(* One lemma per action.                                                   *)

(* A client sends a line.                                                  *)
LEMMA SendLineStep ==
  ASSUME IInv, NEW s \in Session, SendLine(s)
  PROVE  IInv'
<1>1. lines' \in [Session -> Seq(Line)] /\ sent' \in 0 .. MaxLines
  BY LinesAssumption DEF SendLine, IInv, TypeOK
<1>2. TypeOK'
  BY <1>1 DEF SendLine, IInv, TypeOK, registry
<1>3. ReceiversRead' /\ OneObjectPerName' /\ Acquainted' /\ QueueMoves'
  BY DEF SendLine, IInv, ReceiversRead, OneObjectPerName, Acquainted, QueueMoves, registry
<1>4. Attached'
  BY DEF SendLine, Connected, IInv, TypeOK, Attached
<1> QED
  BY <1>2, <1>3, <1>4 DEF IInv

(* A connection fails.                                                     *)
LEMMA BreakStep ==
  ASSUME IInv, NEW s \in Session, Break(s)
  PROVE  IInv'
<1>1. lines' \in [Session -> Seq(Line)] /\ \A r \in Session \ {s} : lines'[r] = lines[r]
  <2>1. PICK n \in 0 .. Len(lines[s]) : lines' = [lines EXCEPT ![s] = SubSeq(@, 1, n)]
    BY DEF Break
  <2>2. lines[s] \in Seq(Line) /\ lines \in [Session -> Seq(Line)]
    BY DEF IInv, TypeOK
  <2>3. SubSeq(lines[s], 1, n) \in Seq(Line)
    BY <2>1, <2>2
  <2> QED
    BY <2>1, <2>2, <2>3
<1>2. broken' \in [Session -> BOOLEAN]
  BY Zenon DEF Break, IInv, TypeOK
<1>3. TypeOK'
  BY <1>1, <1>2 DEF Break, IInv, TypeOK, registry
<1>4. ReceiversRead' /\ OneObjectPerName' /\ Acquainted'
  BY DEF Break, IInv, ReceiversRead, OneObjectPerName, Acquainted, registry
<1>5. QueueMoves'
  BY DEF Break, IInv, TypeOK, QueueMoves
<1>6. Attached'
  BY <1>1 DEF Break, Connected, IInv, TypeOK, Attached
<1> QED
  BY <1>3, <1>4, <1>5, <1>6 DEF IInv

(* A session starts in the default group.                                  *)
LEMMA AcceptStep ==
  ASSUME IInv, NEW s \in Session, Accept(s)
  PROVE  IInv'
<1>1. PICK g \in GroupId :
        /\ GotGroup(Default, g)
        /\ groups' = Registered(Default, g)
        /\ group' = [group EXCEPT ![s] = g]
        /\ receivers' = [receivers EXCEPT ![g] = @ \cup {s}]
  BY DEF Accept
<1>2. named' = [named EXCEPT ![s] = Default] /\ reading' = [reading EXCEPT ![s] = TRUE]
  BY DEF Accept
<1>3. UNCHANGED <<queue, writing, lines, sent, broken, inbox>> /\ named[s] = NoGroup
  BY DEF Accept, Connected
<1>4. TypeOK'
  <2>1. reading' \in [Session -> BOOLEAN]
    BY <1>2, Zenon DEF IInv, TypeOK
  <2>2. groups' \in [DOMAIN groups' -> GroupId] /\ DOMAIN groups' \subseteq GroupName
    BY <1>1, NamesAssumption DEF Registered, IInv, TypeOK
  <2>3. receivers' \in [GroupId -> SUBSET Session] /\ group' \in [Session -> GroupId \cup {NoGroup}]
    BY <1>1 DEF IInv, TypeOK
  <2>4. named' \in [Session -> GroupName \cup {NoGroup}]
    BY <1>2, NamesAssumption DEF IInv, TypeOK
  <2> QED
    BY <2>1, <2>2, <2>3, <2>4, <1>3 DEF IInv, TypeOK
<1>5. ReceiversRead'
  <2> SUFFICES ASSUME NEW h \in GroupId, NEW r \in receivers'[h]
               PROVE  group'[r] = h /\ reading'[r]
    BY Zenon DEF ReceiversRead
  <2>1. CASE h = g /\ r = s
    BY <1>1, <1>2, <2>1 DEF IInv, TypeOK
  <2>2. CASE ~ (h = g /\ r = s)
    <3>1. r \in receivers[h]
      BY <1>1, <2>2 DEF IInv, TypeOK
    <3>2. group[r] = h /\ reading[r] /\ r \in Session
      BY <3>1, Zenon DEF IInv, TypeOK, ReceiversRead
    <3>3. r # s
      BY <3>2, <1>3, NamesAssumption DEF IInv, Attached
    <3> QED
      BY <3>2, <3>3, <1>1, <1>2 DEF IInv, TypeOK
  <2> QED
    BY <2>1, <2>2
<1>6. OneObjectPerName'
  BY <1>1, <1>2, <1>3, NamesAssumption
     DEF IInv, TypeOK, Attached, ReceiversRead, OneObjectPerName, GotGroup, Registered
<1>7. QueueMoves'
  BY <1>3 DEF IInv, QueueMoves
<1>8. Attached'
  BY <1>1, <1>2, <1>3, NamesAssumption DEF IInv, TypeOK, Attached
<1>9. Acquainted'
  BY <1>1, <1>2, <1>3, NamesAssumption
     DEF IInv, TypeOK, Acquainted, GotGroup, Registered
<1> QED
  BY <1>9, <1>4, <1>5, <1>6, <1>7, <1>8 DEF IInv

(* A client joins a group: the session enters the new one before it leaves *)
(* the old one.                                                            *)
LEMMA ReceiveJoinStep ==
  ASSUME IInv, NEW s \in Session, ReceiveJoin(s)
  PROVE  IInv'
<1> DEFINE name == Head(lines[s]).group
           old == group[s]
<1>1. Receives(s, "join")
  BY DEF ReceiveJoin
<1>2. PICK g \in GroupId :
        /\ GotGroup(name, g)
        /\ group' = [group EXCEPT ![s] = g]
        /\ \/ /\ g = old
              /\ receivers' = [receivers EXCEPT ![g] = @ \cup {s}]
              /\ groups' = Registered(name, g)
           \/ /\ g # old
              /\ receivers' = [receivers EXCEPT ![g] = @ \cup {s}, ![old] = @ \ {s}]
              /\ groups' = Left(Registered(name, g), receivers[old] \ {s})
  BY DEF ReceiveJoin
<1>3. /\ named' = [named EXCEPT ![s] = name]
      /\ SendData({s}, [status |-> "ok"])
      /\ reading' = reading
  BY DEF ReceiveJoin
<1>4. name \in GroupName
  BY <1>1, ReceivesKeeps DEF Line
<1>5. /\ old \in GroupId /\ reading[s]
      /\ \A h \in GroupId : s \in receivers[h] => h = old
  BY <1>1, ReceivesKeeps DEF Receives, IInv, ReceiversRead
<1>6. groups' = Registered(name, g)
  <2>1. Registered(name, g) = [n \in DOMAIN Registered(name, g) |-> Registered(name, g)[n]]
    BY DEF Registered
  <2>2. DOMAIN Registered(name, g) \subseteq GroupName
    BY <1>4 DEF Registered, IInv, TypeOK
  <2> QED
    BY <1>2, <2>1, <2>2, NothingIsErased
<1>7. /\ receivers' \in [GroupId -> SUBSET Session]
      /\ \A h \in GroupId : receivers'[h] = IF h = g THEN receivers[h] \cup {s}
                                           ELSE receivers[h] \ {s}
  <2>1. receivers \in [GroupId -> SUBSET Session]
    BY DEF IInv, TypeOK
  <2>2. CASE g = old
    <3>1. receivers' = [receivers EXCEPT ![g] = receivers[g] \cup {s}]
      BY <1>2, <2>2
    <3>2. \A h \in GroupId : h # g => receivers[h] = receivers[h] \ {s}
      BY <1>5, <2>2
    <3> QED
      BY <2>1, <3>1, <3>2
  <2>3. CASE g # old
    <3>1. receivers' = [receivers EXCEPT ![g] = receivers[g] \cup {s}, ![old] = receivers[old] \ {s}]
      BY <1>2, <2>3
    <3>2. \A h \in GroupId : h # old => receivers[h] = receivers[h] \ {s}
      BY <1>5
    <3> QED
      BY <1>5, <2>1, <2>3, <3>1, <3>2
  <2> QED
    BY <2>2, <2>3
<1>8. TypeOK'
  <2>1. groups' \in [DOMAIN groups' -> GroupId] /\ DOMAIN groups' \subseteq GroupName
    BY <1>4, <1>6 DEF Registered, IInv, TypeOK
  <2>2. group' \in [Session -> GroupId \cup {NoGroup}]
    BY <1>2 DEF IInv, TypeOK
  <2>3. named' \in [Session -> GroupName \cup {NoGroup}]
    BY <1>3, <1>4 DEF IInv, TypeOK
  <2>4. queue' \in [Session -> Seq(Message)] /\ writing' \in [Session -> BOOLEAN]
    BY <1>3, SendDataKeeps, RepliesAreMessages
  <2> QED
    BY <1>1, <1>3, <1>7, <2>1, <2>2, <2>3, <2>4, ReceivesKeeps DEF IInv, TypeOK
<1>9. ReceiversRead'
  <2> SUFFICES ASSUME NEW h \in GroupId, NEW r \in receivers'[h]
               PROVE  group'[r] = h /\ reading'[r]
    BY Zenon DEF ReceiversRead
  <2>1. CASE r = s
    BY <1>2, <1>3, <1>5, <1>7, <2>1 DEF IInv, TypeOK
  <2>2. CASE r # s
    <3>1. r \in receivers[h]
      BY <1>7, <2>2
    <3>2. group[r] = h /\ reading[r] /\ r \in Session
      BY <3>1, Zenon DEF IInv, TypeOK, ReceiversRead
    <3> QED
      BY <1>2, <1>3, <2>2, <3>2 DEF IInv, TypeOK
  <2> QED
    BY <2>1, <2>2
<1>10. OneObjectPerName'
  <2>1. ASSUME NEW h \in GroupId, NEW r \in receivers'[h]
        PROVE  named'[r] \in DOMAIN groups' /\ groups'[named'[r]] = h
    <3>1. CASE r = s
      <4>1. h = g
        BY <1>7, <3>1
      <4> QED
        BY <1>3, <1>6, <3>1, <4>1 DEF Registered, IInv, TypeOK
    <3>2. CASE r # s
      <4>1. r \in receivers[h] /\ r \in Session
        BY <1>7, <3>2
      <4>2. named[r] \in DOMAIN groups /\ groups[named[r]] = h /\ named'[r] = named[r]
        BY <1>3, <3>2, <4>1 DEF IInv, TypeOK, OneObjectPerName
      <4> QED
        BY <1>2, <1>6, <4>2 DEF Registered, GotGroup
    <3> QED
      BY <3>1, <3>2
  <2>2. \A m, n \in DOMAIN groups' : groups'[m] = groups'[n] => m = n
    BY <1>2, <1>6 DEF Registered, GotGroup, IInv, TypeOK, OneObjectPerName
  <2> QED
    BY <2>1, <2>2 DEF OneObjectPerName
<1>11. QueueMoves'
  BY <1>1, <1>3, SendDataKeeps, ReceivesKeeps, RepliesAreMessages DEF QueueMoves
<1>12. Attached'
  <2>1. \A r \in Session \ {s} : /\ queue'[r] = queue[r] /\ writing'[r] = writing[r]
                                /\ lines'[r] = lines[r]
    BY <1>1, <1>3, SendDataKeeps, ReceivesKeeps, RepliesAreMessages
  <2>2. named'[s] # NoGroup /\ group'[s] # NoGroup
    BY <1>2, <1>3, <1>4, NamesAssumption DEF IInv, TypeOK
  <2>3. \A r \in Session \ {s} : named'[r] = named[r] /\ group'[r] = group[r]
    BY <1>2, <1>3 DEF IInv, TypeOK
  <2> QED
    BY <1>3, <2>1, <2>2, <2>3 DEF IInv, Attached
<1>13. Acquainted'
  BY <1>2, <1>3, <1>4, <1>6, NamesAssumption
     DEF IInv, TypeOK, Acquainted, GotGroup, Registered
<1> QED
  BY <1>13, <1>8, <1>9, <1>10, <1>11, <1>12 DEF IInv

(* A handler that neither joins nor leaves keeps the registry; only the    *)
(* queues grow.                                                            *)
LEMMA SendingStep ==
  ASSUME IInv, NEW s \in Session, NEW command, NEW to, NEW m \in Message,
         Receives(s, command), SendData(to, m), UNCHANGED <<registry, group, named, reading>>,
         \A r \in to : named[r] # NoGroup
  PROVE  IInv'
<1>1. /\ groups' = groups /\ receivers' = receivers /\ group' = group
      /\ named' = named /\ reading' = reading
  BY DEF registry
<1>2. TypeOK'
  BY <1>1, SendDataKeeps, ReceivesKeeps DEF IInv, TypeOK
<1>3. ReceiversRead' /\ OneObjectPerName' /\ Acquainted'
  BY <1>1 DEF IInv, ReceiversRead, OneObjectPerName, Acquainted
<1>4. QueueMoves'
  BY SendDataKeeps, ReceivesKeeps DEF QueueMoves
<1>5. Attached'
  <2>1. \A r \in Session : named[r] = NoGroup =>
          lines'[r] = lines[r] /\ queue'[r] = queue[r] /\ writing'[r] = writing[r]
    BY SendDataKeeps, ReceivesKeeps, NamesAssumption
  <2> QED
    BY <1>1, <2>1, Zenon DEF IInv, Attached
<1> QED
  BY <1>2, <1>3, <1>4, <1>5 DEF IInv

(* A state is relayed.                                                     *)
LEMMA ReceiveStateStep ==
  ASSUME IInv, NEW s \in Session, ReceiveState(s)
  PROVE  IInv'
<1> DEFINE m == [status |-> "state", n |-> Head(lines[s]).n, group |-> named[s]]
<1>1. /\ Receives(s, "state")
      /\ SendData(receivers[group[s]], m)
      /\ UNCHANGED <<registry, group, named, reading>>
  BY NamesAssumption DEF ReceiveState
<1>2. Head(lines[s]).n \in 1 .. MaxLines
  BY <1>1, ReceivesKeeps DEF Line
<1>3. m \in Message
  BY <1>1, <1>2, ReceivesKeeps DEF Message, State
<1>4. \A r \in receivers[group[s]] : named[r] # NoGroup
  BY <1>1, ReceivesKeeps, NamesAssumption DEF IInv, TypeOK, OneObjectPerName
<1> QED
  BY <1>1, <1>3, <1>4, SendingStep

(* The version is answered.                                                *)
LEMMA ReceiveVersionStep ==
  ASSUME IInv, NEW s \in Session, ReceiveVersion(s)
  PROVE  IInv'
<1>1. /\ Receives(s, "version")
      /\ SendData({s}, [status |-> "version"])
      /\ UNCHANGED <<registry, group, named, reading>>
  BY DEF ReceiveVersion
<1>2. \A r \in {s} : named[r] # NoGroup
  BY <1>1, ReceivesKeeps, NamesAssumption
<1> QED
  BY <1>1, <1>2, SendingStep, RepliesAreMessages

(* A line cannot be parsed: the session leaves and reads no more.          *)
LEMMA ReceiveGarbledStep ==
  ASSUME IInv, NEW s \in Session, ReceiveGarbled(s)
  PROVE  IInv'
<1>1. /\ Receives(s, "garbled") /\ LeaveGroup(s)
      /\ SendData({s}, [status |-> "error"])
      /\ reading' = [reading EXCEPT ![s] = FALSE]
      /\ group' = group /\ named' = named
  BY DEF ReceiveGarbled
<1>2. named[s] # NoGroup /\ group[s] # NoGroup
  BY <1>1, ReceivesKeeps, NamesAssumption
<1>3. reading' \in [Session -> BOOLEAN] /\ \A r \in Session \ {s} : reading'[r] = reading[r]
  BY <1>1, Zenon DEF IInv, TypeOK
<1>4. TypeOK'
  BY <1>1, <1>2, <1>3, SendDataKeeps, ReceivesKeeps, LeaveGroupKeeps, RepliesAreMessages
     DEF IInv, TypeOK
<1>5. ReceiversRead' /\ OneObjectPerName' /\ Acquainted'
  BY <1>1, <1>2, <1>3, LeaveGroupInvariants
<1>6. QueueMoves'
  BY <1>1, SendDataKeeps, ReceivesKeeps, RepliesAreMessages DEF QueueMoves
<1>7. Attached'
  <2>1. \A r \in Session \ {s} : /\ queue'[r] = queue[r] /\ writing'[r] = writing[r]
                                /\ lines'[r] = lines[r]
    BY <1>1, SendDataKeeps, ReceivesKeeps, RepliesAreMessages
  <2> QED
    BY <1>1, <1>2, <1>3, <2>1, Zenon DEF IInv, Attached
<1> QED
  BY <1>4, <1>5, <1>6, <1>7 DEF IInv

(* A read fails: the session leaves and reads no more.                     *)
LEMMA ReadErrorStep ==
  ASSUME IInv, NEW s \in Session, ReadError(s)
  PROVE  IInv'
<1>1. /\ reading[s] /\ LeaveGroup(s)
      /\ reading' = [reading EXCEPT ![s] = FALSE]
      /\ UNCHANGED <<group, named, queue, writing, lines, sent, broken, inbox>>
  BY DEF ReadError
<1>2. named[s] # NoGroup /\ group[s] # NoGroup
  BY <1>1 DEF IInv, Attached
<1>3. reading' \in [Session -> BOOLEAN] /\ \A r \in Session \ {s} : reading'[r] = reading[r]
  BY <1>1, Zenon DEF IInv, TypeOK
<1>4. TypeOK'
  BY <1>1, <1>2, <1>3, LeaveGroupKeeps DEF IInv, TypeOK
<1>5. ReceiversRead' /\ OneObjectPerName' /\ Acquainted'
  BY <1>1, <1>2, <1>3, LeaveGroupInvariants
<1>6. QueueMoves'
  BY <1>1 DEF IInv, QueueMoves
<1>7. Attached'
  BY <1>1, <1>2, <1>3 DEF IInv, Attached
<1> QED
  BY <1>4, <1>5, <1>6, <1>7 DEF IInv

(* A write completes, and the next one starts if there is one.             *)
LEMMA WrittenStep ==
  ASSUME IInv, NEW s \in Session, Written(s)
  PROVE  IInv'
<1>1. /\ writing[s]
      /\ inbox' = [inbox EXCEPT ![s] = Append(@, Head(queue[s]))]
      /\ queue' = [queue EXCEPT ![s] = Tail(@)]
      /\ writing' = [writing EXCEPT ![s] = Tail(queue[s]) # <<>>]
      /\ UNCHANGED <<registry, group, named, reading, lines, sent, broken>>
  BY DEF Written
<1>2. /\ queue[s] # <<>> /\ queue[s] \in Seq(Message) /\ inbox[s] \in Seq(Message)
      /\ named[s] # NoGroup
  BY <1>1 DEF IInv, TypeOK, QueueMoves, Attached
<1>3. Tail(queue[s]) \in Seq(Message) /\ Append(inbox[s], Head(queue[s])) \in Seq(Message)
  BY <1>2
<1>4. queue' \in [Session -> Seq(Message)] /\ inbox' \in [Session -> Seq(Message)]
  BY <1>1, <1>3 DEF IInv, TypeOK
<1>5. writing' \in [Session -> BOOLEAN]
  BY <1>1, Zenon DEF IInv, TypeOK
<1>6. TypeOK'
  BY <1>1, <1>4, <1>5 DEF IInv, TypeOK, registry
<1>7. ReceiversRead' /\ OneObjectPerName' /\ Acquainted'
  BY <1>1 DEF IInv, ReceiversRead, OneObjectPerName, Acquainted, registry
<1>8. QueueMoves'
  BY <1>1 DEF IInv, TypeOK, QueueMoves
<1>9. Attached'
  BY <1>1, <1>2 DEF IInv, TypeOK, Attached
<1> QED
  BY <1>6, <1>7, <1>8, <1>9 DEF IInv

(* A write fails: the session leaves, and its queue stays.                 *)
LEMMA WriteErrorStep ==
  ASSUME IInv, NEW s \in Session, WriteError(s)
  PROVE  IInv'
<1>1. /\ writing[s] /\ broken[s] /\ LeaveGroup(s)
      /\ writing' = [writing EXCEPT ![s] = FALSE]
      /\ UNCHANGED <<group, named, queue, reading, lines, sent, broken, inbox>>
  BY DEF WriteError
<1>2. named[s] # NoGroup /\ group[s] # NoGroup
  BY <1>1 DEF IInv, Attached
<1>3. writing' \in [Session -> BOOLEAN]
  BY <1>1, Zenon DEF IInv, TypeOK
<1>4. TypeOK'
  BY <1>1, <1>2, <1>3, LeaveGroupKeeps DEF IInv, TypeOK
<1>5. ReceiversRead' /\ OneObjectPerName' /\ Acquainted'
  BY <1>1, <1>2, LeaveGroupInvariants
<1>6. QueueMoves'
  BY <1>1 DEF IInv, TypeOK, QueueMoves
<1>7. Attached'
  BY <1>1, <1>2 DEF IInv, TypeOK, Attached
<1> QED
  BY <1>4, <1>5, <1>6, <1>7 DEF IInv

(* Every step of the server and its clients preserves the invariant.       *)
LEMMA NextInvariant == IInv /\ [Next]_vars => IInv'
<1> SUFFICES ASSUME IInv, [Next]_vars PROVE IInv'
  OBVIOUS
<1>1. ASSUME NEW s \in Session, SendLine(s) \/ Break(s) \/ Accept(s) \/ ReceiveJoin(s)
      PROVE  IInv'
  BY <1>1, SendLineStep, BreakStep, AcceptStep, ReceiveJoinStep
<1>2. ASSUME NEW s \in Session, ReceiveState(s) \/ ReceiveVersion(s) \/ ReceiveGarbled(s)
      PROVE  IInv'
  BY <1>2, ReceiveStateStep, ReceiveVersionStep, ReceiveGarbledStep
<1>3. ASSUME NEW s \in Session, ReadError(s) \/ Written(s) \/ WriteError(s)
      PROVE  IInv'
  BY <1>3, ReadErrorStep, WrittenStep, WriteErrorStep
<1>4. CASE UNCHANGED vars
  BY <1>4 DEF vars, registry, IInv, TypeOK, ReceiversRead, OneObjectPerName, QueueMoves, Attached,
              Acquainted
<1> QED
  BY <1>1, <1>2, <1>3, <1>4 DEF Next, Handle

(* The invariant holds of every behaviour of the server.                   *)
THEOREM Invariance == Spec => []IInv
<1>1. Init => IInv
  BY InitInvariant
<1>2. IInv /\ [Next]_vars => IInv'
  BY NextInvariant
<1> QED
  BY <1>1, <1>2, PTL DEF Spec

(* The variables of the server keep their types.                           *)
THEOREM TypeCorrect == Spec => []TypeOK
BY Invariance, PTL DEF IInv

(* A group keeps no session that will never handle a line again            *)
(* (session.cpp: the three leaves, and the join before the leave).         *)
THEOREM ReceiversAreReading == Spec => []ReceiversRead
BY Invariance, PTL DEF IInv

(* The registry leads every member of a group to the one object the others *)
(* are in (group.cpp: leave, get_group).                                   *)
THEOREM GroupsAreOneObject == Spec => []OneObjectPerName
BY Invariance, PTL DEF IInv

(* A queued message has a write before it, or a failed connection          *)
(* (session.cpp: send_data, send_queued_messages).                         *)
THEOREM QueuesMove == Spec => []QueueMoves
BY Invariance, PTL DEF IInv

-----------------------------------------------------------------------------
(* A client that failed is left by its group for good: what remains of     *)
(* BrokenLeaves without fairness.                                          *)

BrokenWasAccepted == \A s \in Session : broken[s] => Connected(s)

Gone(s) == broken[s] /\ ~ reading[s]

InNoGroup(s) == \A g \in GroupId : s \notin receivers[g]

(* The session of a failed connection gets no lines any more: each handler *)
(* of its reads leaves it with one less, or is the last.                   *)
BrokenMovesOn ==
  \A s \in Session : broken[s] =>
    /\ broken'[s]
    /\ Reading(s) => Len(lines'[s]) < Len(lines[s]) \/ ~ reading'[s]
    /\ ~ Reading(s) => lines'[s] = lines[s] /\ reading'[s] = reading[s]

(* There is an object for every name a client may join.                    *)
GroupsAreFound == \A name \in GroupName : \E g \in GroupId : GotGroup(name, g)

LEMMA NextAccepted ==
  ASSUME IInv, BrokenWasAccepted, [Next]_vars
  PROVE  BrokenWasAccepted'
<1>1. /\ broken \in [Session -> BOOLEAN]
      /\ named \in [Session -> GroupName \cup {NoGroup}] /\ NoGroup \notin GroupName
      /\ Default \in GroupName
  BY NamesAssumption DEF IInv, TypeOK
<1>2. ASSUME NEW s \in Session, SendLine(s) \/ Break(s)
      PROVE  BrokenWasAccepted'
  BY <1>1, <1>2 DEF SendLine, Break, BrokenWasAccepted, Connected
<1>3. ASSUME NEW s \in Session, Accept(s)
      PROVE  BrokenWasAccepted'
  BY <1>1, <1>3 DEF Accept, BrokenWasAccepted, Connected
<1>4. ASSUME NEW s \in Session, ReceiveJoin(s)
      PROVE  BrokenWasAccepted'
  <2>1. lines \in [Session -> Seq(Line)] /\ lines[s] # <<>> /\ Head(lines[s]).command = "join"
    BY <1>4 DEF ReceiveJoin, Receives, IInv, TypeOK
  <2>2. Head(lines[s]) \in Line
    BY <2>1
  <2>3. Head(lines[s]).group \in GroupName
    BY <2>1, <2>2 DEF Line
  <2>4. broken' = broken /\ named' = [named EXCEPT ![s] = Head(lines[s]).group]
    BY <1>4 DEF ReceiveJoin, Receives
  <2> QED
    BY <1>1, <2>3, <2>4 DEF BrokenWasAccepted, Connected
<1>5. ASSUME NEW s \in Session,
             ReceiveState(s) \/ ReceiveVersion(s) \/ ReceiveGarbled(s) \/ ReadError(s)
             \/ Written(s) \/ WriteError(s)
      PROVE  BrokenWasAccepted'
  BY <1>5 DEF ReceiveState, ReceiveVersion, ReceiveGarbled, Receives, ReadError, Written,
              WriteError, BrokenWasAccepted, Connected
<1>6. CASE UNCHANGED vars
  BY <1>6 DEF vars, BrokenWasAccepted, Connected
<1> QED
  BY <1>2, <1>3, <1>4, <1>5, <1>6 DEF Next, Handle

(* What a step does to the reads of another session, and of its own.       *)
LEMMA OthersReadOn ==
  ASSUME IInv, BrokenWasAccepted, NEW s \in Session, broken[s], [Next]_vars
  PROVE  /\ broken'[s]
         /\ Reading(s) \/ (lines'[s] = lines[s] /\ reading'[s] = reading[s])
<1>1. /\ broken \in [Session -> BOOLEAN] /\ reading \in [Session -> BOOLEAN]
      /\ lines \in [Session -> Seq(Line)] /\ Connected(s)
  BY DEF IInv, TypeOK, BrokenWasAccepted
<1>2. ASSUME NEW r \in Session, SendLine(r) \/ Break(r) \/ Accept(r)
      PROVE  broken'[s] /\ lines'[s] = lines[s] /\ reading'[s] = reading[s]
  BY <1>1, <1>2 DEF SendLine, Break, Accept
<1>3. ASSUME NEW r \in Session, Reading(r)
      PROVE  broken'[s] /\ (r # s => lines'[s] = lines[s] /\ reading'[s] = reading[s])
  BY <1>1, <1>3 DEF Reading, ReceiveJoin, ReceiveState, ReceiveVersion, ReceiveGarbled,
                    Receives, ReadError
<1>4. ASSUME NEW r \in Session, Written(r) \/ WriteError(r)
      PROVE  UNCHANGED <<broken, lines, reading>>
  BY <1>4 DEF Written, WriteError
<1>5. CASE UNCHANGED vars
  BY <1>5 DEF vars
<1> QED
  BY <1>2, <1>3, <1>4, <1>5 DEF Next, Handle, Reading

LEMMA BrokenReadsLess ==
  ASSUME IInv, NEW s \in Session, Reading(s)
  PROVE  Len(lines'[s]) < Len(lines[s]) \/ ~ reading'[s]
<1>1. reading \in [Session -> BOOLEAN] /\ lines \in [Session -> Seq(Line)]
  BY DEF IInv, TypeOK
<1>2. CASE ReadError(s)
  BY <1>1, <1>2 DEF ReadError
<1>3. ASSUME NEW command, Receives(s, command)
      PROVE  Len(lines'[s]) < Len(lines[s])
  <2>1. lines[s] \in Seq(Line) /\ lines[s] # <<>> /\ lines'[s] = Tail(lines[s])
    BY <1>1, <1>3 DEF Receives
  <2> QED
    BY <2>1
<1> QED
  BY <1>2, <1>3 DEF Reading, ReceiveJoin, ReceiveState, ReceiveVersion, ReceiveGarbled

LEMMA GroupsSuffice ==
  ASSUME IInv
  PROVE  GroupsAreFound
<1> DEFINE Used == {groups[n] : n \in DOMAIN groups}
<1> SUFFICES ASSUME NEW name \in GroupName
             PROVE  \E g \in GroupId : GotGroup(name, g)
  BY DEF GroupsAreFound
<1>1. groups \in [DOMAIN groups -> GroupId] /\ DOMAIN groups \subseteq GroupName
  BY DEF IInv, TypeOK
<1>2. \A s \in Session : group[s] \in Used \cup {NoGroup}
  BY DEF IInv, Attached, Acquainted
<1>3. CASE name \in DOMAIN groups
  BY <1>1, <1>3 DEF GotGroup
<1>4. CASE name \notin DOMAIN groups
  <2>1. IsFiniteSet(DOMAIN groups) /\ Cardinality(DOMAIN groups) < Cardinality(GroupName)
    <3>1. DOMAIN groups # GroupName
      BY <1>4
    <3>2. /\ IsFiniteSet(DOMAIN groups)
          /\ Cardinality(DOMAIN groups) <= Cardinality(GroupName)
          /\ Cardinality(DOMAIN groups) # Cardinality(GroupName)
      BY <1>1, <3>1, GroupIdAssumption, FS_Subset
    <3>3. Cardinality(DOMAIN groups) \in Nat /\ Cardinality(GroupName) \in Nat
      BY <3>2, GroupIdAssumption, FS_CardinalityType
    <3> QED
      BY <3>2, <3>3
  <2>2. IsFiniteSet(Used) /\ Cardinality(Used) <= Cardinality(DOMAIN groups)
    <3> DEFINE f == [n \in DOMAIN groups |-> groups[n]]
    <3>1. Used = {f[n] : n \in DOMAIN groups}
      OBVIOUS
    <3>2. f \in Surjection(DOMAIN groups, Used)
      BY DEF Surjection
    <3> HIDE DEF f, Used
    <3> QED
      BY <2>1, <3>2, FS_Surjection
  <2>3. Used \subseteq GroupId /\ Used # GroupId
    <3>1. Used \subseteq GroupId
      BY <1>1
    <3>2. Cardinality(Used) # Cardinality(GroupId)
      <4>1. Cardinality(Used) \in Nat /\ Cardinality(DOMAIN groups) \in Nat
            /\ Cardinality(GroupName) \in Nat /\ Cardinality(GroupId) \in Nat
        BY <2>1, <2>2, GroupIdAssumption, FS_CardinalityType
      <4> HIDE DEF Used
      <4> QED
        BY <2>1, <2>2, <4>1, GroupIdAssumption
    <3> HIDE DEF Used
    <3> QED
      BY <3>1, <3>2
  <2>4. PICK g \in GroupId : g \notin Used
    BY <2>3
  <2>5. g # NoGroup
    BY NamesAssumption
  <2> QED
    BY <1>2, <1>4, <2>4, <2>5 DEF GotGroup
<1> QED
  BY <1>3, <1>4

LEMMA AlwaysAccepted == Spec => [](IInv /\ BrokenWasAccepted)
<1>1. Init => IInv /\ BrokenWasAccepted
  BY InitInvariant DEF Init, BrokenWasAccepted
<1>2. IInv /\ BrokenWasAccepted /\ [Next]_vars => (IInv /\ BrokenWasAccepted)'
  BY NextInvariant, NextAccepted
<1> QED
  BY <1>1, <1>2, PTL DEF Spec

(* A session that stopped reading after its connection failed is in no     *)
(* group and never gets into one again, whatever was queued or buffered.   *)
(* (session.cpp: the three leaves; group.cpp: leave)                       *)
THEOREM GoneForGood ==
  ASSUME NEW s \in Session
  PROVE  Spec => [](Gone(s) => []InNoGroup(s))
<1>1. IInv /\ BrokenWasAccepted /\ Gone(s) /\ [Next]_vars => Gone(s)'
  <2> SUFFICES ASSUME IInv, BrokenWasAccepted, Gone(s), [Next]_vars PROVE Gone(s)'
    OBVIOUS
  <2>1. ~ Reading(s)
    BY DEF Gone, Reading, ReceiveJoin, ReceiveState, ReceiveVersion, ReceiveGarbled, Receives,
           ReadError
  <2> QED
    BY <2>1, OthersReadOn DEF Gone
<1>2. IInv /\ Gone(s) => InNoGroup(s)
  BY DEF IInv, ReceiversRead, Gone, InNoGroup
<1> QED
  BY <1>1, <1>2, AlwaysAccepted, PTL DEF Spec

(* After a failure a session only has the lines that were received before, *)
(* and reads them or the error at last, never without an object for a      *)
(* group it joins.  What BrokenLeaves needs beyond that is that the        *)
(* io_context runs the handlers.  (session.cpp: receive_command;           *)
(* group.cpp: get_group)                                                   *)
THEOREM BrokenReadToTheEnd == Spec => []GroupsAreFound /\ [][BrokenMovesOn]_vars
<1>1. IInv => GroupsAreFound
  BY GroupsSuffice
<1>2. IInv /\ BrokenWasAccepted /\ [Next]_vars => [BrokenMovesOn]_vars
  <2> SUFFICES ASSUME IInv, BrokenWasAccepted, [Next]_vars, NEW s \in Session, broken[s]
               PROVE  /\ broken'[s]
                      /\ Reading(s) => Len(lines'[s]) < Len(lines[s]) \/ ~ reading'[s]
                      /\ ~ Reading(s) => lines'[s] = lines[s] /\ reading'[s] = reading[s]
    BY DEF BrokenMovesOn
  <2>1. broken'[s] /\ (Reading(s) \/ (lines'[s] = lines[s] /\ reading'[s] = reading[s]))
    BY OthersReadOn
  <2>2. Reading(s) => Len(lines'[s]) < Len(lines[s]) \/ ~ reading'[s]
    BY BrokenReadsLess
  <2> QED
    BY <2>1, <2>2
<1> QED
  BY <1>1, <1>2, AlwaysAccepted, PTL DEF Spec

-----------------------------------------------------------------------------
(* The server implements the relay.                                        *)

(* Who stays where it was is the same member as before.                    *)
LEMMA MemberKept ==
  ASSUME UNCHANGED <<receivers, named>>
  PROVE  Member' = Member
BY DEF Member

(* Who leaves is in no group, and nobody else moves.                       *)
LEMMA MemberLeaves ==
  ASSUME IInv, NEW s \in Session, group[s] # NoGroup, LeaveGroup(s), named' = named
  PROVE  Member' = [Member EXCEPT ![s] = NoGroup]
<1>1. \A g \in GroupId : receivers'[g] = receivers[g] \ {s}
  BY LeaveGroupKeeps
<1>2. Member' = [r \in Session |-> IF r = s THEN NoGroup ELSE Member[r]]
  BY <1>1 DEF Member
<1> QED
  BY <1>2 DEF Member

(* Who joins is in the group it named, and nobody else moves.              *)
LEMMA MemberJoins ==
  ASSUME NEW s \in Session, NEW name, NEW g \in GroupId,
         named \in [Session -> GroupName \cup {NoGroup}],
         named' = [named EXCEPT ![s] = name], s \in receivers'[g],
         \A h \in GroupId : receivers'[h] \ {s} = receivers[h] \ {s}
  PROVE  Member' = [Member EXCEPT ![s] = name]
<1>1. Member'[s] = name
  BY DEF Member
<1>2. \A r \in Session \ {s} : Member'[r] = Member[r]
  <2> SUFFICES ASSUME NEW r \in Session \ {s} PROVE Member'[r] = Member[r]
    OBVIOUS
  <2>1. \A h \in GroupId : r \in receivers'[h] <=> r \in receivers[h]
    BY Zenon
  <2>2. named'[r] = named[r]
    OBVIOUS
  <2> QED
    BY <2>1, <2>2 DEF Member
<1> QED
  BY <1>1, <1>2 DEF Member

(* The members of the group a session named are the receivers of the       *)
(* object it points to, also when it has left the group.                   *)
LEMMA MembersAreReceivers ==
  ASSUME IInv, NEW s \in Session, named[s] # NoGroup
  PROVE  {r \in Session : Member[r] = named[s]} = receivers[group[s]]
<1>1. /\ named[s] \in DOMAIN groups /\ groups[named[s]] = group[s]
      /\ group[s] \in GroupId /\ receivers[group[s]] \subseteq Session
  BY DEF IInv, TypeOK, Attached, Acquainted
<1>2. ASSUME NEW r \in receivers[group[s]] PROVE Member[r] = named[s]
  <2>1. named[r] \in DOMAIN groups /\ groups[named[r]] = group[s] /\ r \in Session
    BY <1>1, <1>2 DEF IInv, OneObjectPerName
  <2>2. named[r] = named[s]
    BY <1>1, <2>1 DEF IInv, OneObjectPerName
  <2> QED
    BY <1>1, <1>2, <2>1, <2>2 DEF Member
<1>3. ASSUME NEW r \in Session, Member[r] = named[s] PROVE r \in receivers[group[s]]
  <2>1. PICK g \in GroupId : r \in receivers[g] /\ named[r] = named[s]
    BY <1>3 DEF Member
  <2>2. groups[named[s]] = g
    BY <2>1 DEF IInv, OneObjectPerName
  <2> QED
    BY <1>1, <2>1, <2>2
<1> QED
  BY <1>1, <1>2, <1>3

(* What send_data queues is mailed.                                        *)
LEMMA SendDataMails ==
  ASSUME NEW to, NEW m, SendData(to, m)
  PROVE  Relay!Mail(to, m)
BY DEF SendData, Relay!Mail

(* The start of the server is the start of the relay.                      *)
LEMMA InitRelay == Init => Relay!Init
BY DEF Init, Relay!Init, Member

(* A step of the clients changes nothing the relay shows; each handler is  *)
(* one step of it.                                                         *)
LEMMA NextRelay == IInv /\ [Next]_vars => [Relay!Next]_(Relay!relayVars)
<1> SUFFICES ASSUME IInv, [Next]_vars PROVE Relay!Next \/ UNCHANGED Relay!relayVars
  OBVIOUS
<1>1. ASSUME NEW s \in Session, SendLine(s) \/ Break(s)
      PROVE  UNCHANGED Relay!relayVars
  BY <1>1, MemberKept DEF SendLine, Break, registry, Relay!relayVars
<1>2. ASSUME NEW s \in Session, Accept(s)
      PROVE  Relay!Enter(s)
  <2>1. PICK g \in GroupId : receivers' = [receivers EXCEPT ![g] = @ \cup {s}]
    BY <1>2 DEF Accept
  <2>2. /\ named' = [named EXCEPT ![s] = Default] /\ named[s] = NoGroup
        /\ UNCHANGED <<queue, inbox>>
    BY <1>2 DEF Accept, Connected
  <2>3. receivers \in [GroupId -> SUBSET Session] /\ named \in [Session -> GroupName \cup {NoGroup}]
    BY DEF IInv, TypeOK
  <2>4. s \in receivers'[g] /\ \A h \in GroupId : receivers'[h] \ {s} = receivers[h] \ {s}
    BY <2>1, <2>3
  <2>5. Member' = [Member EXCEPT ![s] = Default]
    BY <2>2, <2>3, <2>4, MemberJoins
  <2> QED
    BY <2>2, <2>5 DEF Relay!Enter
<1>3. ASSUME NEW s \in Session, ReceiveJoin(s)
      PROVE  \E name \in GroupName : Relay!Join(s, name)
  <2> DEFINE name == Head(lines[s]).group
             old == group[s]
  <2>1. /\ Receives(s, "join") /\ SendData({s}, [status |-> "ok"])
        /\ named' = [named EXCEPT ![s] = name]
    BY <1>3 DEF ReceiveJoin
  <2>2. PICK g \in GroupId :
          \/ g = old /\ receivers' = [receivers EXCEPT ![g] = @ \cup {s}]
          \/ g # old /\ receivers' = [receivers EXCEPT ![g] = @ \cup {s}, ![old] = @ \ {s}]
    BY <1>3 DEF ReceiveJoin
  <2>3. /\ name \in GroupName /\ named[s] # NoGroup /\ old \in GroupId
        /\ inbox' = inbox
    BY <2>1, ReceivesKeeps, NamesAssumption DEF Line
  <2>4. receivers \in [GroupId -> SUBSET Session] /\ named \in [Session -> GroupName \cup {NoGroup}]
    BY DEF IInv, TypeOK
  <2>5. s \in receivers'[g] /\ \A h \in GroupId : receivers'[h] \ {s} = receivers[h] \ {s}
    <3>1. CASE g = old
      BY <2>2, <2>4, <3>1
    <3>2. CASE g # old
      <4>1. receivers' = [receivers EXCEPT ![g] = receivers[g] \cup {s}, ![old] = receivers[old] \ {s}]
        BY <2>2, <3>2
      <4> QED
        BY <2>3, <2>4, <3>2, <4>1
    <3> QED
      BY <3>1, <3>2
  <2>6. Member' = [Member EXCEPT ![s] = name]
    BY <2>1, <2>4, <2>5, MemberJoins
  <2>7. [status |-> "ok"] \in Replies /\ Relay!Mail({s}, [status |-> "ok"])
    BY <2>1, SendDataMails DEF Replies
  <2> QED
    BY <2>1, <2>3, <2>6, <2>7 DEF Relay!Join
<1>4. ASSUME NEW s \in Session, ReceiveState(s)
      PROVE  Relay!Broadcast(s)
  <2> DEFINE m == [status |-> "state", n |-> Head(lines[s]).n, group |-> named[s]]
  <2>1. /\ Receives(s, "state") /\ SendData(receivers[group[s]], m)
        /\ UNCHANGED <<registry, group, named>>
    BY <1>4, NamesAssumption DEF ReceiveState
  <2>2. named[s] \in GroupName /\ named[s] # NoGroup /\ inbox' = inbox
    BY <2>1, ReceivesKeeps, NamesAssumption
  <2>3. Head(lines[s]).n \in 1 .. MaxLines
    BY <2>1, ReceivesKeeps DEF Line
  <2>4. m \in State /\ m.group = named[s]
    BY <2>2, <2>3 DEF State
  <2>5. Relay!Mail({r \in Session : Member[r] = m.group}, m)
    <3>1. {r \in Session : Member[r] = m.group} = receivers[group[s]]
      BY <2>2, MembersAreReceivers
    <3>2. Relay!Mail(receivers[group[s]], m)
      BY <2>1, SendDataMails
    <3> HIDE DEF m
    <3> QED
      BY <3>1, <3>2
  <2>6. Member' = Member /\ named' = named
    BY <2>1, MemberKept DEF registry
  <2> QED
    BY <2>2, <2>4, <2>5, <2>6 DEF Relay!Broadcast
<1>5. ASSUME NEW s \in Session, ReceiveVersion(s)
      PROVE  Relay!Reply(s)
  <2>1. /\ SendData({s}, [status |-> "version"]) /\ UNCHANGED <<registry, named, inbox>>
    BY <1>5 DEF ReceiveVersion, Receives
  <2>2. [status |-> "version"] \in Replies /\ Relay!Mail({s}, [status |-> "version"])
    BY <2>1, SendDataMails DEF Replies
  <2>3. Member' = Member
    BY <2>1, MemberKept DEF registry
  <2> QED
    BY <2>1, <2>2, <2>3 DEF Relay!Reply
<1>6. ASSUME NEW s \in Session, ReceiveGarbled(s)
      PROVE  Relay!Leave(s)
  <2>1. /\ Receives(s, "garbled") /\ SendData({s}, [status |-> "error"]) /\ LeaveGroup(s)
        /\ UNCHANGED <<named, inbox>>
    BY <1>6 DEF ReceiveGarbled, Receives
  <2>2. Member' = [Member EXCEPT ![s] = NoGroup]
    BY <2>1, MemberLeaves, ReceivesKeeps
  <2>3. [status |-> "error"] \in Replies /\ Relay!Mail({s}, [status |-> "error"])
    BY <2>1, SendDataMails DEF Replies
  <2> QED
    BY <2>1, <2>2, <2>3 DEF Relay!Leave
<1>7. ASSUME NEW s \in Session, ReadError(s) \/ WriteError(s)
      PROVE  Relay!Leave(s)
  <2>1. /\ LeaveGroup(s) /\ (reading[s] \/ writing[s])
        /\ UNCHANGED <<named, queue, inbox>>
    BY <1>7 DEF ReadError, WriteError
  <2>2. group[s] # NoGroup
    BY <2>1 DEF IInv, Attached
  <2>3. Member' = [Member EXCEPT ![s] = NoGroup]
    BY <2>1, <2>2, MemberLeaves
  <2> QED
    BY <2>1, <2>3 DEF Relay!Leave
<1>8. ASSUME NEW s \in Session, Written(s)
      PROVE  Relay!Deliver(s)
  <2>1. queue[s] # <<>>
    BY <1>8 DEF Written, IInv, QueueMoves
  <2>2. Member' = Member
    BY <1>8, MemberKept DEF Written, registry
  <2> QED
    BY <1>8, <2>1, <2>2 DEF Written, Relay!Deliver
<1>9. CASE UNCHANGED vars
  BY <1>9 DEF vars, registry, Relay!relayVars, Member
<1> QED
  BY <1>1, <1>2, <1>3, <1>4, <1>5, <1>6, <1>7, <1>8, <1>9 DEF Next, Handle, Relay!Next

(* Whatever the registry, the objects and the queues do, the clients see a *)
(* relay: ImplementsRelay.                                                 *)
THEOREM ServerIsARelay == Spec => ImplementsRelay
<1>1. Init => Relay!Init
  BY InitRelay
<1>2. IInv /\ [Next]_vars => [Relay!Next]_(Relay!relayVars)
  BY NextRelay
<1> QED
  BY <1>1, <1>2, Invariance, PTL DEF Spec, ImplementsRelay, Relay!Spec

-----------------------------------------------------------------------------
(* The order of the states.  A state gets its place when the server        *)
(* handles it: it goes behind everything in every mailbox it is put into.  *)
(* What the place is does not matter, only that there is one, the same for *)
(* all clients (Ranked), and that no state is handled twice (Fresh).       *)

Mail(s) == inbox[s] \o queue[s]

(* The states among the lines have numbers of their own, which no mail has.*)
Fresh ==
  /\ \A s \in Session : \A i \in 1 .. Len(lines[s]) :
       lines[s][i].command = "state" =>
         /\ lines[s][i].n \in 1 .. sent
         /\ \A r \in Session : \A j \in 1 .. Len(Mail(r)) :
              Mail(r)[j].status = "state" => Mail(r)[j].n # lines[s][i].n
         /\ \A r \in Session : \A j \in 1 .. Len(lines[r]) :
              lines[r][j].command = "state" /\ lines[r][j].n = lines[s][i].n => r = s /\ j = i
  /\ \A r \in Session : \A j \in 1 .. Len(Mail(r)) :
       Mail(r)[j].status = "state" => Mail(r)[j].n \in 1 .. sent

Ascending(ls, rank) ==
  \A i, j \in 1 .. Len(ls) :
    i < j /\ ls[i].status = "state" /\ ls[j].status = "state" => rank[ls[i].n] < rank[ls[j].n]

Ranked ==
  \E top \in Nat : \E rank \in [1 .. MaxLines -> 0 .. top] :
    \A s \in Session : Ascending(Mail(s), rank)

OIInv == IInv /\ Fresh /\ Ranked

LEMMA InitOrder == Init => Fresh /\ Ranked
<1> SUFFICES ASSUME Init PROVE Fresh /\ Ranked
  OBVIOUS
<1>1. \A s \in Session : lines[s] = <<>> /\ Mail(s) = <<>>
  BY DEF Init, Mail
<1>2. Len(<<>>) = 0 /\ 1 .. 0 = {}
  OBVIOUS
<1>3. Fresh
  BY <1>1, <1>2 DEF Fresh
<1>4. [n \in 1 .. MaxLines |-> 0] \in [1 .. MaxLines -> 0 .. 0]
  OBVIOUS
<1>5. \A s \in Session : Ascending(Mail(s), [n \in 1 .. MaxLines |-> 0])
  BY <1>1, <1>2 DEF Ascending
<1> QED
  BY <1>3, <1>4, <1>5 DEF Ranked

(* A message goes from the front of one sequence to the end of another, or *)
(* comes new at the end of the second.                                     *)
LEMMA ConcatAppend ==
  ASSUME NEW S, NEW s \in Seq(S), NEW t \in Seq(S), NEW m \in S
  PROVE  s \o Append(t, m) = Append(s \o t, m)
<1> DEFINE a == s \o Append(t, m)  b == Append(s \o t, m)
<1>1. a \in Seq(S) /\ b \in Seq(S) /\ Len(a) = Len(s) + Len(t) + 1 /\ Len(b) = Len(a)
  OBVIOUS
<1>2. \A i \in 1 .. Len(a) : a[i] = b[i]
  OBVIOUS
<1> HIDE DEF a, b
<1>3. a = b
  BY <1>1, <1>2, SeqEqual
<1> QED
  BY <1>3 DEF a, b

LEMMA ConcatHead ==
  ASSUME NEW S, NEW s \in Seq(S), NEW t \in Seq(S), t # <<>>
  PROVE  Append(s, Head(t)) \o Tail(t) = s \o t
<1> DEFINE a == Append(s, Head(t)) \o Tail(t)  b == s \o t
<1>1. Head(t) = t[1] /\ Head(t) \in S /\ Tail(t) \in Seq(S) /\ Len(Tail(t)) = Len(t) - 1
  OBVIOUS
<1>2. a \in Seq(S) /\ b \in Seq(S) /\ Len(a) = Len(s) + Len(t) /\ Len(b) = Len(a)
  BY <1>1
<1>3. \A i \in 1 .. Len(a) : a[i] = b[i]
  BY <1>1
<1> HIDE DEF a, b
<1>4. a = b
  BY <1>2, <1>3, SeqEqual
<1> QED
  BY <1>4 DEF a, b

(* Mail is a sequence of messages.                                         *)
LEMMA MailIsMessages ==
  ASSUME IInv, NEW s \in Session
  PROVE  /\ Mail(s) \in Seq(Message)
         /\ \A j \in 1 .. Len(Mail(s)) :
              Mail(s)[j].status = "state" => Mail(s)[j].n \in 1 .. MaxLines
<1>1. Mail(s) \in Seq(Message)
  BY DEF Mail, IInv, TypeOK
<1>2. \A m \in Message : m.status = "state" => m.n \in 1 .. MaxLines
  BY DEF Message, Replies, State
<1> QED
  BY <1>1, <1>2

(* Lines that are taken from the front or lost with the connection leave   *)
(* the numbers of the others apart.                                        *)
LEMMA LinesStayFresh ==
  ASSUME Fresh,
         \A s \in Session : \E d \in Nat : \A i \in 1 .. Len(lines'[s]) :
           i + d \in 1 .. Len(lines[s]) /\ lines'[s][i] = lines[s][i + d],
         NEW s \in Session, NEW i \in 1 .. Len(lines'[s]), lines'[s][i].command = "state"
  PROVE  /\ lines'[s][i].n \in 1 .. sent
         /\ \A r \in Session : \A j \in 1 .. Len(Mail(r)) :
              Mail(r)[j].status = "state" => Mail(r)[j].n # lines'[s][i].n
         /\ \A r \in Session : \A j \in 1 .. Len(lines'[r]) :
              lines'[r][j].command = "state" /\ lines'[r][j].n = lines'[s][i].n => r = s /\ j = i
<1>1. PICK d \in Nat : \A k \in 1 .. Len(lines'[s]) :
                         k + d \in 1 .. Len(lines[s]) /\ lines'[s][k] = lines[s][k + d]
  OBVIOUS
<1>2. i + d \in 1 .. Len(lines[s]) /\ lines'[s][i] = lines[s][i + d]
  BY <1>1
<1>3. /\ lines[s][i + d].n \in 1 .. sent
      /\ \A r \in Session : \A j \in 1 .. Len(Mail(r)) :
           Mail(r)[j].status = "state" => Mail(r)[j].n # lines[s][i + d].n
      /\ \A r \in Session : \A j \in 1 .. Len(lines[r]) :
           lines[r][j].command = "state" /\ lines[r][j].n = lines[s][i + d].n
             => r = s /\ j = i + d
  <2>1. lines[s][i + d].command = "state"
    BY <1>2
  <2> QED
    BY <1>2, <2>1, Zenon DEF Fresh
<1>4. ASSUME NEW r \in Session, NEW j \in 1 .. Len(lines'[r]),
             lines'[r][j].command = "state", lines'[r][j].n = lines'[s][i].n
      PROVE  r = s /\ j = i
  <2>1. PICK e \in Nat : \A k \in 1 .. Len(lines'[r]) :
                           k + e \in 1 .. Len(lines[r]) /\ lines'[r][k] = lines[r][k + e]
    OBVIOUS
  <2>2. j + e \in 1 .. Len(lines[r]) /\ lines'[r][j] = lines[r][j + e]
    BY <2>1
  <2>3. r = s /\ j + e = i + d
    BY <2>2, <1>2, <1>3, <1>4
  <2>4. CASE e < d
    <3>1. j + d \in 1 .. Len(lines[s]) /\ lines'[s][j] = lines[s][j + d]
      BY <1>1, <2>3
    <3>2. lines[s][j + d] = lines[s][i + d]
      BY <3>1, <2>2, <2>3, <1>2
    <3>3. j + d = i + d
      BY <3>1, <3>2, <1>3, <1>2, SMTT(30)
    <3> QED
      BY <3>3, <2>3
  <2>5. CASE e >= d
    <3>1. i + e \in 1 .. Len(lines[s]) /\ lines'[s][i] = lines[s][i + e]
      BY <2>1, <2>3
    <3>2. i + e = i + d
      BY <3>1, <1>2, <1>3
    <3> QED
      BY <3>2, <2>3
  <2> QED
    BY <2>4, <2>5
<1> QED
  BY <1>2, <1>3, <1>4

(* A message put behind the mail of some clients gets the last place, if   *)
(* it is a state no mail has yet.                                          *)
LEMMA RankedExtends ==
  ASSUME IInv, Ranked, NEW to, NEW m \in Message,
         \A s \in Session : Mail(s)' = IF s \in to THEN Append(Mail(s), m) ELSE Mail(s),
         m.status = "state" =>
           \A s \in Session : \A j \in 1 .. Len(Mail(s)) :
             Mail(s)[j].status = "state" => Mail(s)[j].n # m.n
  PROVE  Ranked'
<1>0. PICK top \in Nat : \E rank \in [1 .. MaxLines -> 0 .. top] :
                           \A s \in Session : Ascending(Mail(s), rank)
  BY DEF Ranked
<1>1. PICK rank \in [1 .. MaxLines -> 0 .. top] : \A s \in Session : Ascending(Mail(s), rank)
  BY <1>0
<1>2. m.status = "state" => m.n \in 1 .. MaxLines
  BY DEF Message, Replies, State
<1> DEFINE higher == [n \in 1 .. MaxLines |->
                        IF m.status = "state" /\ n = m.n THEN top + 1 ELSE rank[n]]
<1>3. top + 1 \in Nat /\ higher \in [1 .. MaxLines -> 0 .. top + 1]
  OBVIOUS
<1>4. ASSUME NEW s \in Session
      PROVE  Ascending(Mail(s)', higher)
  <2>1. /\ Mail(s) \in Seq(Message)
        /\ \A j \in 1 .. Len(Mail(s)) :
             Mail(s)[j].status = "state" => Mail(s)[j].n \in 1 .. MaxLines
    BY MailIsMessages
  <2>2. \A j \in 1 .. Len(Mail(s)) :
          Mail(s)[j].status = "state" =>
            higher[Mail(s)[j].n] = rank[Mail(s)[j].n] /\ rank[Mail(s)[j].n] \in 0 .. top
    BY <2>1, <1>1
  <2>3. Ascending(Mail(s), higher)
    BY <2>1, <2>2, <1>1 DEF Ascending
  <2>4. CASE s \in to
    <3>1. /\ Mail(s)' = Append(Mail(s), m) /\ Len(Mail(s)') = Len(Mail(s)) + 1
          /\ Mail(s)'[Len(Mail(s)) + 1] = m
          /\ \A j \in 1 .. Len(Mail(s)) : Mail(s)'[j] = Mail(s)[j]
      BY <2>4, <2>1
    <3>2. m.status = "state" => higher[m.n] = top + 1
      BY <1>2
    <3> SUFFICES ASSUME NEW i \in 1 .. Len(Mail(s)) + 1, NEW j \in 1 .. Len(Mail(s)) + 1, i < j,
                        Mail(s)'[i].status = "state", Mail(s)'[j].status = "state"
                 PROVE  higher[Mail(s)'[i].n] < higher[Mail(s)'[j].n]
      BY <3>1, Zenon DEF Ascending
    <3> HIDE DEF higher
    <3>3. Len(Mail(s)) \in Nat
      BY <2>1
    <3>4. CASE j = Len(Mail(s)) + 1
      BY <3>1, <3>2, <3>3, <3>4, <2>2
    <3>5. CASE j # Len(Mail(s)) + 1
      <4>1. i \in 1 .. Len(Mail(s)) /\ j \in 1 .. Len(Mail(s))
        BY <3>3, <3>5
      <4> QED
        BY <4>1, <3>1, <2>3 DEF Ascending
    <3> QED
      BY <3>4, <3>5
  <2>5. CASE s \notin to
    BY <2>5, <2>3
  <2> QED
    BY <2>4, <2>5
<1> QED
  BY <1>3, <1>4 DEF Ranked

(* A step of a session or of the network: it may take lines and queue one  *)
(* message.                                                                *)
LEMMA OrderExtends ==
  ASSUME IInv, Fresh, Ranked, UNCHANGED sent,
         \A s \in Session : \E d \in Nat : \A i \in 1 .. Len(lines'[s]) :
           i + d \in 1 .. Len(lines[s]) /\ lines'[s][i] = lines[s][i + d],
         NEW to, NEW m \in Message,
         \A s \in Session : Mail(s)' = IF s \in to THEN Append(Mail(s), m) ELSE Mail(s),
         m.status = "state" =>
           /\ m.n \in 1 .. sent
           /\ \A s \in Session : \A j \in 1 .. Len(Mail(s)) :
                Mail(s)[j].status = "state" => Mail(s)[j].n # m.n
           /\ \A s \in Session : \A i \in 1 .. Len(lines'[s]) :
                lines'[s][i].command = "state" => lines'[s][i].n # m.n
  PROVE  Fresh' /\ Ranked'
<1>1. Ranked'
  BY RankedExtends
<1>2. ASSUME NEW r \in Session, NEW j \in 1 .. Len(Mail(r)'), Mail(r)'[j].status = "state"
      PROVE  \/ m.status = "state" /\ Mail(r)'[j] = m
             \/ j \in 1 .. Len(Mail(r)) /\ Mail(r)'[j] = Mail(r)[j]
  <2>1. Mail(r) \in Seq(Message)
    BY MailIsMessages
  <2>2. CASE r \in to
    BY <2>1, <2>2, <1>2
  <2>3. CASE r \notin to
    BY <2>3, <1>2
  <2> QED
    BY <2>2, <2>3
<1>3. \A r \in Session : \A j \in 1 .. Len(Mail(r)') :
        Mail(r)'[j].status = "state" => Mail(r)'[j].n \in 1 .. sent'
  BY <1>2 DEF Fresh
<1>4. ASSUME NEW s \in Session, NEW i \in 1 .. Len(lines'[s]), lines'[s][i].command = "state"
      PROVE  /\ lines'[s][i].n \in 1 .. sent'
             /\ \A r \in Session : \A j \in 1 .. Len(Mail(r)') :
                  Mail(r)'[j].status = "state" => Mail(r)'[j].n # lines'[s][i].n
             /\ \A r \in Session : \A j \in 1 .. Len(lines'[r]) :
                  lines'[r][j].command = "state" /\ lines'[r][j].n = lines'[s][i].n
                    => r = s /\ j = i
  <2>1. /\ lines'[s][i].n \in 1 .. sent
        /\ \A r \in Session : \A j \in 1 .. Len(Mail(r)) :
             Mail(r)[j].status = "state" => Mail(r)[j].n # lines'[s][i].n
        /\ \A r \in Session : \A j \in 1 .. Len(lines'[r]) :
             lines'[r][j].command = "state" /\ lines'[r][j].n = lines'[s][i].n => r = s /\ j = i
    BY <1>4, LinesStayFresh
  <2> QED
    BY <2>1, <1>2, <1>4
<1>5. Fresh'
  BY <1>3, <1>4, Zenon DEF Fresh
<1> QED
  BY <1>1, <1>5

(* What send_data queues is the end of the mail.                           *)
LEMMA SendDataIsLast ==
  ASSUME IInv, NEW to, NEW m \in Message, SendData(to, m), UNCHANGED inbox, NEW s \in Session
  PROVE  Mail(s)' = IF s \in to THEN Append(Mail(s), m) ELSE Mail(s)
<1>1. inbox[s] \in Seq(Message) /\ queue[s] \in Seq(Message)
  BY DEF IInv, TypeOK
<1>2. queue'[s] = IF s \in to THEN Append(queue[s], m) ELSE queue[s]
  BY DEF SendData
<1>3. \A a, b \in Seq(Message) : a \o Append(b, m) = Append(a \o b, m)
  BY ConcatAppend
<1> QED
  BY <1>1, <1>2, <1>3 DEF Mail

(* Nothing is taken and nothing is queued.                                 *)
LEMMA OrderKept ==
  ASSUME IInv, Fresh, Ranked, UNCHANGED sent, \A s \in Session : Mail(s)' = Mail(s),
         \A s \in Session : \E d \in Nat : \A i \in 1 .. Len(lines'[s]) :
           i + d \in 1 .. Len(lines[s]) /\ lines'[s][i] = lines[s][i + d]
  PROVE  Fresh' /\ Ranked'
<1> DEFINE m == [status |-> "ok"]
<1>1. m \in Message /\ m.status # "state"
  BY DEF Message, Replies
<1> DEFINE to == {}
<1>2. \A s \in Session : Mail(s)' = IF s \in to THEN Append(Mail(s), m) ELSE Mail(s)
  OBVIOUS
<1> HIDE DEF m, to
<1> QED
  BY <1>1, <1>2, OrderExtends

(* The handler of a line takes it from the front.                          *)
LEMMA LineTaken ==
  ASSUME IInv, NEW s \in Session, NEW command, Receives(s, command)
  PROVE  /\ \A r \in Session : \E d \in Nat : \A i \in 1 .. Len(lines'[r]) :
              i + d \in 1 .. Len(lines[r]) /\ lines'[r][i] = lines[r][i + d]
         /\ Len(lines'[s]) = Len(lines[s]) - 1
         /\ \A i \in 1 .. Len(lines'[s]) :
              i + 1 \in 1 .. Len(lines[s]) /\ lines'[s][i] = lines[s][i + 1]
<1>1. /\ lines[s] \in Seq(Line) /\ lines[s] # <<>> /\ lines'[s] = Tail(lines[s])
      /\ \A r \in Session \ {s} : lines'[r] = lines[r]
  BY ReceivesKeeps DEF Receives, IInv, TypeOK
<1>2. /\ Len(lines'[s]) = Len(lines[s]) - 1
      /\ \A i \in 1 .. Len(lines'[s]) :
           i + 1 \in 1 .. Len(lines[s]) /\ lines'[s][i] = lines[s][i + 1]
  BY <1>1
<1>3. ASSUME NEW r \in Session
      PROVE  \E d \in Nat : \A i \in 1 .. Len(lines'[r]) :
               i + d \in 1 .. Len(lines[r]) /\ lines'[r][i] = lines[r][i + d]
  <2>1. CASE r = s
    BY <1>2, <2>1
  <2>2. CASE r # s
    <3>1. \A i \in 1 .. Len(lines'[r]) :
            i + 0 \in 1 .. Len(lines[r]) /\ lines'[r][i] = lines[r][i + 0]
      BY <1>1, <2>2
    <3> QED
      BY <3>1
  <2> QED
    BY <2>1, <2>2
<1> QED
  BY <1>2, <1>3

(* The handler of a line that is no state answers, which is no state.      *)
LEMMA AnswerKeepsOrder ==
  ASSUME IInv, Fresh, Ranked, NEW s \in Session, NEW command,
         Receives(s, command), NEW m \in Replies, SendData({s}, m)
  PROVE  Fresh' /\ Ranked'
<1>1. m \in Message /\ m.status # "state"
  BY DEF Message, Replies
<1>2. UNCHANGED <<sent, inbox>>
  BY DEF Receives
<1>3. \A r \in Session : Mail(r)' = IF r \in {s} THEN Append(Mail(r), m) ELSE Mail(r)
  BY <1>1, <1>2, SendDataIsLast
<1> QED
  BY <1>1, <1>2, <1>3, LineTaken, OrderExtends

(* A state that is handled gets the last place.                            *)
LEMMA StateKeepsOrder ==
  ASSUME IInv, Fresh, Ranked, NEW s \in Session, ReceiveState(s)
  PROVE  Fresh' /\ Ranked'
<1> DEFINE m == [status |-> "state", n |-> Head(lines[s]).n, group |-> named[s]]
<1>1. Receives(s, "state") /\ SendData(receivers[group[s]], m) /\ UNCHANGED <<sent, inbox>>
  BY NamesAssumption DEF ReceiveState, Receives
<1>2. /\ lines[s] \in Seq(Line) /\ lines[s] # <<>> /\ named[s] \in GroupName
      /\ Head(lines[s]) \in Line /\ Head(lines[s]).command = "state"
  BY <1>1, ReceivesKeeps
<1>3. lines[s][1] = Head(lines[s]) /\ 1 \in 1 .. Len(lines[s])
  BY <1>2
<1>4. m \in Message /\ m.n = lines[s][1].n
  <2>1. Head(lines[s]).n \in 1 .. MaxLines
    BY <1>2 DEF Line
  <2> QED
    BY <2>1, <1>2, <1>3 DEF Message, State
<1>5. /\ m.n \in 1 .. sent
      /\ \A r \in Session : \A j \in 1 .. Len(Mail(r)) :
           Mail(r)[j].status = "state" => Mail(r)[j].n # m.n
      /\ \A r \in Session : \A j \in 1 .. Len(lines[r]) :
           lines[r][j].command = "state" /\ lines[r][j].n = m.n => r = s /\ j = 1
  BY <1>2, <1>3, <1>4 DEF Fresh
<1>6. ASSUME NEW r \in Session, NEW i \in 1 .. Len(lines'[r]), lines'[r][i].command = "state"
      PROVE  lines'[r][i].n # m.n
  <2>1. CASE r = s
    <3>1. i + 1 \in 1 .. Len(lines[s]) /\ lines'[s][i] = lines[s][i + 1]
      BY <1>1, <2>1, LineTaken
    <3> QED
      BY <3>1, <2>1, <1>5, <1>6
  <2>2. CASE r # s
    <3>1. lines'[r] = lines[r]
      BY <1>1, <2>2, ReceivesKeeps
    <3> QED
      BY <3>1, <2>2, <1>5, <1>6
  <2> QED
    BY <2>1, <2>2
<1>7. \A r \in Session :
        Mail(r)' = IF r \in receivers[group[s]] THEN Append(Mail(r), m) ELSE Mail(r)
  <2> HIDE DEF m
  <2> QED
    BY <1>1, <1>4, SendDataIsLast
<1>8. \A r \in Session : \E d \in Nat : \A i \in 1 .. Len(lines'[r]) :
        i + d \in 1 .. Len(lines[r]) /\ lines'[r][i] = lines[r][i + d]
  BY <1>1, LineTaken
<1> HIDE DEF m
<1> QED
  BY <1>1, <1>4, <1>5, <1>6, <1>7, <1>8, OrderExtends, ZenonT(40)

(* A new line gets a number of its own.                                    *)
LEMMA SendLineKeepsOrder ==
  ASSUME IInv, Fresh, Ranked, NEW s \in Session, SendLine(s)
  PROVE  Fresh' /\ Ranked'
<1>1. PICK line \in Line : /\ line.command = "state" => line.n = sent'
                           /\ lines' = [lines EXCEPT ![s] = Append(@, line)]
  BY DEF SendLine
<1>2. sent' = sent + 1 /\ sent \in Nat /\ UNCHANGED <<inbox, queue>>
  BY LinesAssumption DEF SendLine, IInv, TypeOK
<1>3. lines[s] \in Seq(Line) /\ lines \in [Session -> Seq(Line)]
  BY DEF IInv, TypeOK
<1>4. \A r \in Session : Mail(r)' = Mail(r)
  BY <1>2 DEF Mail
<1>5. Ranked'
  BY <1>4 DEF Ranked
<1>6. ASSUME NEW r \in Session, NEW i \in 1 .. Len(lines'[r])
      PROVE  \/ r = s /\ i = Len(lines[s]) + 1 /\ lines'[r][i] = line
             \/ i \in 1 .. Len(lines[r]) /\ lines'[r][i] = lines[r][i]
  <2>1. CASE r = s
    BY <1>1, <1>3, <2>1
  <2>2. CASE r # s
    BY <1>1, <1>3, <2>2
  <2> QED
    BY <2>1, <2>2
<1>7. ASSUME NEW r \in Session, NEW i \in 1 .. Len(lines'[r]), lines'[r][i].command = "state"
      PROVE  /\ lines'[r][i].n \in 1 .. sent'
             /\ \A q \in Session : \A j \in 1 .. Len(Mail(q)') :
                  Mail(q)'[j].status = "state" => Mail(q)'[j].n # lines'[r][i].n
             /\ \A q \in Session : \A j \in 1 .. Len(lines'[q]) :
                  lines'[q][j].command = "state" /\ lines'[q][j].n = lines'[r][i].n
                    => q = r /\ j = i
  <2>1. CASE r = s /\ i = Len(lines[s]) + 1 /\ lines'[r][i] = line
    <3>1. lines'[r][i].n = sent + 1
      BY <2>1, <1>1, <1>2, <1>7
    <3>2. \A q \in Session : \A j \in 1 .. Len(Mail(q)') :
            Mail(q)'[j].status = "state" => Mail(q)'[j].n # sent + 1
      BY <1>2, <1>4 DEF Fresh
    <3>3. ASSUME NEW q \in Session, NEW j \in 1 .. Len(lines'[q]),
                 lines'[q][j].command = "state", lines'[q][j].n = sent + 1
          PROVE  q = r /\ j = i
      <4>1. j \in 1 .. Len(lines[q]) /\ lines'[q][j] = lines[q][j] => lines'[q][j].n \in 1 .. sent
        BY <3>3 DEF Fresh
      <4> QED
        BY <4>1, <3>3, <1>2, <1>6, <2>1
    <3> QED
      BY <3>1, <3>2, <3>3, <1>2
  <2>2. CASE i \in 1 .. Len(lines[r]) /\ lines'[r][i] = lines[r][i]
    <3>1. /\ lines[r][i].n \in 1 .. sent
          /\ \A q \in Session : \A j \in 1 .. Len(Mail(q)) :
               Mail(q)[j].status = "state" => Mail(q)[j].n # lines[r][i].n
          /\ \A q \in Session : \A j \in 1 .. Len(lines[q]) :
               lines[q][j].command = "state" /\ lines[q][j].n = lines[r][i].n => q = r /\ j = i
      BY <2>2, <1>7 DEF Fresh
    <3>2. ASSUME NEW q \in Session, NEW j \in 1 .. Len(lines'[q]),
                 lines'[q][j].command = "state", lines'[q][j].n = lines[r][i].n
          PROVE  q = r /\ j = i
      BY <3>1, <3>2, <1>1, <1>2, <1>6
    <3> QED
      BY <3>1, <3>2, <2>2, <1>2, <1>4
  <2> QED
    BY <2>1, <2>2, <1>6
<1>8. \A r \in Session : \A j \in 1 .. Len(Mail(r)') :
        Mail(r)'[j].status = "state" => Mail(r)'[j].n \in 1 .. sent'
  BY <1>2, <1>4 DEF Fresh
<1>9. Fresh'
  BY <1>7, <1>8, Zenon DEF Fresh
<1> QED
  BY <1>5, <1>9

(* The completed write takes from the front of the queue what it puts at   *)
(* the end of the inbox.                                                   *)
LEMMA WrittenKeepsMail ==
  ASSUME IInv, NEW s \in Session, Written(s), NEW r \in Session
  PROVE  Mail(r)' = Mail(r)
<1>1. /\ inbox' = [inbox EXCEPT ![s] = Append(@, Head(queue[s]))]
      /\ queue' = [queue EXCEPT ![s] = Tail(@)] /\ queue[s] # <<>>
  BY DEF Written, IInv, QueueMoves
<1>2. inbox[r] \in Seq(Message) /\ queue[r] \in Seq(Message)
  BY DEF IInv, TypeOK
<1>3. CASE r = s
  <2>1. inbox'[r] = Append(inbox[r], Head(queue[r])) /\ queue'[r] = Tail(queue[r])
    BY <1>1, <1>3 DEF IInv, TypeOK
  <2>2. Append(inbox[r], Head(queue[r])) \o Tail(queue[r]) = inbox[r] \o queue[r]
    BY <1>1, <1>2, <1>3, ConcatHead
  <2> QED
    BY <2>1, <2>2 DEF Mail
<1>4. CASE r # s
  BY <1>1, <1>4 DEF Mail, IInv, TypeOK
<1> QED
  BY <1>3, <1>4

(* Every step keeps the order.                                             *)
LEMMA NextOrder == OIInv /\ [Next]_vars => Fresh' /\ Ranked'
<1> SUFFICES ASSUME IInv, Fresh, Ranked, [Next]_vars PROVE Fresh' /\ Ranked'
  BY DEF OIInv
<1> DEFINE Shorter == \A r \in Session : \E d \in Nat : \A i \in 1 .. Len(lines'[r]) :
                        i + d \in 1 .. Len(lines[r]) /\ lines'[r][i] = lines[r][i + d]
<1>1. ASSUME UNCHANGED lines PROVE Shorter
  <2>1. \A r \in Session : \A i \in 1 .. Len(lines'[r]) :
          i + 0 \in 1 .. Len(lines[r]) /\ lines'[r][i] = lines[r][i + 0]
    BY <1>1
  <2> QED
    BY <2>1
<1>2. ASSUME NEW s \in Session, Break(s) PROVE Fresh' /\ Ranked'
  <2>1. PICK n \in 0 .. Len(lines[s]) : lines' = [lines EXCEPT ![s] = SubSeq(@, 1, n)]
    BY <1>2 DEF Break
  <2>2. lines \in [Session -> Seq(Line)] /\ lines[s] \in Seq(Line)
    BY DEF IInv, TypeOK
  <2>3. \A r \in Session : \A i \in 1 .. Len(lines'[r]) :
          i + 0 \in 1 .. Len(lines[r]) /\ lines'[r][i] = lines[r][i + 0]
    BY <2>1, <2>2
  <2>4. Shorter
    BY <2>3
  <2>5. UNCHANGED sent /\ \A r \in Session : Mail(r)' = Mail(r)
    BY <1>2 DEF Break, Mail
  <2> QED
    BY <2>4, <2>5, OrderKept
<1>3. ASSUME NEW s \in Session, Accept(s) \/ ReadError(s) \/ WriteError(s)
      PROVE  Fresh' /\ Ranked'
  <2>1. UNCHANGED <<lines, sent>> /\ \A r \in Session : Mail(r)' = Mail(r)
    BY <1>3 DEF Accept, ReadError, WriteError, Mail
  <2> QED
    BY <2>1, <1>1, OrderKept
<1>4. ASSUME NEW s \in Session, Written(s) PROVE Fresh' /\ Ranked'
  <2>1. UNCHANGED <<lines, sent>> /\ \A r \in Session : Mail(r)' = Mail(r)
    BY <1>4, WrittenKeepsMail DEF Written
  <2> QED
    BY <2>1, <1>1, OrderKept
<1>5. ASSUME NEW s \in Session, ReceiveJoin(s) \/ ReceiveVersion(s) \/ ReceiveGarbled(s)
      PROVE  Fresh' /\ Ranked'
  <2>1. /\ [status |-> "ok"] \in Replies /\ [status |-> "version"] \in Replies
        /\ [status |-> "error"] \in Replies
    BY DEF Replies
  <2>2. \/ Receives(s, "join") /\ SendData({s}, [status |-> "ok"])
        \/ Receives(s, "version") /\ SendData({s}, [status |-> "version"])
        \/ Receives(s, "garbled") /\ SendData({s}, [status |-> "error"])
    BY <1>5 DEF ReceiveJoin, ReceiveVersion, ReceiveGarbled
  <2> QED
    BY <2>1, <2>2, AnswerKeepsOrder
<1>6. CASE UNCHANGED vars
  <2>1. UNCHANGED <<lines, sent>> /\ \A r \in Session : Mail(r)' = Mail(r)
    BY <1>6 DEF vars, Mail
  <2> QED
    BY <2>1, <1>1, OrderKept
<1> QED
  BY <1>2, <1>3, <1>4, <1>5, <1>6, SendLineKeepsOrder, StateKeepsOrder DEF Next, Handle

(* The places of two states in the mail of a client are in the order of    *)
(* their ranks, so no other client is told of them the other way around.   *)
LEMMA RankedIsOneOrder == OIInv => StatesInOneOrder
<1> SUFFICES ASSUME IInv, Ranked PROVE StatesInOneOrder
  BY DEF OIInv
<1>0. PICK top \in Nat : \E rank \in [1 .. MaxLines -> 0 .. top] :
                           \A s \in Session : Ascending(Mail(s), rank)
  BY DEF Ranked
<1>1. PICK rank \in [1 .. MaxLines -> 0 .. top] : \A s \in Session : Ascending(Mail(s), rank)
  BY <1>0
<1> DEFINE sees(s, a, b) ==
      \E i, j \in 1 .. Len(Mail(s)) : i < j /\ Mail(s)[i] = a /\ Mail(s)[j] = b
<1>2. ASSUME NEW s \in Session, NEW a, NEW b, a.status = "state", b.status = "state",
             sees(s, a, b)
      PROVE  /\ rank[a.n] < rank[b.n] /\ rank[a.n] \in Nat /\ rank[b.n] \in Nat
  <2>1. PICK i \in 1 .. Len(Mail(s)), j \in 1 .. Len(Mail(s)) :
          i < j /\ Mail(s)[i] = a /\ Mail(s)[j] = b
    BY <1>2
  <2>2. a.n \in 1 .. MaxLines /\ b.n \in 1 .. MaxLines
    BY <2>1, <1>2, MailIsMessages
  <2>3. rank[a.n] < rank[b.n]
    BY <2>1, <1>1, <1>2 DEF Ascending
  <2> QED
    BY <2>2, <2>3
<1> DEFINE states(s) ==
      {Mail(s)[i] : i \in {k \in 1 .. Len(Mail(s)) : Mail(s)[k].status = "state"}}
<1> SUFFICES ASSUME NEW s \in Session, NEW r \in Session,
                    NEW a \in states(s), NEW b \in states(r), sees(s, a, b)
             PROVE  ~ sees(r, b, a)
  BY Zenon DEF StatesInOneOrder, Mail
<1>3. a.status = "state" /\ b.status = "state"
  OBVIOUS
<1> HIDE DEF sees
<1> QED
  BY <1>2, <1>3

(* Every client sees the states in the same order, whatever groups         *)
(* they are in and whatever their connections do.  (session.cpp: send_data,*)
(* handle_command; group.cpp: send_message)                                *)
THEOREM StatesAreInOneOrder == Spec => []StatesInOneOrder
<1>1. Init => OIInv
  BY InitInvariant, InitOrder DEF OIInv
<1>2. OIInv /\ [Next]_vars => OIInv'
  BY NextInvariant, NextOrder DEF OIInv
<1> QED
  BY <1>1, <1>2, RankedIsOneOrder, PTL DEF Spec

-----------------------------------------------------------------------------
(* The clients with the server.                                            *)

(* The i-th line finds the session in group g, which is in name now.       *)
LeadsAt(ls, name, i, g) ==
  \/ g = name /\ \A j \in 1 .. i - 1 : ls[j].command # "join"
  \/ \E k \in 1 .. i - 1 :
       /\ ls[k].command = "join" /\ ls[k].group = g
       /\ \A j \in k + 1 .. i - 1 : ls[j].command # "join"

Readable(ls, i) == \A j \in 1 .. i - 1 : ls[j].command # "garbled"

AimedAt(ls, name, cs, i) ==
  ls[i].command = "state" /\ Readable(ls, i) =>
    \E r \in cs : r.n = ls[i].n /\ \A g \in GroupName : LeadsAt(ls, name, i, g) => g \in r.aim

Aimed(ls, name, cs) == \A i \in 1 .. Len(ls) : AimedAt(ls, name, cs, i)

Ends(ls, name, t) ==
  Readable(ls, Len(ls) + 1) =>
    \A g \in GroupName : LeadsAt(ls, name, Len(ls) + 1, g) => g = t

-----------------------------------------------------------------------------
(* Lines that are read, written and lost.                                  *)

LEMMA NoLines ==
  ASSUME NEW name, NEW cs
  PROVE  Aimed(<<>>, name, cs) /\ Ends(<<>>, name, name)
<1>1. Len(<<>>) = 0
  OBVIOUS
<1>2. 1 .. 0 = {}
  OBVIOUS
<1> QED
  BY <1>1, <1>2 DEF Aimed, Ends, LeadsAt

LEMMA HeadIsAimed ==
  ASSUME NEW ls \in Seq(Line), ls # <<>>, NEW name \in GroupName, NEW cs,
         Aimed(ls, name, cs), Head(ls).command = "state"
  PROVE  \E r \in cs : r.n = Head(ls).n /\ name \in r.aim
<1>1. 1 \in 1 .. Len(ls) /\ ls[1] = Head(ls)
  OBVIOUS
<1>2. Readable(ls, 1) /\ LeadsAt(ls, name, 1, name)
  BY DEF Readable, LeadsAt
<1> QED
  BY <1>1, <1>2 DEF Aimed, AimedAt

LEMMA MoreCarried ==
  ASSUME NEW ls, NEW name, NEW cs, NEW ds, cs \subseteq ds, Aimed(ls, name, cs)
  PROVE  Aimed(ls, name, ds)
BY DEF Aimed, AimedAt

(* A line is handled that is not mixed.                                    *)
LEMMA TailLeads ==
  ASSUME NEW ls \in Seq(Line), ls # <<>>, NEW name, NEW next,
         \/ Head(ls).command = "join" /\ next = Head(ls).group
         \/ Head(ls).command # "join" /\ next = name,
         NEW i \in 1 .. Len(ls), NEW g, LeadsAt(Tail(ls), next, i, g)
  PROVE  LeadsAt(ls, name, i + 1, g)
<1> DEFINE tl == Tail(ls)
<1>0. Len(ls) \in Nat /\ ls[1] = Head(ls) /\ \A j \in 1 .. i - 1 : tl[j] = ls[j + 1]
  OBVIOUS
<1> HIDE DEF tl
<1>1. CASE g = next /\ \A j \in 1 .. i - 1 : tl[j].command # "join"
  <2>1. \A j \in 2 .. i : ls[j].command # "join"
    <3> SUFFICES ASSUME NEW j \in 2 .. i PROVE ls[j].command # "join"
      OBVIOUS
    <3>1. j - 1 \in 1 .. i - 1 /\ tl[j - 1] = ls[j]
      BY <1>0
    <3> QED
      BY <1>1, <3>1
  <2>2. CASE Head(ls).command = "join" /\ next = Head(ls).group
    BY <1>0, <1>1, <2>1, <2>2 DEF LeadsAt
  <2>3. CASE Head(ls).command # "join" /\ next = name
    <3>1. \A j \in 1 .. i : ls[j].command # "join"
      BY <1>0, <2>1, <2>3
    <3> QED
      BY <1>1, <2>3, <3>1 DEF LeadsAt
  <2> QED
    BY <2>2, <2>3
<1>2. CASE \E k \in 1 .. i - 1 :
             /\ tl[k].command = "join" /\ tl[k].group = g
             /\ \A j \in k + 1 .. i - 1 : tl[j].command # "join"
  <2>1. PICK k \in 1 .. i - 1 :
             /\ tl[k].command = "join" /\ tl[k].group = g
             /\ \A j \in k + 1 .. i - 1 : tl[j].command # "join"
    BY <1>2
  <2>2. k + 1 \in 1 .. i /\ ls[k + 1].command = "join" /\ ls[k + 1].group = g
    BY <1>0, <2>1
  <2>3. ASSUME NEW j \in k + 2 .. i PROVE ls[j].command # "join"
    <3>1. j - 1 \in 1 .. i - 1 /\ tl[j - 1] = ls[j] /\ j - 1 \in k + 1 .. i - 1
      BY <1>0
    <3> QED
      BY <2>1, <3>1
  <2> QED
    BY <2>2, <2>3 DEF LeadsAt
<1> QED
  BY <1>1, <1>2 DEF LeadsAt, tl

LEMMA LineHandled ==
  ASSUME NEW ls \in Seq(Line), ls # <<>>, NEW name, NEW next, NEW cs, NEW t,
         \/ Head(ls).command = "join" /\ next = Head(ls).group
         \/ Head(ls).command \notin {"join", "garbled"} /\ next = name
  PROVE  /\ Aimed(ls, name, cs) => Aimed(Tail(ls), next, cs)
         /\ Ends(ls, name, t) => Ends(Tail(ls), next, t)
<1> DEFINE tl == Tail(ls)
<1>0. /\ Len(ls) \in Nat /\ Len(ls) > 0 /\ ls[1] = Head(ls) /\ Len(tl) = Len(ls) - 1
      /\ \A j \in 1 .. Len(ls) - 1 : tl[j] = ls[j + 1]
  OBVIOUS
<1>1. \A i \in 1 .. Len(ls) : \A g : LeadsAt(tl, next, i, g) => LeadsAt(ls, name, i + 1, g)
  BY TailLeads
<1> HIDE DEF tl
<1>2. ASSUME NEW i \in 1 .. Len(ls), Readable(tl, i) PROVE Readable(ls, i + 1)
  <2> SUFFICES ASSUME NEW j \in 1 .. i PROVE ls[j].command # "garbled"
    BY DEF Readable
  <2>1. CASE j = 1
    BY <1>0, <2>1
  <2>2. CASE j # 1
    <3>1. j - 1 \in 1 .. i - 1 /\ tl[j - 1] = ls[j]
      BY <1>0, <2>2
    <3> QED
      BY <1>2, <3>1 DEF Readable
  <2> QED
    BY <2>1, <2>2
<1>3. ASSUME Aimed(ls, name, cs) PROVE Aimed(tl, next, cs)
  <2> SUFFICES ASSUME NEW i \in 1 .. Len(tl), tl[i].command = "state", Readable(tl, i)
               PROVE  \E r \in cs : r.n = tl[i].n /\
                        \A g \in GroupName : LeadsAt(tl, next, i, g) => g \in r.aim
    BY DEF Aimed, AimedAt
  <2>1. i \in 1 .. Len(ls) /\ i + 1 \in 1 .. Len(ls) /\ tl[i] = ls[i + 1]
    BY <1>0
  <2>2. Readable(ls, i + 1)
    BY <1>2, <2>1
  <2>3. PICK r \in cs : r.n = ls[i + 1].n /\
               \A g \in GroupName : LeadsAt(ls, name, i + 1, g) => g \in r.aim
    BY <1>3, <2>1, <2>2 DEF Aimed, AimedAt
  <2> QED
    BY <1>1, <2>1, <2>3
<1>4. ASSUME Ends(ls, name, t) PROVE Ends(tl, next, t)
  <2>1. Len(tl) + 1 = Len(ls) /\ Len(ls) \in 1 .. Len(ls)
    BY <1>0
  <2> QED
    BY <1>1, <1>2, <1>4, <2>1 DEF Ends
<1> QED
  BY <1>3, <1>4 DEF tl

(* What comes before a line decides where it finds the session.            *)
LEMMA SameBefore ==
  ASSUME NEW ls, NEW ms, NEW name, NEW cs, NEW i \in Nat,
         \A j \in 1 .. i - 1 : ls[j] = ms[j]
  PROVE  /\ Readable(ls, i) <=> Readable(ms, i)
         /\ \A g : LeadsAt(ls, name, i, g) <=> LeadsAt(ms, name, i, g)
         /\ ls[i] = ms[i] => (AimedAt(ls, name, cs, i) <=> AimedAt(ms, name, cs, i))
<1>1. Readable(ls, i) <=> Readable(ms, i)
  BY DEF Readable
<1>2. ASSUME NEW g PROVE LeadsAt(ls, name, i, g) <=> LeadsAt(ms, name, i, g)
  <2>1. ASSUME NEW k \in 1 .. i - 1, NEW j \in k + 1 .. i - 1 PROVE j \in 1 .. i - 1
    OBVIOUS
  <2> QED
    BY <2>1 DEF LeadsAt
<1> QED
  BY <1>1, <1>2 DEF AimedAt

LEMMA LinesLost ==
  ASSUME NEW ls \in Seq(Line), NEW name, NEW cs, NEW n \in 0 .. Len(ls),
         Aimed(ls, name, cs)
  PROVE  Aimed(SubSeq(ls, 1, n), name, cs)
<1> DEFINE ms == SubSeq(ls, 1, n)
<1>1. Len(ls) \in Nat /\ Len(ms) = n /\ \A j \in 1 .. n : ms[j] = ls[j]
  OBVIOUS
<1> HIDE DEF ms
<1>2. ASSUME NEW i \in 1 .. n PROVE AimedAt(ms, name, cs, i)
  <2>1. i \in Nat /\ i \in 1 .. Len(ls) /\ \A j \in 1 .. i - 1 : ms[j] = ls[j]
    BY <1>1
  <2>2. AimedAt(ls, name, cs, i)
    BY <2>1 DEF Aimed
  <2> QED
    BY <1>1, <2>1, <2>2, SameBefore
<1> QED
  BY <1>1, <1>2 DEF Aimed, ms

LEMMA LineWritten ==
  ASSUME NEW ls \in Seq(Line), NEW line \in Line, NEW name, NEW cs, NEW t, NEW next,
         Ends(ls, name, t),
         \/ line.command = "join" /\ next = line.group
         \/ line.command = "garbled"
         \/ line.command \notin {"join", "garbled"} /\ next = t
  PROVE  /\ Ends(Append(ls, line), name, next)
         /\ Aimed(ls, name, cs) /\
              (line.command = "state" => \E r \in cs : r.n = line.n /\ t \in r.aim)
              => Aimed(Append(ls, line), name, cs)
<1> DEFINE ms == Append(ls, line)
<1>1. /\ Len(ls) \in Nat /\ Len(ms) = Len(ls) + 1 /\ ms[Len(ls) + 1] = line
      /\ \A j \in 1 .. Len(ls) : ms[j] = ls[j]
  OBVIOUS
<1> HIDE DEF ms
<1>2. /\ Readable(ms, Len(ls) + 1) <=> Readable(ls, Len(ls) + 1)
      /\ \A g : LeadsAt(ms, name, Len(ls) + 1, g) <=> LeadsAt(ls, name, Len(ls) + 1, g)
  <2>1. Len(ls) + 1 \in Nat /\ \A j \in 1 .. (Len(ls) + 1) - 1 : ms[j] = ls[j]
    BY <1>1
  <2> QED
    BY <2>1, SameBefore
<1>3. Ends(ms, name, next)
  <2> SUFFICES ASSUME Readable(ms, Len(ls) + 2), NEW g \in GroupName,
                      LeadsAt(ms, name, Len(ls) + 2, g)
               PROVE  g = next
    BY <1>1 DEF Ends
  <2>1. Readable(ms, Len(ls) + 1) /\ line.command # "garbled"
    BY <1>1 DEF Readable
  <2>2. CASE line.command = "join"
    BY <1>1, <2>2 DEF LeadsAt
  <2>3. CASE line.command # "join"
    <3>1. LeadsAt(ms, name, Len(ls) + 1, g)
      BY <1>1, <2>3 DEF LeadsAt
    <3> QED
      BY <1>2, <2>1, <2>3, <3>1 DEF Ends
  <2> QED
    BY <2>2, <2>3
<1>4. ASSUME Aimed(ls, name, cs),
             line.command = "state" => \E r \in cs : r.n = line.n /\ t \in r.aim
      PROVE  Aimed(ms, name, cs)
  <2> SUFFICES ASSUME NEW i \in 1 .. Len(ls) + 1 PROVE AimedAt(ms, name, cs, i)
    BY <1>1 DEF Aimed
  <2>1. CASE i \in 1 .. Len(ls)
    <3>1. i \in Nat /\ \A j \in 1 .. i - 1 : ms[j] = ls[j]
      BY <1>1
    <3> QED
      BY <1>1, <1>4, <2>1, <3>1, SameBefore DEF Aimed
  <2>2. CASE i = Len(ls) + 1
    BY <1>1, <1>2, <1>4, <2>2 DEF AimedAt, Ends
  <2> QED
    BY <1>1, <2>1, <2>2
<1> QED
  BY <1>3, <1>4 DEF ms

-----------------------------------------------------------------------------
(* The invariant.                                                          *)

(* A client that is connected for the server knows the addon's part of it, *)
(* and one that is not has told it nothing.                                *)
StagesOf(c) ==
  /\ stage[c] \in {"version", "response"} \/ status[c] = "online" \/ pending[c] # {}
       => Connected(c)
  /\ ~ Connected(c) => told[c] = Default

Stages == \A c \in Client : StagesOf(c)

(* The id is what was told, or the join that tells it is being written,    *)
(* and what waits to be written is meant for both.                         *)
TellingOf(c) ==
  /\ ~ broken[c] /\ ~ Joining(c) => told[c] = id[c]
  /\ \A w \in pending[c] :
       /\ w.command = "join" => w.group = id[c]
       /\ w.command = "state" => told[c] \in w.aim /\ id[c] \in w.aim

Telling == \A c \in Client : TellingOf(c)

(* What the session will do with the lines of a client.                    *)
LinesOf(c) ==
  /\ reading[c] => Aimed(lines[c], named[c], carried)
  /\ reading[c] /\ ~ broken[c] => Ends(lines[c], named[c], told[c])

LinesLead == \A c \in Client : LinesOf(c)

(* A message relays a state to a group it is meant for.                    *)
Meant(m, cs) == m.status = "state" => \E r \in cs : r.n = m.n /\ m.group \in r.aim

MailOf(c) ==
  /\ \A i \in DOMAIN queue[c] : Meant(queue[c][i], carried)
  /\ \A i \in DOMAIN inbox[c] : Meant(inbox[c][i], carried)

MailIsMeant == \A c \in Client : MailOf(c)

SyncIInv ==
  /\ IInv /\ SyncTypeOK
  /\ Stages /\ Telling /\ LinesLead /\ MailIsMeant

-----------------------------------------------------------------------------
(* Every step is one of the server or of its clients.                      *)

LEMMA LinesWritten ==
  ASSUME SyncIInv, NEW c \in Client, Connected(c), ~ broken[c], NEW line, Arrive(c, line),
         line \in Line, line.command = "state" => line.n = sent'
  PROVE  SendLine(c)
BY DEF Arrive, SendLine

LEMMA WritesAreLines ==
  ASSUME SyncIInv, NEW c \in Client, NEW w \in pending[c], sent < MaxLines
  PROVE  LineOf(w, sent + 1) \in Line
<1>1. w \in StateWrite \cup JoinWrite /\ sent \in 0 .. MaxLines /\ sent + 1 \in 1 .. MaxLines
  BY LinesAssumption DEF SyncIInv, SyncTypeOK, TypeOK
<1>2. CASE w \in JoinWrite
  BY <1>1, <1>2 DEF LineOf, JoinWrite, Line
<1>3. CASE w \in StateWrite
  BY <1>1, <1>3 DEF LineOf, StateWrite, Line
<1> QED
  BY <1>1, <1>2, <1>3

LEMMA StepOfServer == SyncIInv /\ [SyncNext]_syncVars => [Next]_vars
<1> SUFFICES ASSUME SyncIInv, [SyncNext]_syncVars PROVE [Next]_vars
  OBVIOUS
<1>1. CASE UNCHANGED syncVars
  BY <1>1 DEF syncVars
<1>2. ASSUME NEW c \in Client, Move(c) \/ ReadVersion(c) \/ CannotSync(c) \/ UpdateGroup(c) \/ Post(c)
      PROVE  UNCHANGED vars
  BY <1>2 DEF Move, ReadVersion, CannotSync, UpdateGroup, Post
<1>3. ASSUME NEW c \in Client, Connect(c) PROVE Next
  BY <1>3 DEF Connect, Next, Handle, Client
<1>4. ASSUME NEW c \in Client, WriteVersion(c) PROVE Next
  <2>1. Connected(c)
    BY <1>4 DEF WriteVersion, SyncIInv, Stages, StagesOf
  <2>2. SendLine(c)
    BY <1>4, <2>1, LinesWritten DEF WriteVersion, Line
  <2> QED
    BY <2>2 DEF Next, Client
<1>5. ASSUME NEW c \in Client, WriteEnds(c) PROVE Next \/ UNCHANGED vars
  <2>1. Connected(c)
    BY <1>5 DEF WriteEnds, SyncIInv, Stages, StagesOf
  <2>2. ASSUME NEW w \in pending[c], WriteReturns(c, w) PROVE SendLine(c)
    <3>1. ~ broken[c] /\ Arrive(c, LineOf(w, sent + 1)) /\ sent < MaxLines /\ sent' = sent + 1
      BY <2>2 DEF WriteReturns, Arrive
    <3>2. LineOf(w, sent + 1).command = "state" => LineOf(w, sent + 1).n = sent'
      BY <3>1 DEF LineOf
    <3> QED
      BY <2>1, <3>1, <3>2, WritesAreLines, LinesWritten
  <2>3. ASSUME NEW w \in pending[c], NEW v \in pending[c], Mixed(c, v, w) PROVE SendLine(c)
    BY <2>1, <2>3, LinesWritten DEF Mixed, Line
  <2>4. ASSUME NEW w \in pending[c], JoinFails(c, w) \/ StateFails(c, w) PROVE UNCHANGED vars
    BY <2>4 DEF JoinFails, StateFails
  <2> QED
    BY <1>5, <2>2, <2>3, <2>4 DEF WriteEnds, Next, Client
<1>6. ASSUME NEW c \in Client, ServerStep(c) PROVE Next
  BY <1>6 DEF ServerStep, Reading, Next, Handle, Client
<1> QED
  BY <1>1, <1>2, <1>3, <1>4, <1>5, <1>6 DEF SyncNext, StartSync

(* Nobody is disconnected for the server by a step.                        *)
LEMMA ConnectionsStay ==
  ASSUME IInv, [Next]_vars, NEW c \in Client, Connected(c)
  PROVE  Connected(c)'
<1>1. named[c] \in GroupName /\ named \in [Session -> GroupName \cup {NoGroup}]
  BY DEF IInv, TypeOK, Connected, Client
<1>2. CASE named' = named
  BY <1>2 DEF Connected
<1>3. ASSUME NEW s \in Session, Accept(s) PROVE Connected(c)'
  <2>1. named' = [named EXCEPT ![s] = Default]
    BY <1>3 DEF Accept
  <2> QED
    BY <1>1, <2>1, NamesAssumption DEF Connected, Client
<1>4. ASSUME NEW s \in Session, ReceiveJoin(s) PROVE Connected(c)'
  <2>1. named' = [named EXCEPT ![s] = Head(lines[s]).group] /\ Receives(s, "join")
    BY <1>4 DEF ReceiveJoin
  <2>2. Head(lines[s]) \in Line /\ Head(lines[s]).command = "join"
    BY <2>1, ReceivesKeeps
  <2>3. Head(lines[s]).group \in GroupName
    BY <2>2 DEF Line
  <2> QED
    BY <1>1, <2>1, <2>3, NamesAssumption DEF Connected, Client
<1>5. ASSUME NEW s \in Session,
             \/ SendLine(s) \/ Break(s) \/ ReceiveState(s) \/ ReceiveVersion(s)
             \/ ReceiveGarbled(s) \/ ReadError(s) \/ Written(s) \/ WriteError(s)
      PROVE  named' = named
  BY <1>5 DEF SendLine, Break, ReceiveState, ReceiveVersion, ReceiveGarbled, ReadError,
              Written, WriteError
<1>6. CASE UNCHANGED vars
  BY <1>2, <1>6 DEF vars
<1> QED
  BY <1>2, <1>3, <1>4, <1>5, <1>6 DEF Next, Handle

-----------------------------------------------------------------------------
(* What the addon keeps of each client.                                    *)

LEMMA NewIdTyped ==
  ASSUME SyncTypeOK, NEW c \in Client
  PROVE  NewId(c) \in GroupName
<1>1. place[c] \in [use_custom_id : BOOLEAN, custom_id : CustomId, instance : BOOLEAN,
                    instance_id : GroupName \cup {Empty}, group_id : GroupName \cup {Empty}]
  BY PlaceAssumption DEF SyncTypeOK
<1>2. Suffixed[place[c].custom_id] \in GroupName
  BY <1>1, SuffixAssumption
<1>3. GetId(place[c]) \in GroupName \cup {Empty}
  BY <1>1, <1>2 DEF GetId
<1> QED
  BY <1>3, NamesAssumption DEF NewId

(* Writes under way stay writes when their sender enters a group.          *)
LEMMA AimingKeeps ==
  ASSUME NEW writes \in SUBSET (StateWrite \cup JoinWrite), NEW g \in GroupName
  PROVE  /\ Aiming(writes, g) \in SUBSET (StateWrite \cup JoinWrite)
         /\ \A w \in Aiming(writes, g) :
              /\ w.command = "join" => w \in writes
              /\ w.command = "state" =>
                   \E v \in writes : v.command = "state" /\ w.aim = v.aim \cup {g}
<1> SUFFICES ASSUME NEW w \in Aiming(writes, g)
             PROVE  /\ w \in StateWrite \cup JoinWrite
                    /\ w.command = "join" => w \in writes
                    /\ w.command = "state" =>
                         \E v \in writes : v.command = "state" /\ w.aim = v.aim \cup {g}
  OBVIOUS
<1>1. PICK v \in writes :
        w = IF v.command = "state" THEN [v EXCEPT !.aim = @ \cup {g}] ELSE v
  BY DEF Aiming
<1>2. CASE v \in JoinWrite
  BY <1>1, <1>2 DEF JoinWrite
<1>3. CASE v \in StateWrite
  <2>1. v.command = "state" /\ w = [v EXCEPT !.aim = @ \cup {g}] /\ v.aim \cup {g} \in SUBSET GroupName
    BY <1>1, <1>3 DEF StateWrite
  <2>2. w \in StateWrite /\ w.command = "state" /\ w.aim = v.aim \cup {g}
    BY <1>3, <2>1 DEF StateWrite
  <2> QED
    BY <2>1, <2>2
<1> QED
  BY <1>2, <1>3

LEMMA ClientTypes ==
  ASSUME SyncIInv, TypeOK', [SyncNext]_syncVars
  PROVE  SyncTypeOK'
<1> USE DEF SyncIInv, SyncTypeOK
<1>1. CASE UNCHANGED syncVars
  BY <1>1 DEF syncVars, clientVars
<1>2. ASSUME NEW c \in Client, Move(c) PROVE SyncTypeOK'
  BY <1>2, BoundsAssumption DEF Move
<1>3. ASSUME NEW c \in Client, StartSync(c) PROVE SyncTypeOK'
  BY <1>3 DEF StartSync, Connect, WriteVersion, ReadVersion, CannotSync, ServerStatus
<1>4. ASSUME NEW c \in Client, UpdateGroup(c) PROVE SyncTypeOK'
  <2>1. NewId(c) \in GroupName
    BY NewIdTyped
  <2>2. /\ Aiming(pending[c], NewId(c)) \in SUBSET (StateWrite \cup JoinWrite)
        /\ [command |-> "join", group |-> NewId(c)] \in JoinWrite
    BY <2>1, AimingKeeps DEF JoinWrite
  <2>3. id' \in [Client -> GroupName] /\ pending' \in [Client -> SUBSET (StateWrite \cup JoinWrite)]
    BY <1>4, <2>1, <2>2 DEF UpdateGroup
  <2> QED
    BY <1>4, <2>3 DEF UpdateGroup
<1>5. ASSUME NEW c \in Client, Post(c) PROVE SyncTypeOK'
  <2>1. posts' \in 0 .. MaxPosts /\ posts' \in 1 .. MaxPosts
    BY <1>5, BoundsAssumption DEF Post
  <2>2. [command |-> "state", event |-> posts', aim |-> {told[c], id[c]}] \in StateWrite
    BY <2>1 DEF StateWrite
  <2>3. pending' \in [Client -> SUBSET (StateWrite \cup JoinWrite)]
    BY <1>5, <2>2 DEF Post
  <2>4. log' \in [Client -> SUBSET (1 .. MaxPosts)]
    BY <1>5, <2>1 DEF Post
  <2> QED
    BY <1>5, <2>1, <2>3, <2>4 DEF Post
<1>6. ASSUME NEW c \in Client, NEW w \in pending[c], WriteReturns(c, w) PROVE SyncTypeOK'
  <2>1. told' \in [Client -> GroupName] /\ pending' \in [Client -> SUBSET (StateWrite \cup JoinWrite)]
    BY <1>6 DEF WriteReturns, ToldBy
  <2>2. sent' \in 1 .. MaxLines /\ w \in StateWrite \cup JoinWrite
    BY <1>6, LinesAssumption DEF WriteReturns, Arrive, TypeOK
  <2>3. w.command = "state" => w \in StateWrite
    BY <2>2 DEF JoinWrite
  <2>4. w.command = "state" => w.event \in 1 .. MaxPosts /\ w.aim \in SUBSET GroupName
    BY <2>3 DEF StateWrite
  <2>5. carried' \subseteq [n : 1 .. MaxLines, event : 1 .. MaxPosts, aim : SUBSET GroupName]
    BY <1>6, <2>2, <2>4 DEF WriteReturns
  <2> QED
    BY <1>6, <2>1, <2>5 DEF WriteReturns
<1>7. ASSUME NEW c \in Client, NEW w \in pending[c], NEW v \in pending[c], Mixed(c, v, w)
      PROVE  SyncTypeOK'
  <2>1. told' \in [Client -> GroupName] /\ pending' \in [Client -> SUBSET (StateWrite \cup JoinWrite)]
    BY <1>7 DEF Mixed, ToldBy
  <2> QED
    BY <1>7, <2>1 DEF Mixed
<1>8. ASSUME NEW c \in Client, NEW w \in pending[c], JoinFails(c, w) \/ StateFails(c, w)
      PROVE  SyncTypeOK'
  <2>1. /\ status' \in [Client -> ServerStatus]
        /\ pending' \in [Client -> SUBSET (StateWrite \cup JoinWrite)]
    BY <1>8 DEF JoinFails, StateFails, ServerStatus
  <2>2. crashed' \in [Client -> BOOLEAN]
    BY <1>8, Zenon DEF JoinFails, StateFails
  <2>3. UNCHANGED <<vars, place, moves, stage, id, told, posts, log, carried>>
    BY <1>8 DEF JoinFails, StateFails
  <2> QED
    BY <2>1, <2>2, <2>3
<1>9. ASSUME NEW c \in Client, ServerStep(c) PROVE SyncTypeOK'
  BY <1>9 DEF ServerStep, clientVars
<1> QED
  BY <1>1, <1>2, <1>3, <1>4, <1>5, <1>6, <1>7, <1>8, <1>9 DEF SyncNext, WriteEnds

LEMMA StagesStep ==
  ASSUME SyncIInv, [SyncNext]_syncVars
  PROVE  Stages'
<1>1. \A d \in Client : Connected(d) => Connected(d)'
  BY StepOfServer, ConnectionsStay DEF SyncIInv
<1> SUFFICES ASSUME NEW d \in Client PROVE StagesOf(d)'
  BY DEF Stages
<1> USE DEF StagesOf
<1>2. StagesOf(d)
  BY DEF SyncIInv, Stages
<1>3. /\ status \in [Client -> ServerStatus]
      /\ stage \in [Client -> {"connect", "version", "response", "loaded"}]
      /\ pending \in [Client -> SUBSET (StateWrite \cup JoinWrite)]
      /\ told \in [Client -> GroupName]
  BY DEF SyncIInv, SyncTypeOK
<1>4. CASE UNCHANGED <<stage, status, pending, told>>
  BY <1>1, <1>2, <1>4
<1>5. ASSUME NEW c \in Client, Connect(c) PROVE StagesOf(d)'
  <2>1. /\ \A b \in Client \ {c} : stage'[b] = stage[b]
        /\ UNCHANGED <<status, pending, told>>
    BY <1>3, <1>5 DEF Connect
  <2>2. Connected(c)'
    BY <1>5, NamesAssumption DEF Connect, Accept, Connected, SyncIInv, SyncTypeOK, TypeOK, Client
  <2> QED
    BY <1>1, <1>2, <2>1, <2>2
<1>6. ASSUME NEW c \in Client, WriteVersion(c) \/ ReadVersion(c) \/ CannotSync(c) PROVE StagesOf(d)'
  <2>1. /\ c # d => stage'[d] = stage[d] /\ status'[d] = status[d]
        /\ UNCHANGED <<pending, told>>
    BY <1>3, <1>6 DEF WriteVersion, ReadVersion, CannotSync
  <2>2. c = d => \/ stage[d] \in {"version", "response"}
                 \/ stage'[d] = "loaded" /\ status'[d] # "online"
    BY <1>3, <1>6 DEF WriteVersion, ReadVersion, CannotSync
  <2> QED
    BY <1>1, <1>2, <2>1, <2>2
<1>7. ASSUME NEW c \in Client, UpdateGroup(c) \/ Post(c) PROVE StagesOf(d)'
  <2>1. /\ UNCHANGED <<stage, status, told>>
        /\ pending'[d] # {} => pending[d] # {} \/ status[d] = "online"
    BY <1>3, <1>7 DEF UpdateGroup, Post, Online
  <2> QED
    BY <1>1, <1>2, <2>1
<1>8. ASSUME NEW c \in Client, WriteEnds(c) PROVE StagesOf(d)'
  <2>1. /\ c # d => status'[d] = status[d] /\ told'[d] = told[d] /\ pending'[d] = pending[d]
        /\ stage' = stage
    BY <1>3, <1>8 DEF WriteEnds, WriteReturns, JoinFails, StateFails, Mixed, ToldBy
  <2>2. pending[c] # {}
    BY <1>8 DEF WriteEnds
  <2> QED
    BY <1>1, <1>2, <2>1, <2>2
<1>9. ASSUME NEW c \in Client, Move(c) \/ ServerStep(c)
      PROVE  UNCHANGED <<stage, status, pending, told>>
  BY <1>9 DEF Move, ServerStep, clientVars
<1>10. CASE UNCHANGED syncVars
  BY <1>4, <1>10 DEF syncVars, clientVars
<1> QED
  BY <1>4, <1>5, <1>6, <1>7, <1>8, <1>9, <1>10 DEF SyncNext, StartSync

LEMMA BrokenStays ==
  ASSUME IInv, [Next]_vars, NEW c \in Client, broken[c]
  PROVE  broken'[c]
<1>1. ASSUME NEW s \in Session, Break(s) PROVE broken'[c]
  BY <1>1 DEF Break, IInv, TypeOK, Client
<1>2. ASSUME NEW s \in Session, SendLine(s) \/ Accept(s) \/ ReadError(s) \/ Written(s) \/ WriteError(s)
      PROVE  broken' = broken
  BY <1>2 DEF SendLine, Accept, ReadError, Written, WriteError
<1>3. ASSUME NEW s \in Session,
             ReceiveJoin(s) \/ ReceiveState(s) \/ ReceiveVersion(s) \/ ReceiveGarbled(s)
      PROVE  broken' = broken
  BY <1>3 DEF ReceiveJoin, ReceiveState, ReceiveVersion, ReceiveGarbled, Receives
<1> QED
  BY <1>1, <1>2, <1>3 DEF Next, Handle, vars

LEMMA TellingStep ==
  ASSUME SyncIInv, [SyncNext]_syncVars
  PROVE  Telling'
<1>1. \A d \in Client : broken[d] => broken'[d]
  BY StepOfServer, BrokenStays DEF SyncIInv
<1> SUFFICES ASSUME NEW d \in Client PROVE TellingOf(d)'
  BY DEF Telling
<1>2. TellingOf(d)
  BY DEF SyncIInv, Telling
<1>3. /\ pending \in [Client -> SUBSET (StateWrite \cup JoinWrite)] /\ told \in [Client -> GroupName]
      /\ id \in [Client -> GroupName]
  BY DEF SyncIInv, SyncTypeOK
<1>4. CASE pending'[d] = pending[d] /\ told'[d] = told[d] /\ id'[d] = id[d]
  BY <1>1, <1>2, <1>4 DEF TellingOf, Joining
<1>5. CASE UpdateGroup(d)
  <2> DEFINE join == [command |-> "join", group |-> NewId(d)]
  <2>1. /\ id'[d] = NewId(d) /\ told' = told
        /\ pending'[d] = Aiming(pending[d], NewId(d)) \cup {join}
        /\ ~ Joining(d) /\ NewId(d) \in GroupName
    BY <1>3, <1>5, NewIdTyped DEF UpdateGroup, SyncIInv
  <2>2. \A w \in Aiming(pending[d], NewId(d)) :
          /\ w.command = "join" => w \in pending[d]
          /\ w.command = "state" =>
               \E v \in pending[d] : v.command = "state" /\ w.aim = v.aim \cup {NewId(d)}
    <3>1. pending[d] \in SUBSET (StateWrite \cup JoinWrite)
      BY <1>3
    <3> QED
      BY <2>1, <3>1, AimingKeeps
  <2>3. ASSUME NEW w \in pending'[d]
        PROVE  /\ w.command = "join" => w.group = id'[d]
               /\ w.command = "state" => told'[d] \in w.aim /\ id'[d] \in w.aim
    <3>1. CASE w = join
      BY <2>1, <3>1
    <3>2. CASE w \in Aiming(pending[d], NewId(d))
      BY <1>2, <2>1, <2>2, <3>2 DEF TellingOf, Joining
    <3> QED
      BY <2>1, <3>1, <3>2
  <2>4. Joining(d)'
    <3>1. join \in pending'[d] /\ join.command = "join"
      BY <2>1
    <3> HIDE DEF join
    <3> QED
      BY <3>1 DEF Joining
  <2> QED
    BY <2>3, <2>4 DEF TellingOf
<1>6. CASE Post(d)
  <2> DEFINE write == [command |-> "state", event |-> posts', aim |-> {told[d], id[d]}]
  <2>1. /\ id' = id /\ told' = told /\ broken' = broken
        /\ pending'[d] = pending[d] \/ pending'[d] = pending[d] \cup {write}
    BY <1>3, <1>6 DEF Post, vars
  <2>2. write.command = "state" /\ write.aim = {told[d], id[d]}
    OBVIOUS
  <2> HIDE DEF write
  <2> QED
    BY <1>2, <2>1, <2>2 DEF TellingOf, Joining
<1>7. ASSUME NEW w \in pending[d], WriteReturns(d, w) PROVE TellingOf(d)'
  <2>1. /\ id' = id /\ broken' = broken /\ pending'[d] = pending[d] \ {w}
        /\ told'[d] = IF w.command = "join" THEN id[d] ELSE told[d]
    BY <1>3, <1>7 DEF WriteReturns, ToldBy, Arrive
  <2> QED
    BY <1>2, <2>1 DEF TellingOf, Joining
<1>8. ASSUME NEW w \in pending[d], NEW v \in pending[d], Mixed(d, v, w) PROVE TellingOf(d)'
  <2>1. /\ id' = id /\ broken' = broken /\ pending'[d] = pending[d] \ {v, w}
        /\ told'[d] = IF \E x \in {v, w} : x.command = "join" THEN id[d] ELSE told[d]
    BY <1>3, <1>8 DEF Mixed, ToldBy, Arrive
  <2> QED
    BY <1>2, <2>1 DEF TellingOf, Joining
<1>9. ASSUME NEW w \in pending[d], JoinFails(d, w) \/ StateFails(d, w) PROVE TellingOf(d)'
  <2>1. /\ id' = id /\ told' = told /\ broken' = broken /\ broken[d]
        /\ pending'[d] \subseteq pending[d]
    BY <1>3, <1>9 DEF JoinFails, StateFails, vars
  <2> QED
    BY <1>2, <2>1 DEF TellingOf
<1>10. ASSUME NEW c \in Client \ {d}, UpdateGroup(c) \/ Post(c) \/ WriteEnds(c)
       PROVE  pending'[d] = pending[d] /\ told'[d] = told[d] /\ id'[d] = id[d]
  BY <1>3, <1>10 DEF UpdateGroup, Post, WriteEnds, WriteReturns, JoinFails, StateFails, Mixed, ToldBy
<1>11. ASSUME NEW c \in Client, Move(c) \/ StartSync(c) \/ ServerStep(c)
       PROVE  UNCHANGED <<pending, told, id>>
  BY <1>11 DEF Move, StartSync, Connect, WriteVersion, ReadVersion, CannotSync, ServerStep, clientVars
<1>12. CASE UNCHANGED syncVars
  BY <1>4, <1>12 DEF syncVars, clientVars
<1> QED
  BY <1>4, <1>5, <1>6, <1>7, <1>8, <1>9, <1>10, <1>11, <1>12 DEF SyncNext, WriteEnds

-----------------------------------------------------------------------------
(* The lines on their way.                                                 *)

LEMMA LinesKept ==
  ASSUME NEW d \in Client, LinesOf(d), carried \subseteq carried',
         lines'[d] = lines[d], named'[d] = named[d], told'[d] = told[d],
         reading'[d] => reading[d], broken[d] => broken'[d]
  PROVE  LinesOf(d)'
<1>1. Aimed(lines[d], named[d], carried) => Aimed(lines'[d], named'[d], carried')
  BY MoreCarried
<1> QED
  BY <1>1 DEF LinesOf

(* A client writes a line: it told the group that it leads to, and a state *)
(* is meant for that group.                                                *)
LEMMA LinesArrive ==
  ASSUME SyncIInv, NEW c \in Client, NEW line \in Line, Arrive(c, line), ~ broken[c],
         carried \subseteq carried',
         \A b \in Client \ {c} : told'[b] = told[b],
         \/ line.command = "join" /\ told'[c] = line.group
         \/ line.command = "garbled"
         \/ line.command \notin {"join", "garbled"} /\ told'[c] = told[c],
         line.command = "state" => \E r \in carried' : r.n = line.n /\ told[c] \in r.aim
  PROVE  LinesLead'
<1>1. /\ lines' = [lines EXCEPT ![c] = Append(@, line)]
      /\ named' = named /\ reading' = reading /\ broken' = broken
      /\ lines \in [Client -> Seq(Line)]
  BY DEF Arrive, SyncIInv, SyncTypeOK, TypeOK, Client
<1> SUFFICES ASSUME NEW d \in Client PROVE LinesOf(d)'
  BY DEF LinesLead
<1>2. LinesOf(d)
  BY DEF SyncIInv, LinesLead
<1>3. CASE d # c
  BY <1>1, <1>2, <1>3, LinesKept
<1>4. CASE d = c /\ reading[c]
  <2>1. lines[c] \in Seq(Line) /\ lines'[c] = Append(lines[c], line)
    BY <1>1
  <2>2. Aimed(lines[c], named[c], carried') /\ Ends(lines[c], named[c], told[c])
    BY <1>2, <1>4, MoreCarried DEF LinesOf
  <2>3. /\ Ends(Append(lines[c], line), named[c], told'[c])
        /\ Aimed(Append(lines[c], line), named[c], carried')
    BY <2>1, <2>2, LineWritten
  <2> QED
    BY <1>1, <1>4, <2>1, <2>3 DEF LinesOf
<1>5. CASE d = c /\ ~ reading[c]
  BY <1>1, <1>5 DEF LinesOf
<1> QED
  BY <1>3, <1>4, <1>5

(* The session handles a line that could be read.                          *)
LEMMA LinesRead ==
  ASSUME SyncIInv, NEW s \in Client, NEW command \in {"join", "state", "version"},
         Receives(s, command), reading' = reading, UNCHANGED clientVars,
         named' = IF command = "join" THEN [named EXCEPT ![s] = Head(lines[s]).group] ELSE named
  PROVE  LinesLead'
<1>1. /\ lines \in [Client -> Seq(Line)] /\ lines[s] # <<>> /\ Head(lines[s]).command = command
      /\ lines' = [lines EXCEPT ![s] = Tail(@)] /\ broken' = broken /\ reading[s]
      /\ named \in [Client -> GroupName \cup {NoGroup}]
      /\ told' = told /\ carried' = carried
  BY DEF Receives, SyncIInv, SyncTypeOK, TypeOK, Client, clientVars
<1> SUFFICES ASSUME NEW d \in Client PROVE LinesOf(d)'
  BY DEF LinesLead
<1>2. LinesOf(d)
  BY DEF SyncIInv, LinesLead
<1>3. CASE d # s
  BY <1>1, <1>2, <1>3, LinesKept
<1>4. CASE d = s
  <2>1. \/ Head(lines[s]).command = "join" /\ named'[s] = Head(lines[s]).group
        \/ Head(lines[s]).command \notin {"join", "garbled"} /\ named'[s] = named[s]
    BY <1>1
  <2>2. /\ Aimed(lines[s], named[s], carried) => Aimed(Tail(lines[s]), named'[s], carried)
        /\ Ends(lines[s], named[s], told[s]) => Ends(Tail(lines[s]), named'[s], told[s])
    BY <1>1, <2>1, LineHandled
  <2> QED
    BY <1>1, <1>2, <1>4, <2>2 DEF LinesOf
<1> QED
  BY <1>3, <1>4

LEMMA LinesOfServer ==
  ASSUME SyncIInv, NEW s \in Client, ServerStep(s)
  PROVE  LinesLead'
<1>1. told' = told /\ carried' = carried /\ UNCHANGED clientVars
  BY DEF ServerStep, clientVars
<1>2. /\ lines \in [Client -> Seq(Line)] /\ broken \in [Client -> BOOLEAN]
      /\ reading \in [Client -> BOOLEAN]
  BY DEF SyncIInv, SyncTypeOK, TypeOK, Client
<1>3. \A d \in Client : LinesOf(d)
  BY DEF SyncIInv, LinesLead
<1>4. CASE Break(s)
  <2>1. PICK n \in 0 .. Len(lines[s]) : lines' = [lines EXCEPT ![s] = SubSeq(@, 1, n)]
    BY <1>4 DEF Break
  <2>2. broken' = [broken EXCEPT ![s] = TRUE] /\ named' = named /\ reading' = reading
    BY <1>4 DEF Break
  <2> SUFFICES ASSUME NEW d \in Client PROVE LinesOf(d)'
    BY DEF LinesLead
  <2>3. CASE d # s
    BY <1>1, <1>2, <1>3, <2>1, <2>2, <2>3, LinesKept
  <2>4. CASE d = s
    <3>1. lines[s] \in Seq(Line) /\ lines'[s] = SubSeq(lines[s], 1, n) /\ broken'[s]
      BY <1>2, <2>1, <2>2
    <3>2. Aimed(lines[s], named[s], carried) => Aimed(lines'[s], named[s], carried)
      BY <3>1, LinesLost
    <3> QED
      BY <1>1, <1>3, <2>2, <2>4, <3>1, <3>2 DEF LinesOf
  <2> QED
    BY <2>3, <2>4
<1>5. CASE ReceiveJoin(s)
  BY <1>1, <1>5, LinesRead DEF ReceiveJoin
<1>6. CASE ReceiveState(s)
  BY <1>1, <1>6, LinesRead DEF ReceiveState
<1>7. CASE ReceiveVersion(s)
  BY <1>1, <1>7, LinesRead DEF ReceiveVersion
<1>8. CASE ReceiveGarbled(s)
  <2>1. /\ reading' = [reading EXCEPT ![s] = FALSE] /\ named' = named /\ broken' = broken
        /\ lines' = [lines EXCEPT ![s] = Tail(@)]
    BY <1>8 DEF ReceiveGarbled, Receives
  <2>2. ASSUME NEW d \in Client, d # s PROVE LinesOf(d)'
    BY <1>1, <1>2, <1>3, <2>1, <2>2, LinesKept
  <2>3. LinesOf(s)'
    BY <1>2, <2>1 DEF LinesOf
  <2> QED
    BY <2>2, <2>3 DEF LinesLead
<1>9. CASE ReadError(s) \/ Written(s) \/ WriteError(s)
  <2>1. /\ lines' = lines /\ named' = named /\ broken' = broken
        /\ reading' = reading \/ reading' = [reading EXCEPT ![s] = FALSE]
    BY <1>9 DEF ReadError, Written, WriteError
  <2> SUFFICES ASSUME NEW d \in Client PROVE LinesOf(d)'
    BY DEF LinesLead
  <2>2. reading'[d] => reading[d]
    BY <1>2, <2>1
  <2> QED
    BY <1>1, <1>3, <2>1, <2>2, LinesKept
<1> QED
  BY <1>4, <1>5, <1>6, <1>7, <1>8, <1>9 DEF ServerStep, Reading

LEMMA LinesStep ==
  ASSUME SyncIInv, [SyncNext]_syncVars
  PROVE  LinesLead'
<1>1. \A d \in Client : LinesOf(d)
  BY DEF SyncIInv, LinesLead
<1>2. CASE UNCHANGED <<vars, told, carried>>
  <2>1. UNCHANGED <<lines, named, reading, broken, told, carried>>
    BY <1>2 DEF vars
  <2> QED
    BY <1>1, <2>1, LinesKept DEF LinesLead
<1>3. ASSUME NEW c \in Client,
             Move(c) \/ ReadVersion(c) \/ CannotSync(c) \/ UpdateGroup(c) \/ Post(c)
      PROVE  UNCHANGED <<vars, told, carried>>
  BY <1>3 DEF Move, ReadVersion, CannotSync, UpdateGroup, Post
<1>4. ASSUME NEW c \in Client, Connect(c) PROVE LinesLead'
  <2>1. /\ ~ Connected(c) /\ named' = [named EXCEPT ![c] = Default]
        /\ reading' = [reading EXCEPT ![c] = TRUE]
        /\ UNCHANGED <<lines, broken, told, carried>>
    BY <1>4 DEF Connect, Accept
  <2>2. lines[c] = <<>> /\ told[c] = Default
    BY <2>1 DEF SyncIInv, IInv, Attached, Stages, StagesOf, Connected, Client
  <2>3. named'[c] = Default
    BY <2>1 DEF SyncIInv, SyncTypeOK, TypeOK, Client
  <2>4. LinesOf(c)'
    BY <2>1, <2>2, <2>3, NoLines DEF LinesOf
  <2>5. ASSUME NEW d \in Client, d # c PROVE LinesOf(d)'
    <3>1. named'[d] = named[d] /\ reading'[d] = reading[d]
      BY <2>1, <2>5 DEF SyncIInv, SyncTypeOK, TypeOK, Client
    <3> QED
      BY <1>1, <2>1, <3>1, LinesKept
  <2> QED
    BY <2>4, <2>5 DEF LinesLead
<1>5. ASSUME NEW c \in Client, WriteVersion(c) PROVE LinesLead'
  <2>1. [command |-> "version"] \in Line
    BY DEF Line
  <2> QED
    BY <1>5, <2>1, LinesArrive DEF WriteVersion
<1>6. ASSUME NEW c \in Client, NEW w \in pending[c], WriteReturns(c, w) PROVE LinesLead'
  <2> DEFINE line == LineOf(w, sent + 1)
  <2>1. /\ ~ broken[c] /\ Arrive(c, line) /\ sent < MaxLines /\ sent' = sent + 1
        /\ carried \subseteq carried' /\ ToldBy(c, {w})
    BY <1>6 DEF WriteReturns, Arrive
  <2>8. ASSUME w.command = "state" PROVE \E r \in carried' : r.n = sent + 1 /\ r.aim = w.aim
    <3> DEFINE r == [n |-> sent', event |-> w.event, aim |-> w.aim]
    <3>1. r \in carried'
      BY <1>6, <2>8 DEF WriteReturns
    <3>2. r.n = sent + 1 /\ r.aim = w.aim
      BY <2>1
    <3> QED
      BY <3>1, <3>2
  <2>2. line \in Line
    BY <2>1, WritesAreLines
  <2>3. TellingOf(c) /\ told \in [Client -> GroupName] /\ w \in StateWrite \cup JoinWrite
    BY DEF SyncIInv, SyncTypeOK, Telling
  <2>4. /\ \A b \in Client \ {c} : told'[b] = told[b]
        /\ told'[c] = IF w.command = "join" THEN id[c] ELSE told[c]
    BY <2>1, <2>3 DEF ToldBy
  <2>5. \/ w.command = "join" /\ line.command = "join" /\ line.group = w.group
        \/ w.command = "state" /\ line.command = "state" /\ line.n = sent + 1
    BY <2>3 DEF LineOf, StateWrite, JoinWrite
  <2> HIDE DEF line
  <2>6. CASE w.command = "join"
    <3>1. line.command = "join" /\ told'[c] = line.group
      BY <2>3, <2>4, <2>5, <2>6 DEF TellingOf
    <3> QED
      BY <2>1, <2>2, <2>4, <3>1, LinesArrive
  <2>7. CASE w.command = "state"
    <3>1. line.command = "state" /\ told'[c] = told[c] /\ told[c] \in w.aim
      BY <2>3, <2>4, <2>5, <2>7 DEF TellingOf
    <3>2. \E r \in carried' : r.n = line.n /\ told[c] \in r.aim
      BY <2>5, <2>7, <2>8, <3>1
    <3> QED
      BY <2>1, <2>2, <2>4, <3>1, <3>2, LinesArrive
  <2> QED
    BY <2>5, <2>6, <2>7
<1>7. ASSUME NEW c \in Client, NEW w \in pending[c], NEW v \in pending[c], Mixed(c, v, w)
      PROVE  LinesLead'
  <2>1. [command |-> "garbled"] \in Line /\ told \in [Client -> GroupName]
    BY DEF Line, SyncIInv, SyncTypeOK
  <2>2. \A b \in Client \ {c} : told'[b] = told[b]
    BY <1>7, <2>1 DEF Mixed, ToldBy
  <2> QED
    BY <1>7, <2>1, <2>2, LinesArrive DEF Mixed
<1>8. ASSUME NEW c \in Client, NEW w \in pending[c], JoinFails(c, w) \/ StateFails(c, w)
      PROVE  UNCHANGED <<vars, told, carried>>
  BY <1>8 DEF JoinFails, StateFails
<1>9. CASE UNCHANGED syncVars
  BY <1>2, <1>9 DEF syncVars, clientVars
<1> QED
  BY <1>2, <1>3, <1>4, <1>5, <1>6, <1>7, <1>8, <1>9, LinesOfServer
  DEF SyncNext, StartSync, WriteEnds

-----------------------------------------------------------------------------
(* What the server sends.                                                  *)

LEMMA MailKept ==
  ASSUME SyncIInv, UNCHANGED <<queue, inbox>>, carried \subseteq carried'
  PROVE  MailIsMeant'
BY DEF SyncIInv, MailIsMeant, MailOf, Meant

LEMMA MailSent ==
  ASSUME SyncIInv, NEW to, NEW m \in Message, SendData(to, m), Meant(m, carried),
         inbox' = inbox, carried' = carried
  PROVE  MailIsMeant'
<1> SUFFICES ASSUME NEW d \in Client, NEW i \in DOMAIN queue'[d] PROVE Meant(queue'[d][i], carried)
  BY DEF SyncIInv, MailIsMeant, MailOf
<1>1. queue \in [Client -> Seq(Message)] /\ MailOf(d)
  BY DEF SyncIInv, SyncTypeOK, TypeOK, MailIsMeant, Client
<1>2. queue'[d] = queue[d] \/ queue'[d] = Append(queue[d], m)
  BY <1>1 DEF SendData, Client
<1>3. queue'[d][i] = m \/ (i \in DOMAIN queue[d] /\ queue'[d][i] = queue[d][i])
  BY <1>1, <1>2
<1> QED
  BY <1>1, <1>3 DEF MailOf

LEMMA MailOfServer ==
  ASSUME SyncIInv, NEW s \in Client, ServerStep(s)
  PROVE  MailIsMeant'
<1>1. carried' = carried
  BY DEF ServerStep, clientVars
<1>2. CASE Break(s) \/ WriteError(s) \/ ReadError(s)
  BY <1>1, <1>2, MailKept DEF Break, WriteError, ReadError
<1>3. CASE ReceiveJoin(s) \/ ReceiveVersion(s) \/ ReceiveGarbled(s)
  <2>1. PICK m \in {[status |-> "ok"], [status |-> "version"], [status |-> "error"]} :
          SendData({s}, m)
    BY <1>3 DEF ReceiveJoin, ReceiveVersion, ReceiveGarbled
  <2>2. inbox' = inbox
    BY <1>3 DEF ReceiveJoin, ReceiveVersion, ReceiveGarbled, Receives
  <2>3. m \in Message /\ Meant(m, carried)
    BY RepliesAreMessages DEF Meant
  <2> QED
    BY <1>1, <2>1, <2>2, <2>3, MailSent
<1>4. CASE ReceiveState(s)
  <2> DEFINE m == [status |-> "state", n |-> Head(lines[s]).n, group |-> named[s]]
  <2>1. /\ Receives(s, "state") /\ inbox' = inbox
        /\ SendData(receivers[group[s]], m)
    BY <1>4, NamesAssumption DEF ReceiveState, Receives
  <2>2. /\ reading[s] /\ lines[s] # <<>> /\ Head(lines[s]).command = "state"
        /\ Head(lines[s]) \in Line /\ lines[s] \in Seq(Line)
    BY <2>1, ReceivesKeeps DEF Receives, SyncIInv, Client
  <2>3. named[s] \in GroupName
    BY <2>2 DEF SyncIInv, SyncTypeOK, TypeOK, IInv, Attached, Client
  <2>4. m \in Message
    BY <2>2, <2>3 DEF Line, Message, State
  <2>5. Aimed(lines[s], named[s], carried)
    BY <2>2 DEF SyncIInv, LinesLead, LinesOf
  <2>6. \E r \in carried : r.n = Head(lines[s]).n /\ named[s] \in r.aim
    BY <2>2, <2>3, <2>5, HeadIsAimed
  <2>7. Meant(m, carried)
    BY <2>6 DEF Meant
  <2> HIDE DEF m
  <2> QED
    BY <1>1, <2>1, <2>4, <2>7, MailSent
<1>5. CASE Written(s)
  <2>1. /\ queue' = [queue EXCEPT ![s] = Tail(@)]
        /\ inbox' = [inbox EXCEPT ![s] = Append(@, Head(queue[s]))]
        /\ queue \in [Client -> Seq(Message)] /\ inbox \in [Client -> Seq(Message)]
        /\ queue[s] # <<>>
    BY <1>5 DEF Written, SyncIInv, SyncTypeOK, TypeOK, IInv, QueueMoves, Client
  <2> SUFFICES ASSUME NEW d \in Client PROVE MailOf(d)'
    BY DEF MailIsMeant
  <2>2. MailOf(d)
    BY DEF SyncIInv, MailIsMeant
  <2>3. CASE d # s
    BY <1>1, <2>1, <2>2, <2>3 DEF MailOf
  <2>4. CASE d = s
    <3>1. /\ queue[s] \in Seq(Message) /\ inbox[s] \in Seq(Message)
          /\ queue'[s] = Tail(queue[s]) /\ inbox'[s] = Append(inbox[s], Head(queue[s]))
      BY <2>1
    <3>2. ASSUME NEW i \in DOMAIN queue'[s] PROVE Meant(queue'[s][i], carried)
      <4>1. i + 1 \in DOMAIN queue[s] /\ queue'[s][i] = queue[s][i + 1]
        BY <2>1, <3>1
      <4> QED
        BY <2>2, <2>4, <4>1 DEF MailOf
    <3>3. ASSUME NEW i \in DOMAIN inbox'[s] PROVE Meant(inbox'[s][i], carried)
      <4>1. 1 \in DOMAIN queue[s] /\ Head(queue[s]) = queue[s][1]
        BY <2>1, <3>1
      <4>2. inbox'[s][i] = queue[s][1] \/ (i \in DOMAIN inbox[s] /\ inbox'[s][i] = inbox[s][i])
        BY <3>1, <4>1
      <4> QED
        BY <2>2, <2>4, <4>1, <4>2 DEF MailOf
    <3> QED
      BY <1>1, <2>4, <3>2, <3>3 DEF MailOf
  <2> QED
    BY <2>3, <2>4
<1> QED
  BY <1>2, <1>3, <1>4, <1>5 DEF ServerStep, Reading

LEMMA MailStep ==
  ASSUME SyncIInv, [SyncNext]_syncVars
  PROVE  MailIsMeant'
<1>1. CASE UNCHANGED <<vars, carried>>
  BY <1>1, MailKept DEF vars
<1>2. ASSUME NEW c \in Client,
             Move(c) \/ ReadVersion(c) \/ CannotSync(c) \/ UpdateGroup(c) \/ Post(c)
      PROVE  UNCHANGED <<vars, carried>>
  BY <1>2 DEF Move, ReadVersion, CannotSync, UpdateGroup, Post
<1>3. ASSUME NEW c \in Client, Connect(c) \/ WriteVersion(c)
      PROVE  UNCHANGED <<queue, inbox, carried>>
  BY <1>3 DEF Connect, Accept, WriteVersion, Arrive
<1>4. ASSUME NEW c \in Client, NEW w \in pending[c], WriteReturns(c, w)
      PROVE  UNCHANGED <<queue, inbox>> /\ carried \subseteq carried'
  BY <1>4 DEF WriteReturns, Arrive
<1>5. ASSUME NEW c \in Client, NEW w \in pending[c], NEW v \in pending[c], Mixed(c, v, w)
      PROVE  UNCHANGED <<queue, inbox, carried>>
  BY <1>5 DEF Mixed, Arrive
<1>6. ASSUME NEW c \in Client, NEW w \in pending[c], JoinFails(c, w) \/ StateFails(c, w)
      PROVE  UNCHANGED <<vars, carried>>
  BY <1>6 DEF JoinFails, StateFails
<1>7. CASE UNCHANGED syncVars
  BY <1>1, <1>7 DEF syncVars, clientVars
<1> QED
  BY <1>1, <1>2, <1>3, <1>4, <1>5, <1>6, <1>7, MailOfServer, MailKept
  DEF SyncNext, StartSync, WriteEnds

-----------------------------------------------------------------------------
(* The theorems.                                                           *)

(* Nothing is connected, told or sent at the start.                        *)
LEMMA SyncInitInvariant == SyncInit => SyncIInv
<1> SUFFICES ASSUME SyncInit PROVE SyncIInv
  OBVIOUS
<1>1. IInv
  BY InitInvariant DEF SyncInit
<1>2. SyncTypeOK
  BY <1>1, NamesAssumption, BoundsAssumption
  DEF SyncInit, SyncTypeOK, IInv, InitialId, ServerStatus, Client
<1>3. Stages /\ Telling
  BY DEF SyncInit, Stages, StagesOf, Telling, TellingOf, Joining, InitialId, Client
<1>4. LinesLead
  BY DEF SyncInit, Init, LinesLead, LinesOf, Client
<1>5. MailIsMeant
  BY DEF SyncInit, Init, MailIsMeant, MailOf, Client
<1> QED
  BY <1>1, <1>2, <1>3, <1>4, <1>5 DEF SyncIInv

LEMMA SyncNextInvariant == SyncIInv /\ [SyncNext]_syncVars => SyncIInv'
<1> SUFFICES ASSUME SyncIInv, [SyncNext]_syncVars PROVE SyncIInv'
  OBVIOUS
<1>1. IInv'
  BY StepOfServer, NextInvariant DEF SyncIInv
<1>2. SyncTypeOK'
  BY <1>1, ClientTypes DEF IInv
<1> QED
  BY <1>1, <1>2, StagesStep, TellingStep, LinesStep, MailStep DEF SyncIInv

THEOREM SyncInvariance == SyncSpec => []SyncIInv
BY SyncInitInvariant, SyncNextInvariant, PTL DEF SyncSpec

(* The clients and the server keep to their types (api.h, session.h).      *)
THEOREM SyncTypeCorrect == SyncSpec => []SyncTypeOK
BY SyncInvariance, PTL DEF SyncIInv

(* Whatever the addon does to the socket, in however many threads, is what *)
(* the server's proofs let a client do (api.cpp: every write to the        *)
(* socket).                                                                *)
THEOREM ServerIsImplemented == SyncSpec => ImplementsServer
<1>1. SyncInit => Init
  BY DEF SyncInit
<1>2. SyncIInv /\ [SyncNext]_syncVars => [Next]_vars
  BY StepOfServer
<1> QED
  BY <1>1, <1>2, SyncInvariance, PTL DEF SyncSpec, ImplementsServer

(* So the addon's clients are served as any client is: no group keeps a    *)
(* session that reads no more, a name leads to one object, the states come *)
(* in one order, and what the clients see is the relay.  (session.cpp,     *)
(* group.cpp, as api.cpp calls them)                                       *)
THEOREM AddonIsServed ==
  SyncSpec => [](ReceiversRead /\ OneObjectPerName /\ StatesInOneOrder) /\ ImplementsRelay
<1> DEFINE Served == SyncIInv /\ OIInv
<1>1. SyncInit => Served /\ Relay!Init
  BY SyncInitInvariant, InitOrder, InitRelay DEF SyncInit, SyncIInv, OIInv
<1>2. Served /\ [SyncNext]_syncVars => Served'
  BY SyncNextInvariant, StepOfServer, NextOrder DEF SyncIInv, OIInv
<1>3. Served /\ [SyncNext]_syncVars => [Relay!Next]_(Relay!relayVars)
  BY StepOfServer, NextRelay DEF OIInv
<1>4. Served => ReceiversRead /\ OneObjectPerName /\ StatesInOneOrder
  BY RankedIsOneOrder DEF OIInv, IInv
<1> HIDE DEF Served
<1> QED
  BY <1>1, <1>2, <1>3, <1>4, PTL DEF SyncSpec, ImplementsRelay, Relay!Spec

(* The server has a client in the group it takes itself to be in whenever  *)
(* its lines are handled (api.cpp:15, session.cpp:14).                     *)
THEOREM GroupsAgreeWithServer == SyncSpec => []GroupsAgree
<1>1. SyncIInv => GroupsAgree
  <2> SUFFICES ASSUME SyncIInv, NEW c \in Client, Well(c), lines[c] = <<>>, pending[c] = {}
               PROVE  named[c] = id[c]
    BY DEF GroupsAgree
  <2>1. reading[c] /\ ~ broken[c] /\ ~ Joining(c)
    BY DEF Well, Joining
  <2>2. told[c] = id[c]
    BY <2>1 DEF SyncIInv, Telling, TellingOf
  <2>3. named[c] \in GroupName
    BY <2>1 DEF SyncIInv, SyncTypeOK, TypeOK, IInv, Attached, Client
  <2>4. Ends(<<>>, named[c], told[c])
    BY <2>1 DEF SyncIInv, LinesLead, LinesOf
  <2>5. named[c] = told[c]
    <3>1. Len(<<>>) + 1 = 1 /\ 1 .. 1 - 1 = {}
      OBVIOUS
    <3> QED
      BY <2>3, <2>4, <3>1 DEF Ends, Readable, LeadsAt
  <2> QED
    BY <2>2, <2>5
<1> QED
  BY <1>1, SyncInvariance, PTL

(* A state reaches no group that its sender did not mean (api.cpp: a       *)
(* thread per state beside the join of the frame; session.cpp: the group   *)
(* of the session at the time the line is handled).                        *)
THEOREM StatesReachTheirAims == SyncSpec => []StatesReachAims
<1>1. SyncIInv => StatesReachAims
  BY DEF SyncIInv, MailIsMeant, MailOf, Meant, StatesReachAims
<1> QED
  BY <1>1, SyncInvariance, PTL

-----------------------------------------------------------------------------
(* The group trackers.                                                     *)

(* The last notice about a player says that it is there, or that it is not.*)
Tells(s, q, there) ==
  \E i \in 1 .. Len(s) :
    /\ s[i].player = q
    /\ \A j \in i .. Len(s) : s[j].player = q => s[j].added = there

Silent(s, q) == \A i \in 1 .. Len(s) : s[i].player # q

(* Who knows the given players and handles the notices learns the truth.   *)
Learns(s, known, q, there) ==
  Tells(s, q, there) \/ (Silent(s, q) /\ (q \in known <=> there))

Informed ==
  \A p \in Player :
    /\ ~ loaded[p] => notices[p] = <<>> /\ group_players[p] = {}
    /\ loaded[p] => \A q \in Player :
                      Learns(notices[p], group_players[p], q, party[q] = party[p])

Oneself ==
  \A p \in Player :
    \/ selfAccountName[p] = NoPlayer /\ p \notin group_players[p]
    \/ selfAccountName[p] = p /\ p \in group_players[p]

Coded ==
  \A p \in Player :
    group_code[p] = Crc[group_players[p]] \/ selfAccountName[p] = NoPlayer

TrackerIInv == TrackerTypeOK /\ Informed /\ Oneself /\ Coded

-----------------------------------------------------------------------------
(* Notices.                                                                *)

LEMMA ConcatLearns ==
  ASSUME NEW s \in Seq(Notice), NEW t \in Seq(Notice), NEW known, NEW q, NEW there
  PROVE  /\ s \o t \in Seq(Notice)
         /\ Tells(t, q, there) => Tells(s \o t, q, there)
         /\ Silent(t, q) /\ Learns(s, known, q, there) => Learns(s \o t, known, q, there)
<1> DEFINE st == s \o t
<1>1. /\ st \in Seq(Notice) /\ Len(st) = Len(s) + Len(t)
      /\ Len(s) \in Nat /\ Len(t) \in Nat
      /\ \A i \in 1 .. Len(s) + Len(t) : st[i] = IF i <= Len(s) THEN s[i] ELSE t[i - Len(s)]
  BY ConcatProperties
<1>2. /\ \A i \in 1 .. Len(s) : st[i] = s[i]
      /\ \A i \in 1 .. Len(t) : st[Len(s) + i] = t[i]
      /\ \A i \in 1 .. Len(st) :
           i \in 1 .. Len(s) \/ (i - Len(s) \in 1 .. Len(t) /\ st[i] = t[i - Len(s)])
  BY <1>1
<1> HIDE DEF st
<1>3. ASSUME Tells(t, q, there) PROVE Tells(st, q, there)
  <2>1. PICK i \in 1 .. Len(t) :
          /\ t[i].player = q
          /\ \A j \in i .. Len(t) : t[j].player = q => t[j].added = there
    BY <1>3 DEF Tells
  <2>2. Len(s) + i \in 1 .. Len(st) /\ st[Len(s) + i].player = q
    BY <1>1, <1>2, <2>1
  <2>3. ASSUME NEW j \in Len(s) + i .. Len(st), st[j].player = q PROVE st[j].added = there
    <3>1. j - Len(s) \in i .. Len(t) /\ st[j] = t[j - Len(s)]
      BY <1>1, <1>2
    <3> QED
      BY <2>1, <2>3, <3>1
  <2> QED
    BY <2>2, <2>3 DEF Tells
<1>4. ASSUME Silent(t, q), Tells(s, q, there) PROVE Tells(st, q, there)
  <2>1. PICK i \in 1 .. Len(s) :
          /\ s[i].player = q
          /\ \A j \in i .. Len(s) : s[j].player = q => s[j].added = there
    BY <1>4 DEF Tells
  <2>2. i \in 1 .. Len(st) /\ st[i].player = q
    BY <1>1, <1>2, <2>1
  <2>3. ASSUME NEW j \in i .. Len(st), st[j].player = q PROVE st[j].added = there
    <3>1. CASE j \in 1 .. Len(s)
      <4>1. j \in i .. Len(s) /\ st[j] = s[j]
        BY <1>2, <3>1
      <4> QED
        BY <2>1, <2>3, <4>1
    <3>2. CASE j - Len(s) \in 1 .. Len(t) /\ st[j] = t[j - Len(s)]
      BY <1>4, <2>3, <3>2 DEF Silent
    <3>3. j \in 1 .. Len(st)
      BY <2>1
    <3> QED
      BY <1>2, <3>1, <3>2, <3>3
  <2> QED
    BY <2>2, <2>3 DEF Tells
<1>5. ASSUME Silent(t, q), Silent(s, q) PROVE Silent(st, q)
  <2> SUFFICES ASSUME NEW i \in 1 .. Len(st) PROVE st[i].player # q
    BY DEF Silent
  <2>1. CASE i \in 1 .. Len(s)
    BY <1>2, <1>5, <2>1 DEF Silent
  <2>2. CASE i - Len(s) \in 1 .. Len(t) /\ st[i] = t[i - Len(s)]
    BY <1>5, <2>2 DEF Silent
  <2> QED
    BY <1>2, <2>1, <2>2
<1> QED
  BY <1>1, <1>3, <1>4, <1>5 DEF Learns, st

(* The notice of one player.                                               *)
LEMMA OneTells ==
  ASSUME NEW s \in Seq(Notice), NEW p \in Player, NEW there \in BOOLEAN
  PROVE  LET one == <<[player |-> p, added |-> there]>>
         IN  /\ one \in Seq(Notice)
             /\ Append(s, [player |-> p, added |-> there]) = s \o one
             /\ Tells(one, p, there)
             /\ \A q : q # p => Silent(one, q)
<1> DEFINE n == [player |-> p, added |-> there]
<1>1. n \in Notice
  BY DEF Notice
<1>2. <<n>> \in Seq(Notice) /\ Len(<<n>>) = 1 /\ <<n>>[1] = n
  BY <1>1
<1>3. Append(s, n) = s \o <<n>>
  BY <1>1, AppendIsConcat, Zenon
<1>4. \A i \in 1 .. Len(<<n>>) : <<n>>[i].player = p /\ <<n>>[i].added = there
  BY <1>2
<1>5. Tells(<<n>>, p, there)
  BY <1>2, <1>4 DEF Tells
<1>6. \A q : q # p => Silent(<<n>>, q)
  BY <1>4 DEF Silent
<1> QED
  BY <1>2, <1>3, <1>5, <1>6

(* The notices of a set of players tell of all of them and of nobody else. *)
LEMMA ListingsTell ==
  ASSUME NEW S \in SUBSET Player, NEW there \in BOOLEAN, NEW s \in Listings(S, there)
  PROVE  /\ s \in Seq(Notice)
         /\ \A q \in S : Tells(s, q, there)
         /\ \A q : q \notin S => Silent(s, q)
<1>1. IsFiniteSet(S)
  BY PlayerAssumption, FS_Subset
<1> DEFINE n == Cardinality(S)
<1>2. n \in Nat
  BY <1>1, FS_CardinalityType
<1>3. PICK f \in SetToSeqs(S) : s = [i \in DOMAIN f |-> [player |-> f[i], added |-> there]]
  BY DEF Listings
<1>4. f \in [1 .. n -> S] /\ (\A i, j \in 1 .. n : i # j => f[i] # f[j])
  BY <1>3 DEF SetToSeqs
<1> HIDE DEF n
<1>5. \A q \in S : \E i \in 1 .. n : f[i] = q
  <2>1. f \in Injection(1 .. n, S)
    BY <1>4 DEF Injection, IsInjective
  <2>2. Cardinality(1 .. n) = n
    BY <1>2, FS_Interval
  <2>3. f \in Surjection(1 .. n, S)
    BY <1>1, <2>1, <2>2, FS_Injection DEF n
  <2> QED
    BY <2>3 DEF Surjection
<1>6. s \in [1 .. n -> Notice]
  BY <1>3, <1>4 DEF Notice
<1>7. s \in Seq(Notice) /\ Len(s) = n
  BY <1>2, <1>6, SeqDef
<1>8. \A i \in 1 .. n : s[i].player = f[i] /\ s[i].added = there
  BY <1>3, <1>4
<1>9. ASSUME NEW q \in S PROVE Tells(s, q, there)
  <2>1. PICK i \in 1 .. n : f[i] = q
    BY <1>5
  <2>2. \A j \in i .. n : s[j].added = there
    BY <1>2, <1>8
  <2> QED
    BY <1>7, <1>8, <2>1, <2>2 DEF Tells
<1>10. ASSUME NEW q, q \notin S PROVE Silent(s, q)
  BY <1>4, <1>7, <1>8, <1>10 DEF Silent
<1> QED
  BY <1>7, <1>9, <1>10

(* Handling the first notice.                                              *)
LEMMA TailLearns ==
  ASSUME NEW s \in Seq(Notice), s # <<>>, NEW known, NEW q, NEW there,
         Learns(s, known, q, there)
  PROVE  /\ Tail(s) \in Seq(Notice) /\ Head(s) \in Notice
         /\ Head(s).player # q => Learns(Tail(s), known, q, there)
         /\ Head(s).player = q =>
              Tells(Tail(s), q, there) \/ (Silent(Tail(s), q) /\ Head(s).added = there)
<1> DEFINE t == Tail(s)
<1>1. /\ Head(s) \in Notice /\ t \in Seq(Notice) /\ Len(t) = Len(s) - 1
      /\ \A i \in 1 .. Len(t) : t[i] = s[i + 1]
      /\ Head(s) = s[1] /\ Len(s) \in Nat /\ Len(s) >= 1
  BY HeadTailProperties
<1>2. \A i \in 1 .. Len(s) : i = 1 \/ (i - 1 \in 1 .. Len(t) /\ t[i - 1] = s[i])
  BY <1>1
<1> HIDE DEF t
<1>3. Silent(s, q) => Silent(t, q)
  BY <1>1 DEF Silent
<1>4. ASSUME NEW i \in 1 .. Len(s), i # 1, s[i].player = q,
             \A j \in i .. Len(s) : s[j].player = q => s[j].added = there
      PROVE  Tells(t, q, there)
  <2>1. i - 1 \in 1 .. Len(t) /\ t[i - 1].player = q
    BY <1>2, <1>4
  <2>2. ASSUME NEW j \in i - 1 .. Len(t), t[j].player = q PROVE t[j].added = there
    <3>1. j + 1 \in i .. Len(s) /\ j \in 1 .. Len(t) /\ t[j] = s[j + 1]
      BY <1>1, <2>1
    <3> QED
      BY <1>4, <2>2, <3>1
  <2> QED
    BY <2>1, <2>2 DEF Tells
<1>5. ASSUME s[1].player = q, \A j \in 1 .. Len(s) : s[j].player = q => s[j].added = there
      PROVE  Tells(t, q, there) \/ (Silent(t, q) /\ s[1].added = there)
  <2>1. s[1].added = there
    BY <1>1, <1>5
  <2>2. CASE \E i \in 1 .. Len(t) : t[i].player = q
    <3>1. PICK i \in 1 .. Len(t) : t[i].player = q
      BY <2>2
    <3>2. i + 1 \in 1 .. Len(s) /\ i + 1 # 1 /\ s[i + 1].player = q
      BY <1>1, <3>1
    <3>3. \A j \in i + 1 .. Len(s) : s[j].player = q => s[j].added = there
      BY <1>5, <3>2
    <3> QED
      BY <1>4, <3>2, <3>3
  <2> QED
    BY <2>1, <2>2 DEF Silent
<1>6. CASE Tells(s, q, there)
  <2>1. PICK i \in 1 .. Len(s) :
          /\ s[i].player = q
          /\ \A j \in i .. Len(s) : s[j].player = q => s[j].added = there
    BY <1>6 DEF Tells
  <2>2. CASE i = 1
    BY <1>1, <1>5, <2>1, <2>2 DEF t
  <2>3. CASE i # 1
    BY <1>1, <1>4, <2>1, <2>3 DEF Learns, t
  <2> QED
    BY <2>2, <2>3
<1>7. CASE Silent(s, q) /\ (q \in known <=> there)
  BY <1>1, <1>3, <1>7 DEF Learns, Silent, t
<1> QED
  BY <1>6, <1>7 DEF Learns

-----------------------------------------------------------------------------

LEMMA TrackerInitInvariant == TrackerInit => TrackerIInv
  BY DEF TrackerInit, TrackerIInv, TrackerTypeOK, Informed, Oneself, Coded

(* The client of a player that loads a map is told of all players.         *)
LEMMA LoadInvariant ==
  ASSUME TrackerIInv, NEW p \in Player, Load(p)
  PROVE  TrackerIInv'
<1> USE DEF TrackerIInv
<1>1. PICK gone \in Listings(IF loaded[p] THEN Members(p) ELSE {}, FALSE),
           there \in Listings(Members(p), TRUE) :
        notices' = [notices EXCEPT ![p] = @ \o gone \o there]
  BY DEF Load
<1>2. /\ loaded' = [loaded EXCEPT ![p] = TRUE] /\ changes' = changes + 1
      /\ UNCHANGED <<party, selfAccountName, group_players, group_code>>
  BY DEF Load, ownVars
<1> DEFINE old == IF loaded[p] THEN Members(p) ELSE {}
           so_far == notices[p] \o gone
<1>3. Members(p) \in SUBSET Player /\ old \in SUBSET Player
  BY DEF Members
<1>4. /\ gone \in Seq(Notice) /\ \A q : q \notin old => Silent(gone, q)
      /\ there \in Seq(Notice) /\ \A q \in Members(p) : Tells(there, q, TRUE)
      /\ \A q : q \notin Members(p) => Silent(there, q)
  BY <1>1, <1>3, ListingsTell
<1>5. notices[p] \in Seq(Notice) /\ so_far \in Seq(Notice)
  BY <1>4, ConcatLearns DEF TrackerTypeOK
<1>6. notices'[p] = so_far \o there /\ \A r \in Player \ {p} : notices'[r] = notices[r]
  BY <1>1 DEF TrackerTypeOK
<1>7. notices'[p] \in Seq(Notice)
  BY <1>4, <1>5, <1>6, ConcatLearns
<1>8. TrackerTypeOK'
  BY <1>1, <1>2, <1>7, <1>6 DEF TrackerTypeOK
<1>9. ASSUME NEW q \in Player
      PROVE  Learns(notices'[p], group_players[p], q, party[q] = party[p])
  <2>1. CASE party[q] = party[p]
    <3>1. Tells(there, q, party[q] = party[p])
      BY <1>4, <2>1 DEF Members
    <3> HIDE DEF so_far
    <3>2. Learns(so_far \o there, group_players[p], q, party[q] = party[p])
      BY <1>4, <1>5, <3>1, ConcatLearns DEF Learns
    <3> QED
      BY <1>6, <3>2
  <2>2. CASE party[q] # party[p]
    <3>1. Silent(gone, q) /\ Silent(there, q)
      BY <1>4, <2>2 DEF Members
    <3>2. Learns(notices[p], group_players[p], q, party[q] = party[p])
      <4>1. CASE loaded[p]
        BY <4>1 DEF Informed
      <4>2. CASE ~ loaded[p]
        BY <2>2, <4>2 DEF Informed, Learns, Silent
      <4> QED
        BY <4>1, <4>2
    <3>3. Learns(so_far, group_players[p], q, party[q] = party[p])
      BY <1>4, <1>5, <3>1, <3>2, ConcatLearns
    <3> HIDE DEF so_far
    <3>4. Learns(so_far \o there, group_players[p], q, party[q] = party[p])
      BY <1>4, <1>5, <3>1, <3>3, ConcatLearns
    <3> QED
      BY <1>6, <3>4
  <2> QED
    BY <2>1, <2>2
<1>10. Informed'
  BY <1>2, <1>6, <1>9 DEF Informed, TrackerTypeOK
<1>11. Oneself' /\ Coded'
  BY <1>2 DEF Oneself, Coded
<1> QED
  BY <1>8, <1>10, <1>11

(* A change of party is told to whom it concerns, and changes nothing else.*)
LEMMA ChangePartyInvariant ==
  ASSUME TrackerIInv, NEW p \in Player, NEW g \in Party, ChangeParty(p, g)
  PROVE  TrackerIInv'
<1> USE DEF TrackerIInv
<1> DEFINE left == Members(p) \ {p}
           met == {q \in Player : party[q] = g}
<1>1. PICK gone \in Listings(left, FALSE), there \in Listings(met, TRUE) :
        notices' = [q \in Player |->
          IF ~ loaded[q] THEN notices[q]
          ELSE IF q = p THEN notices[q] \o gone \o there
          ELSE IF party[q] = party[p]
          THEN Append(notices[q], [player |-> p, added |-> FALSE])
          ELSE IF party[q] = g
          THEN Append(notices[q], [player |-> p, added |-> TRUE])
          ELSE notices[q]]
  BY DEF ChangeParty
<1>2. /\ party[p] # g /\ party' = [party EXCEPT ![p] = g] /\ changes' = changes + 1
      /\ UNCHANGED <<loaded, selfAccountName, group_players, group_code>>
  BY DEF ChangeParty, ownVars
<1>3. left \in SUBSET Player /\ met \in SUBSET Player
  BY DEF Members
<1>4. /\ gone \in Seq(Notice) /\ \A q \in left : Tells(gone, q, FALSE)
      /\ \A q : q \notin left => Silent(gone, q)
      /\ there \in Seq(Notice) /\ \A q \in met : Tells(there, q, TRUE)
      /\ \A q : q \notin met => Silent(there, q)
  <2> HIDE DEF left, met
  <2> QED
    BY <1>3, ListingsTell
<1> DEFINE Right(r) == /\ notices'[r] \in Seq(Notice)
                       /\ ~ loaded[r] => notices'[r] = notices[r]
                       /\ loaded[r] => \A q \in Player :
                            Learns(notices'[r], group_players[r], q, party'[q] = party'[r])
<1>5. \A r \in Player : notices[r] \in Seq(Notice)
  BY DEF TrackerTypeOK
<1>6. ASSUME NEW r \in Player, ~ loaded[r] PROVE Right(r)
  BY <1>1, <1>5, <1>6
<1>7. ASSUME loaded[p] PROVE Right(p)
  <2> DEFINE so_far == notices[p] \o gone
  <2>1. notices'[p] = so_far \o there
    BY <1>1, <1>7
  <2>2. so_far \in Seq(Notice) /\ notices'[p] \in Seq(Notice)
    BY <1>4, <1>5, <2>1, ConcatLearns
  <2>3. ASSUME NEW q \in Player
        PROVE  Learns(notices'[p], group_players[p], q, party'[q] = party'[p])
    <3> DEFINE fact == party'[q] = party'[p]
    <3>1. Learns(notices[p], group_players[p], q, party[q] = party[p])
      BY <1>7 DEF Informed
    <3>2. CASE q \in met
      <4>1. fact = TRUE
        BY <1>2, <3>2 DEF TrackerTypeOK
      <4>2. Tells(there, q, fact)
        BY <1>4, <3>2, <4>1
      <4> HIDE DEF so_far, fact
      <4>3. Learns(so_far \o there, group_players[p], q, fact)
        BY <1>4, <2>2, <4>2, ConcatLearns DEF Learns
      <4> QED
        BY <2>1, <4>3 DEF fact
    <3>3. CASE q \notin met /\ q \in left
      <4>1. fact = FALSE
        BY <1>2, <3>3 DEF TrackerTypeOK, Members
      <4>2. Tells(gone, q, fact)
        BY <1>4, <3>3, <4>1
      <4>3. Learns(so_far, group_players[p], q, fact)
        BY <1>4, <1>5, <4>2, ConcatLearns DEF Learns
      <4> HIDE DEF so_far, fact
      <4>4. Learns(so_far \o there, group_players[p], q, fact)
        BY <1>4, <2>2, <3>3, <4>3, ConcatLearns
      <4> QED
        BY <2>1, <4>4 DEF fact
    <3>4. CASE q \notin met /\ q \notin left
      <4>1. fact = (party[q] = party[p])
        BY <1>2, <3>4 DEF TrackerTypeOK, Members
      <4>2. Learns(so_far, group_players[p], q, fact)
        BY <1>4, <1>5, <3>1, <3>4, <4>1, ConcatLearns
      <4> HIDE DEF so_far, fact
      <4>3. Learns(so_far \o there, group_players[p], q, fact)
        BY <1>4, <2>2, <3>4, <4>2, ConcatLearns
      <4> QED
        BY <2>1, <4>3 DEF fact
    <3> QED
      BY <3>2, <3>3, <3>4
  <2> QED
    BY <1>7, <2>2, <2>3
<1>8. ASSUME NEW r \in Player, r # p, loaded[r] PROVE Right(r)
  <2> DEFINE was == party[p] = party[r]
             is == g = party[r]
             one(added) == <<[player |-> p, added |-> added]>>
  <2>1. /\ was => notices'[r] = Append(notices[r], [player |-> p, added |-> FALSE])
        /\ ~ was /\ is => notices'[r] = Append(notices[r], [player |-> p, added |-> TRUE])
        /\ ~ was /\ ~ is => notices'[r] = notices[r]
    BY <1>1, <1>8
  <2>2. ~ (was /\ is) /\ is \in BOOLEAN
    BY <1>2
  <2>3. CASE was \/ is
    <3>1. notices'[r] = notices[r] \o one(is)
      BY <1>5, <2>1, <2>2, <2>3, OneTells
    <3>2. /\ one(is) \in Seq(Notice) /\ Tells(one(is), p, is)
          /\ \A q : q # p => Silent(one(is), q)
      BY <1>5, <2>2, OneTells
    <3>3. notices'[r] \in Seq(Notice)
      BY <1>5, <3>1, <3>2, ConcatLearns
    <3>4. ASSUME NEW q \in Player
          PROVE  Learns(notices'[r], group_players[r], q, party'[q] = party'[r])
      <4>1. CASE q = p
        <5>1. (party'[q] = party'[r]) = is
          BY <1>2, <1>8, <4>1 DEF TrackerTypeOK
        <5> HIDE DEF one, is
        <5> QED
          BY <1>5, <3>1, <3>2, <4>1, <5>1, ConcatLearns DEF Learns
      <4>2. CASE q # p
        <5>1. (party'[q] = party'[r]) = (party[q] = party[r])
          BY <1>2, <1>8, <4>2 DEF TrackerTypeOK
        <5>2. Learns(notices[r], group_players[r], q, party[q] = party[r])
          BY <1>8 DEF Informed
        <5> HIDE DEF one, is
        <5> QED
          BY <1>5, <3>1, <3>2, <4>2, <5>1, <5>2, ConcatLearns
      <4> QED
        BY <4>1, <4>2
    <3> QED
      BY <1>8, <3>3, <3>4
  <2>4. CASE ~ was /\ ~ is
    <3>1. \A q \in Player : (party'[q] = party'[r]) = (party[q] = party[r])
      BY <1>2, <1>8, <2>4 DEF TrackerTypeOK
    <3> QED
      BY <1>5, <1>8, <2>1, <2>4, <3>1 DEF Informed
  <2> QED
    BY <2>3, <2>4
<1>9. \A r \in Player : Right(r)
  BY <1>6, <1>7, <1>8
<1>10. TrackerTypeOK'
  <2>1. notices' = [q \in Player |-> notices'[q]]
    BY <1>1
  <2>2. \A r \in Player : notices'[r] \in Seq(Notice)
    BY <1>9
  <2>3. notices' \in [Player -> Seq(Notice)]
    BY <2>1, <2>2
  <2>4. party' \in [Player -> Party] /\ changes' \in Nat
    BY <1>2 DEF TrackerTypeOK
  <2> QED
    BY <1>2, <2>3, <2>4 DEF TrackerTypeOK
<1>11. Informed'
  BY <1>2, <1>9 DEF Informed
<1>12. Oneself' /\ Coded'
  BY <1>2 DEF Oneself, Coded
<1> QED
  BY <1>10, <1>11, <1>12

(* A notice is handled.                                                    *)
LEMMA NoticeInvariant ==
  ASSUME TrackerIInv, NEW p \in Player, mod_combat(p)
  PROVE  TrackerIInv'
<1> USE DEF TrackerIInv
<1> DEFINE n == Head(notices[p])
           known == group_players[p]
<1>1. /\ notices[p] # <<>> /\ notices[p] \in Seq(Notice)
      /\ IF n.added THEN Added(p, n.player) ELSE Removed(p, n.player)
      /\ notices' = [notices EXCEPT ![p] = Tail(@)]
      /\ UNCHANGED <<party, loaded, changes>>
  BY DEF mod_combat, playerVars, TrackerTypeOK
<1>2. loaded[p] /\ n \in Notice /\ Tail(notices[p]) \in Seq(Notice)
  <2>1. loaded[p]
    BY <1>1 DEF Informed
  <2> QED
    BY <1>1, <2>1, TailLearns DEF Informed
<1>3. n.player \in Player /\ n.added \in BOOLEAN
  BY <1>2 DEF Notice
<1> HIDE DEF n
<1>4. ASSUME NEW q \in Player
      PROVE  /\ n.player # q => Learns(Tail(notices[p]), known, q, party[q] = party[p])
             /\ n.player = q =>
                  \/ Tells(Tail(notices[p]), q, party[q] = party[p])
                  \/ /\ Silent(Tail(notices[p]), q)
                     /\ n.added = (party[q] = party[p])
  <2>1. Learns(notices[p], known, q, party[q] = party[p])
    BY <1>2 DEF Informed
  <2> QED
    BY <1>1, <2>1, TailLearns DEF n
<1>5. /\ known \in SUBSET Player
      /\ \/ selfAccountName[p] = NoPlayer /\ p \notin known
         \/ selfAccountName[p] = p /\ p \in known
  BY DEF Oneself, TrackerTypeOK
<1> DEFINE now_known == IF n.added THEN known \cup {n.player}
                        ELSE IF n.player # selfAccountName[p] THEN known \ {n.player}
                        ELSE known
<1>6. /\ group_players' = [group_players EXCEPT ![p] = now_known]
      /\ selfAccountName' = [selfAccountName EXCEPT ![p] =
                               IF n.added /\ n.player = p THEN p ELSE @]
      /\ \/ group_code' = [group_code EXCEPT ![p] = Crc[now_known]]
         \/ UNCHANGED group_code /\ now_known = known
  <2>1. CASE n.added
    BY <1>1, <1>5, <2>1 DEF Added, calculate_groupcode, TrackerTypeOK
  <2>2. CASE ~ n.added /\ n.player # selfAccountName[p]
    BY <1>1, <2>2 DEF Removed, calculate_groupcode, TrackerTypeOK
  <2>3. CASE ~ n.added /\ n.player = selfAccountName[p]
    BY <1>1, <2>3 DEF Removed, TrackerTypeOK
  <2> QED
    BY <2>1, <2>2, <2>3
<1>7. now_known \in SUBSET Player
  BY <1>3, <1>5
<1>8. TrackerTypeOK'
  <2>1. Crc[now_known] \in Code
    BY <1>7, CrcAssumption
  <2> QED
    BY <1>1, <1>2, <1>6, <1>7, <2>1 DEF TrackerTypeOK
<1>9. ASSUME NEW q \in Player
      PROVE  Learns(Tail(notices[p]), now_known, q, party[q] = party[p])
  <2>1. CASE n.player # q
    <3>1. q \in now_known <=> q \in known
      BY <2>1
    <3> QED
      BY <1>4, <2>1, <3>1 DEF Learns
  <2>2. CASE n.player = q
    <3>1. CASE Tells(Tail(notices[p]), q, party[q] = party[p])
      BY <3>1 DEF Learns
    <3>2. CASE Silent(Tail(notices[p]), q) /\ n.added = (party[q] = party[p])
      <4>1. q \in now_known <=> n.added
        BY <1>3, <1>5, <2>2, <3>2, PlayerAssumption
      <4> QED
        BY <3>2, <4>1 DEF Learns
    <3> QED
      BY <1>4, <2>2, <3>1, <3>2
  <2> QED
    BY <2>1, <2>2
<1>10. Informed'
  BY <1>1, <1>2, <1>6, <1>9 DEF Informed, TrackerTypeOK
<1>11. Oneself'
  BY <1>3, <1>5, <1>6, PlayerAssumption DEF Oneself, TrackerTypeOK
<1>12. Coded'
  <2>1. \/ group_code'[p] = Crc[group_players'[p]]
        \/ selfAccountName'[p] = selfAccountName[p] /\ group_players'[p] = group_players[p]
           /\ group_code'[p] = group_code[p]
        \/ selfAccountName'[p] = p /\ p \in known /\ group_code'[p] = group_code[p]
           /\ group_players'[p] = group_players[p] /\ selfAccountName[p] = p
    <3> HIDE DEF now_known
    <3>1. CASE group_code' = [group_code EXCEPT ![p] = Crc[now_known]]
      BY <1>6, <3>1 DEF TrackerTypeOK
    <3>2. CASE UNCHANGED group_code /\ now_known = known
      <4>1. n.added /\ n.player = p => p \in known
        BY <3>2 DEF now_known
      <4> QED
        BY <1>5, <1>6, <3>2, <4>1, PlayerAssumption DEF TrackerTypeOK
    <3> QED
      BY <1>6, <3>1, <3>2
  <2>2. group_code'[p] = Crc[group_players'[p]] \/ selfAccountName'[p] = NoPlayer
    BY <2>1 DEF Coded
  <2>3. \A q \in Player \ {p} :
          /\ group_code'[q] = group_code[q] /\ group_players'[q] = group_players[q]
          /\ selfAccountName'[q] = selfAccountName[q]
    BY <1>6 DEF TrackerTypeOK
  <2> QED
    BY <2>2, <2>3 DEF Coded
<1> QED
  BY <1>8, <1>10, <1>11, <1>12

LEMMA TrackerInvariance == TrackerSpec => []TrackerIInv
<1>1. TrackerIInv /\ [TrackerNext]_trackerVars => TrackerIInv'
  <2> SUFFICES ASSUME TrackerIInv, [TrackerNext]_trackerVars PROVE TrackerIInv'
    OBVIOUS
  <2>1. CASE \E p \in Player : Load(p)
    BY <2>1, LoadInvariant
  <2>2. CASE \E p \in Player, g \in Party : ChangeParty(p, g)
    BY <2>2, ChangePartyInvariant
  <2>3. CASE \E p \in Player : mod_combat(p)
    BY <2>3, NoticeInvariant
  <2>4. CASE UNCHANGED trackerVars
    BY <2>4 DEF trackerVars, playerVars, ownVars, TrackerIInv, TrackerTypeOK, Informed, Oneself, Coded
  <2> QED
    BY <2>1, <2>2, <2>3, <2>4 DEF TrackerNext
<1> QED
  BY <1>1, TrackerInitInvariant, PTL DEF TrackerSpec

-----------------------------------------------------------------------------

(* The state of the group trackers keeps its type.  (grouptracker.h)       *)
THEOREM TrackerTypeCorrect == TrackerSpec => []TrackerTypeOK
  BY TrackerInvariance, PTL DEF TrackerIInv

(* Clients that have handled their notices agree on the code exactly when  *)
(* their players are in one party, whatever loads and changes there were.    *)
(* (grouptracker.cpp: mod_combat, calculate_groupcode)                     *)
THEOREM CodesAreThoseOfParties == TrackerSpec => []CodesMatchParties
<1>1. ASSUME TrackerIInv, NEW p \in Player, Settled(p)
      PROVE  group_players[p] = Members(p) /\ group_code[p] = Crc[Members(p)]
  <2>1. \A q \in Player : q \in group_players[p] <=> party[q] = party[p]
    BY <1>1 DEF TrackerIInv, Informed, Settled, Learns, Tells
  <2>2. group_players[p] = Members(p)
    BY <1>1, <2>1 DEF TrackerIInv, TrackerTypeOK, Members
  <2>3. selfAccountName[p] # NoPlayer
    BY <1>1, <2>1, PlayerAssumption DEF TrackerIInv, Oneself
  <2> QED
    BY <1>1, <2>2, <2>3 DEF TrackerIInv, Coded
<1>2. TrackerIInv => CodesMatchParties
  <2> SUFFICES ASSUME TrackerIInv, NEW p \in Player, NEW q \in Player, Settled(p), Settled(q)
               PROVE  group_code[p] = group_code[q] <=> party[p] = party[q]
    BY DEF CodesMatchParties
  <2>1. group_code[p] = Crc[Members(p)] /\ group_code[q] = Crc[Members(q)]
    BY <1>1
  <2>2. Members(p) = Members(q) <=> party[p] = party[q]
    BY DEF Members
  <2>3. Members(p) \in SUBSET Player /\ Members(q) \in SUBSET Player
    BY DEF Members
  <2> QED
    BY <2>1, <2>2, <2>3, OneToOneAssumption
<1> QED
  BY <1>2, TrackerInvariance, PTL

(* A client that was once told of its own player keeps it.                 *)
(* (grouptracker.cpp:43, the test before an erase)                         *)
THEOREM OneselfStays == TrackerSpec => []AlwaysWithOneself
<1>1. TrackerIInv => AlwaysWithOneself
  BY PlayerAssumption DEF TrackerIInv, Oneself, Coded, AlwaysWithOneself
<1> QED
  BY <1>1, TrackerInvariance, PTL

=============================================================================
