----------------------------- MODULE GroupRelay -----------------------------
(***************************************************************************)
(* What the server promises: a client is in at most one group, a state     *)
(* sent by a client is mailed to everyone in the group the client named    *)
(* last, at once and to all of them, and each client is delivered its mail *)
(* in order, until its connection fails.                                   *)
(***************************************************************************)
EXTENDS Sequences

CONSTANTS
  Session, GroupName, Default,
  NoGroup,     \* a client that is in no group
  Answer,      \* what a client is answered
  News         \* the states, each with the group it was sent to

VARIABLES
  named,      \* the group each client named last
  member,     \* the group it is in
  mailbox,    \* what waits to be delivered to it
  inbox       \* what was delivered to it

relayVars == <<named, member, mailbox, inbox>>

Init ==
  /\ named = [s \in Session |-> NoGroup]
  /\ member = [s \in Session |-> NoGroup]
  /\ mailbox = [s \in Session |-> <<>>]
  /\ inbox = [s \in Session |-> <<>>]

Mail(to, m) ==
  mailbox' = [s \in Session |-> IF s \in to THEN Append(mailbox[s], m) ELSE mailbox[s]]

Enter(s) ==
  /\ named[s] = NoGroup
  /\ named' = [named EXCEPT ![s] = Default]
  /\ member' = [member EXCEPT ![s] = Default]
  /\ UNCHANGED <<mailbox, inbox>>

Join(s, name) ==
  /\ named[s] # NoGroup
  /\ named' = [named EXCEPT ![s] = name]
  /\ member' = [member EXCEPT ![s] = name]
  /\ \E m \in Answer : Mail({s}, m)
  /\ UNCHANGED inbox

Broadcast(s) ==
  /\ named[s] # NoGroup
  /\ \E m \in News : m.group = named[s] /\ Mail({r \in Session : member[r] = m.group}, m)
  /\ UNCHANGED <<named, member, inbox>>

Reply(s) ==
  /\ \E m \in Answer : Mail({s}, m)
  /\ UNCHANGED <<named, member, inbox>>

(* The connection failed, or the client sent what cannot be read.          *)
Leave(s) ==
  /\ member' = [member EXCEPT ![s] = NoGroup]
  /\ mailbox' = mailbox \/ \E m \in Answer : Mail({s}, m)
  /\ UNCHANGED <<named, inbox>>

Deliver(s) ==
  /\ mailbox[s] # <<>>
  /\ inbox' = [inbox EXCEPT ![s] = Append(@, Head(mailbox[s]))]
  /\ mailbox' = [mailbox EXCEPT ![s] = Tail(@)]
  /\ UNCHANGED <<named, member>>

Next ==
  \E s \in Session :
    \/ Enter(s) \/ Broadcast(s) \/ Reply(s) \/ Leave(s) \/ Deliver(s)
    \/ \E name \in GroupName : Join(s, name)

Spec == Init /\ [][Next]_relayVars

=============================================================================
