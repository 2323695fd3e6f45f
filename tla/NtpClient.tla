----------------------------- MODULE NtpClient -----------------------------
(***************************************************************************)
(* One call of NTPClient::get_time_delta (ntp.cpp): three requests, each   *)
(* of which runs a task for an attempt, waits for it with a timeout that   *)
(* doubles, and tries again.  The variables t0 to t3 of a request are      *)
(* written by its tasks.  The offset and the bias of a sample are counted  *)
(* in halves of the unit of the clock, so that they are integers.          *)
(***************************************************************************)
EXTENDS Integers, Sequences

CONSTANTS
  Offset,      \* what the clock of the server may be ahead of the local one
  Requests,    \* the number of samples taken, 3
  RetryA,      \* the first timeout, 500 milliseconds
  Retries,     \* how often a request is repeated, 5
  Plausible,   \* the largest offset accepted, 10 seconds
  Junk,        \* values an uninitialized variable may hold
  MaxNow       \* bound on the clock

ASSUME OffsetAssumption == Offset \subseteq Int
ASSUME RequestsAssumption == Requests \in Nat \ {0}
ASSUME RetriesAssumption == Retries \in Nat
ASSUME RetryAAssumption == RetryA \in Nat \ {0}
ASSUME PlausibleAssumption == Plausible \in Nat
ASSUME JunkAssumption == Junk \subseteq Int /\ Junk # {}
ASSUME MaxNowAssumption == MaxNow \in Nat

VARIABLES
  now,       \* the local clock
  theta,     \* the offset that is to be found; never changes
  pc,        \* where get_time_delta is
  request,   \* how many requests returned
  retry,
  deadline,  \* when wait_for gives up
  task,      \* the task of each attempt of the request, with the packet it waits for
  t,         \* the variables t0 to t3 of the request
  samples,
  excused,   \* a task of this call ended by an exception
  offset     \* what the call returned

timeVars == <<now, theta>>
callVars == <<pc, request, retry, deadline, samples, offset>>
vars == <<timeVars, callVars, task, t, excused>>

-----------------------------------------------------------------------------

Attempt == 0 .. Retries

(* A task resolves the host, asks, and is answered, or throws.  The packet *)
(* is on its way in "asking" and "answering", and may be lost there.       *)
TaskStage ==
  {"idle", "resolving", "asking", "serving", "answering", "lost", "answered", "failed"}

Ended == {"answered", "failed"}

IdleTask == [at |-> "idle", rx |-> 0, tx |-> 0]

NoTasks == [k \in Attempt |-> IdleTask]

NTPInfo == [offset : Int, bias : Int]

ServerClock == now + theta

(* 500 * 2^retry milliseconds *)
WaitTime == RetryA * 2^retry

Init ==
  /\ now = 0
  /\ theta \in Offset
  /\ pc = "try"
  /\ request = 0 /\ retry = 0 /\ deadline = 0
  /\ task = NoTasks
  /\ t \in [0 .. 3 -> Junk]
  /\ samples = <<>>
  /\ excused = FALSE
  /\ offset = 0

-----------------------------------------------------------------------------
(* The network, the server and the clock.                                  *)

Tick == now < MaxNow /\ now' = now + 1 /\ UNCHANGED <<theta, callVars, task, t, excused>>

Becomes(k, from, to) ==
  /\ task[k].at = from
  /\ task' = [task EXCEPT ![k].at = to]
  /\ UNCHANGED <<timeVars, callVars, t, excused>>

ServerReceives(k) ==
  /\ task[k].at = "asking"
  /\ task' = [task EXCEPT ![k].at = "serving", ![k].rx = ServerClock]
  /\ UNCHANGED <<timeVars, callVars, t, excused>>

ServerAnswers(k) ==
  /\ task[k].at = "serving"
  /\ task' = [task EXCEPT ![k].at = "answering", ![k].tx = ServerClock]
  /\ UNCHANGED <<timeVars, callVars, t, excused>>

Lose(k) == Becomes(k, "asking", "lost") \/ Becomes(k, "answering", "lost")

-----------------------------------------------------------------------------
(* The task of an attempt.                                                 *)

TaskSends(k) ==
  /\ task[k].at = "resolving"
  /\ t' = [t EXCEPT ![0] = now]
  /\ task' = [task EXCEPT ![k].at = "asking"]
  /\ UNCHANGED <<timeVars, callVars, excused>>

TaskReceives(k) ==
  /\ task[k].at = "answering"
  /\ t' = [t EXCEPT ![3] = now, ![1] = task[k].rx, ![2] = task[k].tx]
  /\ task' = [task EXCEPT ![k].at = "answered"]
  /\ UNCHANGED <<timeVars, callVars, excused>>

(* resolve, send_to or receive_from throw; the future keeps the exception, *)
(* which nobody gets.  A send_to that throws has set t0.                   *)
TaskThrows(k) ==
  /\ \/ task[k].at \in {"asking", "serving", "answering", "lost"} /\ UNCHANGED t
     \/ task[k].at = "resolving" /\ t' \in {t, [t EXCEPT ![0] = now]}
  /\ task' = [task EXCEPT ![k].at = "failed"]
  /\ excused' = TRUE
  /\ UNCHANGED <<timeVars, callVars>>

-----------------------------------------------------------------------------
(* request_time_delta                                                      *)

(* std::async, and wait_for with its timeout.                              *)
Try ==
  /\ pc = "try"
  /\ task' = [task EXCEPT ![retry].at = "resolving"]
  /\ deadline' = now + WaitTime
  /\ pc' = "wait"
  /\ UNCHANGED <<timeVars, request, retry, samples, offset, t, excused>>

Info ==
  [offset |-> (t[1] - t[0]) + (t[2] - t[3]), bias |-> (t[3] - t[2]) + (t[1] - t[0])]

(* The request returns.  A sample of no offset is not kept, which is how a *)
(* request that gave up is told.                                           *)
Return(info) ==
  /\ samples' = IF info.offset # 0 THEN Append(samples, info) ELSE samples
  /\ request' = request + 1
  /\ retry' = 0 /\ deadline' = 0
  /\ task' = NoTasks
  /\ t' \in [0 .. 3 -> Junk]
  /\ pc' = IF request + 1 = Requests THEN "choose" ELSE "try"
  /\ UNCHANGED <<timeVars, offset, excused>>

(* Mutant: the value of the future is waited for, not its state.           *)
ReadyWithValue == pc = "wait" /\ task[retry].at = "answered" /\ Return(Info)

(* The state of a future is ready also when its task threw.                *)
Ready == pc = "wait" /\ task[retry].at \in Ended /\ Return(Info)

(* Mutant: the future is kept, and the next attempt starts at once.        *)
TimeoutDetached ==
  /\ pc = "wait" /\ task[retry].at \notin Ended /\ now >= deadline
  /\ IF retry + 1 > Retries THEN Return([offset |-> 0, bias |-> 0])
     ELSE /\ pc' = "try" /\ retry' = retry + 1
          /\ UNCHANGED <<timeVars, request, deadline, samples, offset, task, t, excused>>

Timeout ==
  /\ pc = "wait" /\ task[retry].at \notin Ended /\ now >= deadline
  /\ pc' = "join"
  /\ UNCHANGED <<timeVars, request, retry, deadline, samples, offset, task, t, excused>>

(* The destructor of a future of std::async waits for its task.            *)
Retry ==
  /\ pc = "join" /\ task[retry].at \in Ended
  /\ IF retry + 1 > Retries THEN Return([offset |-> 0, bias |-> 0])
     ELSE /\ pc' = "try" /\ retry' = retry + 1
          /\ UNCHANGED <<timeVars, request, deadline, samples, offset, task, t, excused>>

-----------------------------------------------------------------------------
(* get_time_delta after its requests                                       *)

(* The first of the samples with the smallest bias.                        *)
BestSamples ==
  {i \in 1 .. Len(samples) :
     /\ \A j \in 1 .. Len(samples) : samples[i].bias <= samples[j].bias
     /\ \A j \in 1 .. i - 1 : samples[i].bias < samples[j].bias}

(* The first element of an empty vector is read.                           *)
ChooseNone ==
  /\ pc = "choose" /\ samples = <<>>
  /\ pc' = "broken"
  /\ UNCHANGED <<timeVars, request, retry, deadline, samples, offset, task, t, excused>>

Choose ==
  /\ pc = "choose"
  /\ \E i \in BestSamples :
       IF samples[i].offset > 2 * Plausible
       THEN pc' = "thrown" /\ UNCHANGED offset
       ELSE pc' = "done" /\ offset' = samples[i].offset
  /\ UNCHANGED <<timeVars, request, retry, deadline, samples, task, t, excused>>

Call == Try \/ Ready \/ Timeout \/ Retry \/ ChooseNone \/ Choose

Task(k) == TaskSends(k) \/ TaskReceives(k) \/ TaskThrows(k)

Network(k) == ServerReceives(k) \/ ServerAnswers(k) \/ Lose(k)

Next == Tick \/ Call \/ \E k \in Attempt : Task(k) \/ Network(k)

(* The two threads run, and a packet arrives or is lost.  Nothing makes a  *)
(* task throw.                                                             *)
Fairness ==
  /\ WF_vars(Call)
  /\ \A k \in Attempt :
       WF_vars(TaskSends(k)) /\ WF_vars(TaskReceives(k)) /\ WF_vars(Network(k))

Spec == Init /\ [][Next]_vars /\ Fairness

-----------------------------------------------------------------------------

TypeOK ==
  /\ now \in 0 .. MaxNow /\ theta \in Offset
  /\ pc \in {"try", "wait", "join", "choose", "done", "thrown", "broken"}
  /\ request \in 0 .. Requests /\ retry \in Attempt /\ deadline \in Nat
  /\ task \in [Attempt -> [at : TaskStage, rx : Int, tx : Int]]
  /\ t \in [0 .. 3 -> Int]
  /\ samples \in Seq(NTPInfo)
  /\ excused \in BOOLEAN
  /\ offset \in Int

Abs(x) == IF x < 0 THEN -x ELSE x

(* The offset a call returns is off by no more than the shortest round     *)
(* trip it measured, whatever the delays of the two ways, the timeouts and *)
(* the late answers, unless a task threw.  (ntp.cpp: a request reads the   *)
(* variables its abandoned attempts have written, and the choice by bias)  *)
OffsetIsWithinBias ==
  pc = "done" /\ ~ excused =>
    \A i \in 1 .. Len(samples) : Abs(offset - 2 * theta) <= samples[i].bias

(* A call leaves the loop of every request, unless a packet is lost, for   *)
(* which the blocking receive and then the destructor of the future wait   *)
(* for ever.  (ntp.cpp: retries are counted only when the task has ended)  *)
CallEnds ==
  \/ <>(\E k \in Attempt : task[k].at = "lost")
  \/ <>(pc \in {"done", "thrown", "broken"})

=============================================================================
