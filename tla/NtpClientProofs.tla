-------------------------- MODULE NtpClientProofs --------------------------
(***************************************************************************)
(* Theorems about NtpClient, for any offset, delays, numbers of requests   *)
(* and retries.                                                            *)
(*                                                                         *)
(* The argument: the attempts of a request follow one another (OneAtATime),*)
(* as the destructor of a future waits for its task; so the variables t0   *)
(* to t3 are those of the attempt that is waited for, and lie around the   *)
(* times of the server (Measured), up to the offset.                       *)
(***************************************************************************)
EXTENDS NtpClient, FiniteSetTheorems, WellFoundedInduction, TLAPS

OneAtATime ==
  \A k \in Attempt :
    /\ k < retry => task[k].at \in Ended
    /\ k > retry => task[k].at = "idle"
    /\ k = retry => (task[k].at = "idle" <=> pc \notin {"wait", "join"})

(* The times of an attempt are in order on one clock, as far as it got.    *)
InOrder(e) ==
  /\ e.at = "asking" => t[0] <= now
  /\ e.at = "serving" => t[0] <= e.rx - theta /\ e.rx - theta <= now
  /\ e.at = "answering" => /\ t[0] <= e.rx - theta
                           /\ e.rx <= e.tx /\ e.tx - theta <= now
  /\ e.at = "answered" => t[0] <= t[1] - theta /\ t[1] <= t[2] /\ t[2] - theta <= t[3]
  /\ e.at # "failed"

Measured == excused = FALSE => InOrder(task[retry])

Within(delta, bias) == delta - 2 * theta <= bias /\ 2 * theta - delta <= bias

OneMore == pc \in {"try", "wait", "join"} => request < Requests

SamplesWithin ==
  excused = FALSE =>
    \A i \in 1 .. Len(samples) : Within(samples[i].offset, samples[i].bias)

ChosenWithin ==
  excused = FALSE /\ pc = "done" =>
    \A i \in 1 .. Len(samples) : Within(offset, samples[i].bias)

IInv == TypeOK /\ OneAtATime /\ OneMore /\ Measured /\ SamplesWithin /\ ChosenWithin

Constants ==
  /\ Offset \subseteq Int /\ Requests \in Nat \ {0} /\ Retries \in Nat
  /\ RetryA \in Nat \ {0} /\ Plausible \in Nat /\ Junk \subseteq Int /\ MaxNow \in Nat

-----------------------------------------------------------------------------

LEMMA ConstantsAre == Constants
BY OffsetAssumption, RequestsAssumption, RetriesAssumption, RetryAAssumption,
   PlausibleAssumption, JunkAssumption, MaxNowAssumption DEF Constants

(* A power of two counts the subsets of a finite set.                      *)
LEMMA WaitTimeType == ASSUME retry \in Attempt PROVE WaitTime \in Nat
<1>1. retry \in Nat /\ RetryA \in Nat
  BY ConstantsAre DEF Constants, Attempt
<1>2. IsFiniteSet(1 .. retry) /\ Cardinality(1 .. retry) = retry
  BY <1>1, FS_Interval
<1>3. IsFiniteSet(SUBSET (1 .. retry)) /\ Cardinality(SUBSET (1 .. retry)) = 2^retry
  BY <1>2, FS_SUBSET
<1>4. 2^retry \in Nat
  BY <1>3, FS_CardinalityType
<1> QED
  BY <1>1, <1>4 DEF WaitTime

LEMMA InitIInv == Init => IInv
<1> SUFFICES ASSUME Init PROVE IInv
  OBVIOUS
<1> USE ConstantsAre DEF Constants
<1>1. TypeOK
  <2>1. t \in [0 .. 3 -> Int]
    BY DEF Init
  <2>2. task \in [Attempt -> [at : TaskStage, rx : Int, tx : Int]]
    BY DEF Init, NoTasks, IdleTask, TaskStage
  <2>3. samples \in Seq(NTPInfo) /\ excused \in BOOLEAN
    BY SMTT(30) DEF Init
  <2>4. retry \in Attempt /\ now \in 0 .. MaxNow /\ request \in 0 .. Requests
    BY DEF Init, Attempt
  <2> QED
    BY <2>1, <2>2, <2>3, <2>4 DEF Init, TypeOK
<1>2. OneAtATime
  BY DEF Init, OneAtATime, NoTasks, IdleTask, Attempt
<1>3. Measured
  BY DEF Init, Measured, InOrder, NoTasks, IdleTask, Attempt
<1>4. OneMore /\ SamplesWithin /\ ChosenWithin
  BY DEF Init, OneMore, SamplesWithin, ChosenWithin
<1> QED
  BY <1>1, <1>2, <1>3, <1>4 DEF IInv

(* What a sample of ordered times says.                                    *)
LEMMA InfoFacts ==
  ASSUME TypeOK
  PROVE  /\ Info \in NTPInfo
         /\ InOrder([at |-> "answered", rx |-> 0, tx |-> 0]) =>
              Within(Info.offset, Info.bias)
<1>1. t[0] \in Int /\ t[1] \in Int /\ t[2] \in Int /\ t[3] \in Int /\ theta \in Int
  BY ConstantsAre DEF TypeOK, Constants
<1> QED
  BY <1>1 DEF Info, NTPInfo, InOrder, Within

LEMMA ReturnIInv ==
  ASSUME IInv, NEW info \in NTPInfo, Return(info), pc \in {"wait", "join"},
         excused = FALSE => info.offset = 0 \/ Within(info.offset, info.bias)
  PROVE  IInv'
<1> USE ConstantsAre DEF Constants
<1>1. TypeOK'
  <2>1. t' \in [0 .. 3 -> Int]
    BY DEF Return
  <2>2. task' \in [Attempt -> [at : TaskStage, rx : Int, tx : Int]]
    BY DEF Return, NoTasks, IdleTask, TaskStage
  <2>3. samples' \in Seq(NTPInfo)
    BY DEF Return, IInv, TypeOK
  <2>4. request' \in 0 .. Requests /\ pc' \in {"try", "choose"}
    BY DEF Return, IInv, TypeOK, OneMore
  <2>5. retry' \in Attempt /\ deadline' \in Nat
    BY DEF Return, Attempt
  <2>6. UNCHANGED <<now, theta, offset, excused>>
    BY DEF Return, timeVars
  <2> QED
    BY <2>1, <2>2, <2>3, <2>4, <2>5, <2>6 DEF IInv, TypeOK
<1>2. OneAtATime'
  BY DEF OneAtATime, Return, NoTasks, IdleTask, Attempt
<1>3. Measured'
  BY DEF Measured, InOrder, Return, NoTasks, IdleTask, Attempt
<1>4. SamplesWithin'
  <2> SUFFICES ASSUME excused' = FALSE, NEW i \in 1 .. Len(samples')
               PROVE  Within(samples[i].offset, samples[i].bias)'
    BY DEF SamplesWithin
  <2>1. excused = FALSE /\ theta' = theta
    BY DEF Return, timeVars
  <2>2. CASE samples' = samples
    BY <2>1, <2>2 DEF IInv, SamplesWithin, Within
  <2>3. CASE samples' = Append(samples, info) /\ info.offset # 0
    <3>1. samples \in Seq(NTPInfo)
      BY DEF IInv, TypeOK
    <3>2. CASE i \in 1 .. Len(samples)
      BY <2>1, <2>3, <3>1, <3>2 DEF IInv, SamplesWithin, Within
    <3>3. CASE i = Len(samples) + 1
      BY <2>1, <2>3, <3>1, <3>3 DEF Within
    <3> QED
      BY <2>3, <3>1, <3>2, <3>3
  <2> QED
    BY <2>2, <2>3 DEF Return
<1>5. ChosenWithin' /\ OneMore'
  BY DEF ChosenWithin, OneMore, Return, IInv, TypeOK
<1> QED
  BY <1>1, <1>2, <1>3, <1>4, <1>5 DEF IInv

(* Only the task of the attempt under way can do anything.                 *)
LEMMA OnlyOneActs ==
  ASSUME IInv, NEW k \in Attempt, task[k].at \notin {"idle", "answered", "failed"}
  PROVE  k = retry /\ pc \in {"wait", "join"}
<1>1. k \in Int /\ retry \in Int
  BY ConstantsAre DEF IInv, TypeOK, Constants, Attempt
<1>2. ~ (k < retry) /\ ~ (k > retry)
  BY DEF IInv, OneAtATime, Ended
<1> QED
  BY <1>1, <1>2 DEF IInv, OneAtATime, TypeOK

(* A step of the task or of the packet of the attempt under way.           *)
LEMMA TaskStepIInv ==
  ASSUME IInv, NEW k \in Attempt, task[k].at \notin {"idle", "answered", "failed"},
         NEW e, e.at # "idle",
         task' \in [Attempt -> [at : TaskStage, rx : Int, tx : Int]],
         task'[k] = e, \A j \in Attempt : j # k => task'[j] = task[j],
         t' \in [0 .. 3 -> Int],
         excused' \in BOOLEAN, excused' = FALSE => excused = FALSE,
         UNCHANGED <<timeVars, callVars>>,
         excused' = FALSE => InOrder(e)'
  PROVE  IInv'
<1>1. k = retry /\ pc \in {"wait", "join"}
  BY OnlyOneActs
<1>2. TypeOK'
  BY DEF IInv, TypeOK, timeVars, callVars
<1>3. OneAtATime'
  <2> SUFFICES ASSUME NEW j \in Attempt
               PROVE  /\ j < retry => task'[j].at \in Ended
                      /\ j > retry => task'[j].at = "idle"
                      /\ j = retry => (task'[j].at = "idle" <=> pc \notin {"wait", "join"})
    BY DEF OneAtATime, callVars
  <2>1. CASE j = k
    <3>1. retry \in Nat /\ j = retry
      BY <1>1, <2>1, ConstantsAre DEF Constants, Attempt
    <3>2. task'[j].at # "idle"
      BY <2>1
    <3> QED
      BY <1>1, <3>1, <3>2
  <2>2. CASE j # k
    BY <1>1, <2>2 DEF IInv, TypeOK, OneAtATime
  <2> QED
    BY <2>1, <2>2
<1>4. Measured'
  <2>1. task'[retry'] = e
    BY <1>1 DEF IInv, TypeOK, callVars
  <2> QED
    BY <2>1 DEF Measured
<1>5. SamplesWithin' /\ ChosenWithin' /\ OneMore'
  BY DEF IInv, SamplesWithin, ChosenWithin, OneMore, Within, timeVars, callVars
<1> QED
  BY <1>2, <1>3, <1>4, <1>5 DEF IInv

LEMMA TickIInv == ASSUME IInv, Tick PROVE IInv'
<1> USE ConstantsAre DEF Constants
<1>1. now' = now + 1 /\ now' \in 0 .. MaxNow /\ now \in Int
      /\ UNCHANGED <<theta, pc, request, retry, deadline, samples, offset, task, t, excused>>
  BY DEF IInv, TypeOK, Tick, callVars
<1>2. TypeOK' /\ OneAtATime' /\ OneMore'
  BY <1>1 DEF IInv, TypeOK, OneAtATime, OneMore
<1>3. Measured'
  <2>1. /\ retry \in Attempt /\ task[retry].rx \in Int /\ task[retry].tx \in Int
        /\ theta \in Int /\ t[0] \in Int
    BY DEF IInv, TypeOK
  <2> QED
    BY <1>1, <2>1 DEF IInv, Measured, InOrder
<1>4. SamplesWithin' /\ ChosenWithin'
  BY <1>1 DEF IInv, SamplesWithin, ChosenWithin, Within
<1> QED
  BY <1>2, <1>3, <1>4 DEF IInv

LEMMA NetworkIInv == ASSUME IInv, NEW k \in Attempt, Network(k) PROVE IInv'
<1> USE ConstantsAre DEF Constants
<1>0. /\ task \in [Attempt -> [at : TaskStage, rx : Int, tx : Int]] /\ excused \in BOOLEAN
      /\ task[k].at \in TaskStage /\ task[k].rx \in Int /\ task[k].tx \in Int
      /\ t \in [0 .. 3 -> Int] /\ t[0] \in Int /\ now \in Int /\ theta \in Int
  BY DEF IInv, TypeOK
<1>1. k = retry
  <2>1. task[k].at \in {"asking", "serving", "answering"}
    BY DEF Network, ServerReceives, ServerAnswers, Lose, Becomes
  <2> QED
    BY <2>1, OnlyOneActs
<1>2. excused = FALSE => InOrder(task[k])
  BY <1>1 DEF IInv, Measured
<1>3. CASE ServerReceives(k)
  <2>0. PICK e : e = task'[k]
    OBVIOUS
  <2>1. /\ task' \in [Attempt -> [at : TaskStage, rx : Int, tx : Int]]
        /\ \A j \in Attempt : j # k => task'[j] = task[j]
        /\ e.at = "serving" /\ e.rx = now + theta /\ e.tx = task[k].tx
    <3>1. task' = [task EXCEPT ![k].at = "serving", ![k].rx = now + theta]
      BY <1>3 DEF ServerReceives, ServerClock
    <3>2. "serving" \in TaskStage /\ now + theta \in Int
      BY <1>0 DEF TaskStage
    <3>3. task' \in [Attempt -> [at : TaskStage, rx : Int, tx : Int]]
      BY <1>0, <3>1, <3>2
    <3>4. \A j \in Attempt : j # k => task'[j] = task[j]
      BY <1>0, <3>1
    <3>5. task'[k].rx = now + theta /\ task'[k].tx = task[k].tx
      BY <1>0, <3>1, <3>2
    <3> QED
      BY <1>0, <2>0, <3>1, <3>3, <3>4, <3>5
  <2>2. /\ task'[k] = e /\ e.at # "idle"
        /\ task[k].at \notin {"idle", "answered", "failed"}
        /\ UNCHANGED <<timeVars, callVars, t, excused>>
    BY <1>0, <1>3, <2>0, <2>1 DEF ServerReceives, TaskStage
  <2>3. excused = FALSE => InOrder(e)'
    BY <1>0, <1>2, <1>3, <2>0, <2>1, <2>2 DEF ServerReceives, InOrder, timeVars
  <2>4. /\ t' \in [0 .. 3 -> Int] /\ excused' \in BOOLEAN
        /\ excused' = FALSE => excused = FALSE
    BY <1>0, <2>1, <2>2
  <2> QED
    BY <1>0, <2>1, <2>2, <2>3, <2>4, TaskStepIInv
<1>4. CASE ServerAnswers(k)
  <2>0. PICK e : e = task'[k]
    OBVIOUS
  <2>1. /\ task' \in [Attempt -> [at : TaskStage, rx : Int, tx : Int]]
        /\ \A j \in Attempt : j # k => task'[j] = task[j]
        /\ e.at = "answering" /\ e.rx = task[k].rx /\ e.tx = now + theta
    <3>1. task' = [task EXCEPT ![k].at = "answering", ![k].tx = now + theta]
      BY <1>4 DEF ServerAnswers, ServerClock
    <3>2. "answering" \in TaskStage /\ now + theta \in Int
      BY <1>0 DEF TaskStage
    <3>3. task' \in [Attempt -> [at : TaskStage, rx : Int, tx : Int]]
      BY <1>0, <3>1, <3>2
    <3>4. \A j \in Attempt : j # k => task'[j] = task[j]
      BY <1>0, <3>1
    <3>5. task'[k].tx = now + theta /\ task'[k].rx = task[k].rx
      BY <1>0, <3>1, <3>2
    <3> QED
      BY <1>0, <2>0, <3>1, <3>3, <3>4, <3>5
  <2>2. /\ task'[k] = e /\ e.at # "idle"
        /\ task[k].at \notin {"idle", "answered", "failed"}
        /\ UNCHANGED <<timeVars, callVars, t, excused>>
    BY <1>0, <1>4, <2>0, <2>1 DEF ServerAnswers, TaskStage
  <2>3. excused = FALSE => InOrder(e)'
    BY <1>0, <1>2, <1>4, <2>0, <2>1, <2>2 DEF ServerAnswers, InOrder, timeVars
  <2>4. /\ t' \in [0 .. 3 -> Int] /\ excused' \in BOOLEAN
        /\ excused' = FALSE => excused = FALSE
    BY <1>0, <2>1, <2>2
  <2> QED
    BY <1>0, <2>1, <2>2, <2>3, <2>4, TaskStepIInv
<1>5. CASE Lose(k)
  <2>0. PICK e : e = task'[k]
    OBVIOUS
  <2>1. /\ task' \in [Attempt -> [at : TaskStage, rx : Int, tx : Int]]
        /\ \A j \in Attempt : j # k => task'[j] = task[j]
        /\ e.at = "lost" /\ e.rx = task[k].rx /\ e.tx = task[k].tx
    BY <1>0, <1>5, <2>0 DEF Lose, Becomes, TaskStage
  <2>2. /\ task'[k] = e /\ e.at # "idle"
        /\ task[k].at \notin {"idle", "answered", "failed"}
        /\ UNCHANGED <<timeVars, callVars, t, excused>>
    BY <1>0, <1>5, <2>0, <2>1 DEF Lose, Becomes, TaskStage
  <2>3. InOrder(e)'
    BY <2>0, <2>1 DEF InOrder
  <2>4. /\ t' \in [0 .. 3 -> Int] /\ excused' \in BOOLEAN
        /\ excused' = FALSE => excused = FALSE
    BY <1>0, <2>1, <2>2
  <2> QED
    BY <1>0, <2>1, <2>2, <2>3, <2>4, TaskStepIInv
<1> QED
  BY <1>3, <1>4, <1>5 DEF Network

LEMMA TaskIInv == ASSUME IInv, NEW k \in Attempt, Task(k) PROVE IInv'
<1> USE ConstantsAre DEF Constants
<1>0. /\ task \in [Attempt -> [at : TaskStage, rx : Int, tx : Int]] /\ excused \in BOOLEAN
      /\ task[k].at \in TaskStage /\ task[k].rx \in Int /\ task[k].tx \in Int
      /\ t \in [0 .. 3 -> Int] /\ now \in Int /\ theta \in Int
  BY DEF IInv, TypeOK
<1>1. k = retry
  <2>1. task[k].at \in {"resolving", "asking", "serving", "answering", "lost"}
    BY DEF Task, TaskSends, TaskReceives, TaskThrows
  <2> QED
    BY <2>1, OnlyOneActs
<1>2. excused = FALSE => InOrder(task[k])
  BY <1>1 DEF IInv, Measured
<1>3. CASE TaskSends(k)
  <2>0. PICK e : e = task'[k]
    OBVIOUS
  <2>1. /\ task' \in [Attempt -> [at : TaskStage, rx : Int, tx : Int]]
        /\ \A j \in Attempt : j # k => task'[j] = task[j]
        /\ e.at = "asking" /\ e.rx = task[k].rx /\ e.tx = task[k].tx
        /\ t' \in [0 .. 3 -> Int] /\ t'[0] = now
    BY <1>0, <1>3, <2>0 DEF TaskSends, TaskStage
  <2>2. /\ task'[k] = e /\ e.at # "idle"
        /\ task[k].at \notin {"idle", "answered", "failed"}
        /\ UNCHANGED <<timeVars, callVars, excused>>
    BY <1>0, <1>3, <2>0, <2>1 DEF TaskSends, TaskStage
  <2>3. InOrder(e)'
    BY <1>0, <2>0, <2>1, <2>2 DEF InOrder, timeVars
  <2>4. /\ t' \in [0 .. 3 -> Int] /\ excused' \in BOOLEAN
        /\ excused' = FALSE => excused = FALSE
    BY <1>0, <2>1, <2>2
  <2> QED
    BY <1>0, <2>1, <2>2, <2>3, <2>4, TaskStepIInv
<1>4. CASE TaskReceives(k)
  <2>0. PICK e : e = task'[k]
    OBVIOUS
  <2>1. /\ task' \in [Attempt -> [at : TaskStage, rx : Int, tx : Int]]
        /\ \A j \in Attempt : j # k => task'[j] = task[j]
        /\ e.at = "answered" /\ e.rx = task[k].rx /\ e.tx = task[k].tx
        /\ t' \in [0 .. 3 -> Int] /\ t'[0] = t[0]
        /\ t'[1] = task[k].rx /\ t'[2] = task[k].tx /\ t'[3] = now
    BY <1>0, <1>4, <2>0 DEF TaskReceives, TaskStage
  <2>2. /\ task'[k] = e /\ e.at # "idle"
        /\ task[k].at \notin {"idle", "answered", "failed"}
        /\ UNCHANGED <<timeVars, callVars, excused>>
    BY <1>0, <1>4, <2>0, <2>1 DEF TaskReceives, TaskStage
  <2>3. excused = FALSE => InOrder(e)'
    BY <1>0, <1>2, <1>4, <2>0, <2>1, <2>2 DEF TaskReceives, InOrder, timeVars
  <2>4. /\ t' \in [0 .. 3 -> Int] /\ excused' \in BOOLEAN
        /\ excused' = FALSE => excused = FALSE
    BY <1>0, <2>1, <2>2
  <2> QED
    BY <1>0, <2>1, <2>2, <2>3, <2>4, TaskStepIInv
<1>5. CASE TaskThrows(k)
  <2>0. PICK e : e = task'[k]
    OBVIOUS
  <2>1. /\ task' \in [Attempt -> [at : TaskStage, rx : Int, tx : Int]]
        /\ \A j \in Attempt : j # k => task'[j] = task[j]
        /\ e.at = "failed" /\ e.rx = task[k].rx /\ e.tx = task[k].tx
        /\ t' \in [0 .. 3 -> Int]
    BY <1>0, <1>5, <2>0 DEF TaskThrows, TaskStage
  <2>2. /\ task'[k] = e /\ e.at # "idle"
        /\ task[k].at \notin {"idle", "answered", "failed"}
        /\ excused' = TRUE /\ UNCHANGED <<timeVars, callVars>>
    BY <1>0, <1>5, <2>0, <2>1 DEF TaskThrows, TaskStage
  <2>4. /\ t' \in [0 .. 3 -> Int] /\ excused' \in BOOLEAN
        /\ excused' = FALSE => excused = FALSE
    BY <1>0, <2>1, <2>2
  <2> QED
    BY <1>0, <2>1, <2>2, <2>4, TaskStepIInv
<1> QED
  BY <1>3, <1>4, <1>5 DEF Task

-----------------------------------------------------------------------------
(* The steps of the call.                                                  *)

LEMMA TryIInv == ASSUME IInv, Try PROVE IInv'
<1> USE ConstantsAre DEF Constants
<1>0. /\ task \in [Attempt -> [at : TaskStage, rx : Int, tx : Int]]
      /\ retry \in Attempt /\ pc = "try" /\ pc' = "wait"
      /\ UNCHANGED <<now, theta, request, retry, samples, offset, t, excused>>
  BY DEF IInv, TypeOK, Try, timeVars
<1>1. task' \in [Attempt -> [at : TaskStage, rx : Int, tx : Int]]
  BY <1>0 DEF Try, TaskStage
<1>2. /\ task'[retry].at = "resolving"
      /\ \A j \in Attempt : j # retry => task'[j] = task[j]
  BY <1>0 DEF Try
<1>3. TypeOK'
  <2>1. deadline' \in Nat
    <3>1. WaitTime \in Nat
      BY <1>0, WaitTimeType
    <3>2. now \in Nat /\ deadline' = now + WaitTime
      BY DEF IInv, TypeOK, Try
    <3> QED
      BY <3>1, <3>2
  <2> QED
    BY <1>0, <1>1, <2>1 DEF IInv, TypeOK
<1>4. OneAtATime'
  <2> SUFFICES ASSUME NEW j \in Attempt
               PROVE  /\ j < retry => task'[j].at \in Ended
                      /\ j > retry => task'[j].at = "idle"
                      /\ j = retry => (task'[j].at = "idle" <=> pc' \notin {"wait", "join"})
    BY <1>0 DEF OneAtATime
  <2>1. CASE j = retry
    BY <1>0, <1>2, <2>1 DEF Attempt
  <2>2. CASE j # retry
    BY <1>0, <1>2, <2>2 DEF IInv, OneAtATime
  <2> QED
    BY <2>1, <2>2
<1>5. Measured'
  BY <1>0, <1>2 DEF Measured, InOrder
<1>6. SamplesWithin' /\ ChosenWithin' /\ OneMore'
  BY <1>0 DEF IInv, SamplesWithin, ChosenWithin, OneMore, Within
<1> QED
  BY <1>3, <1>4, <1>5, <1>6 DEF IInv

LEMMA ReadyIInv == ASSUME IInv, Ready PROVE IInv'
<1>1. pc = "wait" /\ task[retry].at \in Ended /\ Return(Info)
  BY DEF Ready
<1>2. TypeOK /\ Info \in NTPInfo
  BY InfoFacts DEF IInv
<1>3. excused = FALSE => Within(Info.offset, Info.bias)
  <2> SUFFICES ASSUME excused = FALSE PROVE Within(Info.offset, Info.bias)
    OBVIOUS
  <2>1. InOrder(task[retry])
    BY DEF IInv, Measured
  <2>2. InOrder([at |-> "answered", rx |-> 0, tx |-> 0])
    BY <1>1, <2>1 DEF InOrder, Ended
  <2> QED
    BY <1>2, <2>2, InfoFacts
<1> QED
  BY <1>1, <1>2, <1>3, ReturnIInv

LEMMA TimeoutIInv == ASSUME IInv, Timeout PROVE IInv'
<1>1. /\ pc = "wait" /\ pc' = "join"
      /\ UNCHANGED <<now, theta, request, retry, deadline, samples, offset, task, t, excused>>
  BY DEF Timeout, timeVars
<1> QED
  BY <1>1 DEF IInv, TypeOK, OneAtATime, OneMore, Measured, InOrder, SamplesWithin,
              ChosenWithin, Within

LEMMA RetryIInv == ASSUME IInv, Retry PROVE IInv'
<1> USE ConstantsAre DEF Constants
<1>1. CASE Return([offset |-> 0, bias |-> 0])
  <2>1. [offset |-> 0, bias |-> 0] \in NTPInfo /\ pc \in {"wait", "join"}
    BY DEF NTPInfo, Retry
  <2> QED
    BY <1>1, <2>1, ReturnIInv
<1>2. CASE ~ (retry + 1 > Retries)
  <2>1. /\ pc = "join" /\ task[retry].at \in Ended
        /\ pc' = "try" /\ retry' = retry + 1
        /\ UNCHANGED <<now, theta, request, deadline, samples, offset, task, t, excused>>
        /\ retry \in Attempt /\ retry + 1 \in Attempt
    BY <1>2 DEF Retry, timeVars, IInv, TypeOK, Attempt
  <2>2. TypeOK' /\ OneMore' /\ SamplesWithin' /\ ChosenWithin'
    BY <2>1 DEF IInv, TypeOK, OneMore, SamplesWithin, ChosenWithin, Within
  <2>3. OneAtATime'
    BY <2>1, SMTT(30) DEF IInv, TypeOK, OneAtATime, Ended, Attempt
  <2>4. Measured'
    <3>1. task'[retry'].at = "idle"
      BY <2>1 DEF IInv, OneAtATime, Attempt
    <3> QED
      BY <3>1 DEF Measured, InOrder
  <2> QED
    BY <2>2, <2>3, <2>4 DEF IInv
<1> QED
  BY <1>1, <1>2 DEF Retry

LEMMA ChooseNoneIInv == ASSUME IInv, ChooseNone PROVE IInv'
<1>1. /\ pc = "choose" /\ pc' = "broken"
      /\ UNCHANGED <<now, theta, request, retry, deadline, samples, offset, task, t, excused>>
  BY DEF ChooseNone, timeVars
<1> QED
  BY <1>1 DEF IInv, TypeOK, OneAtATime, OneMore, Measured, InOrder, SamplesWithin,
              ChosenWithin, Within

LEMMA ChooseIInv == ASSUME IInv, Choose PROVE IInv'
<1> USE ConstantsAre DEF Constants
<1>1. PICK i \in BestSamples :
        IF samples[i].offset > 2 * Plausible
        THEN pc' = "thrown" /\ UNCHANGED offset
        ELSE pc' = "done" /\ offset' = samples[i].offset
  BY DEF Choose
<1>2. /\ pc = "choose" /\ pc' \in {"thrown", "done"}
      /\ UNCHANGED <<now, theta, request, retry, deadline, samples, task, t, excused>>
  BY <1>1 DEF Choose, timeVars
<1>3. /\ i \in 1 .. Len(samples)
      /\ \A j \in 1 .. Len(samples) : samples[i].bias <= samples[j].bias
  BY DEF BestSamples
<1>4. /\ samples \in Seq(NTPInfo) /\ theta \in Int
      /\ \A j \in 1 .. Len(samples) : samples[j].offset \in Int /\ samples[j].bias \in Int
  <2>1. samples \in Seq(NTPInfo) /\ theta \in Int
    BY DEF IInv, TypeOK
  <2>2. \A j \in 1 .. Len(samples) : samples[j] \in NTPInfo
    BY <2>1
  <2> QED
    BY <2>1, <2>2 DEF NTPInfo
<1>5. offset' \in Int
  BY <1>1, <1>3, <1>4 DEF IInv, TypeOK
<1>6. TypeOK' /\ OneMore' /\ OneAtATime' /\ Measured' /\ SamplesWithin'
  BY <1>2, <1>5 DEF IInv, TypeOK, OneAtATime, OneMore, Measured, InOrder, SamplesWithin,
                    Within
<1>7. ChosenWithin'
  <2> SUFFICES ASSUME excused = FALSE, pc' = "done", NEW j \in 1 .. Len(samples)
               PROVE  Within(offset, samples[j].bias)'
    BY <1>2 DEF ChosenWithin
  <2>1. offset' = samples[i].offset
    BY <1>1
  <2>2. Within(samples[i].offset, samples[i].bias)
    BY <1>3 DEF IInv, SamplesWithin
  <2> QED
    BY <1>2, <1>3, <1>4, <2>1, <2>2 DEF Within
<1> QED
  BY <1>6, <1>7 DEF IInv

LEMMA NextIInv == IInv /\ [Next]_vars => IInv'
<1> SUFFICES ASSUME IInv, [Next]_vars PROVE IInv'
  OBVIOUS
<1>1. CASE Tick
  BY <1>1, TickIInv
<1>2. CASE Call
  BY <1>2, TryIInv, ReadyIInv, TimeoutIInv, RetryIInv, ChooseNoneIInv, ChooseIInv DEF Call
<1>3. CASE \E k \in Attempt : Task(k) \/ Network(k)
  BY <1>3, TaskIInv, NetworkIInv
<1>4. CASE UNCHANGED vars
  BY <1>4 DEF IInv, TypeOK, OneAtATime, OneMore, Measured, InOrder, SamplesWithin,
              ChosenWithin, Within, vars, timeVars, callVars
<1> QED
  BY <1>1, <1>2, <1>3, <1>4 DEF Next

THEOREM Invariance == Spec => []IInv
BY InitIInv, NextIInv, PTL DEF Spec

-----------------------------------------------------------------------------

(* The state of a call keeps its type: also a call whose tasks threw only  *)
(* computes with numbers.  (ntp.cpp)                                       *)
THEOREM TypeCorrect == Spec => []TypeOK
<1>1. IInv => TypeOK
  BY DEF IInv
<1> QED
  BY <1>1, Invariance, PTL

(* The offset a call returns is off by no more than the shortest round     *)
(* trip it measured, for any delays, timeouts, retries and clock offset,   *)
(* unless a task threw.  (ntp.cpp: request_time_delta and the choice by    *)
(* bias in get_time_delta)                                                 *)
THEOREM OffsetsAreWithinBias == Spec => []OffsetIsWithinBias
<1>1. IInv => OffsetIsWithinBias
  <2> SUFFICES ASSUME IInv, pc = "done", excused = FALSE, NEW i \in 1 .. Len(samples)
               PROVE  Abs(offset - 2 * theta) <= samples[i].bias
    BY DEF OffsetIsWithinBias, IInv, TypeOK
  <2>1. offset \in Int /\ theta \in Int /\ samples[i].bias \in Int
    <3>1. samples \in Seq(NTPInfo) /\ offset \in Int /\ theta \in Int
      BY ConstantsAre DEF IInv, TypeOK, Constants
    <3>2. samples[i] \in NTPInfo
      BY <3>1
    <3> QED
      BY <3>1, <3>2 DEF NTPInfo
  <2> QED
    BY <2>1 DEF IInv, ChosenWithin, Within, Abs
<1> QED
  BY <1>1, Invariance, PTL

-----------------------------------------------------------------------------
(* A call comes to its end: what remains of CallEnds without fairness.     *)

(* How far the call is from the end of an attempt, and its task from its.  *)
CallRank ==
  [try |-> 3, wait |-> 2, join |-> 1, choose |-> 1, done |-> 0, thrown |-> 0, broken |-> 0]

TaskRank ==
  [idle |-> 0, resolving |-> 5, asking |-> 4, serving |-> 3, answering |-> 2, lost |-> 1,
   answered |-> 0, failed |-> 0]

(* Every step but a tick of the clock is one of finitely many: a request   *)
(* has returned, an attempt was given up, or the call or the task it waits *)
(* for has moved on.                                                       *)
Closer ==
  \/ request < request' /\ request' <= Requests
  \/ request' = request /\ retry < retry' /\ retry' <= Retries
  \/ /\ UNCHANGED <<request, retry>>
     /\ \/ CallRank[pc'] < CallRank[pc]
        \/ pc' = pc /\ TaskRank[task'[retry].at] < TaskRank[task[retry].at]

CallMovesOn == now' = now => Closer

(* A call that is not over has a step to take, or there is a task that has *)
(* one or has lost its packet; and a sample to choose if there is any.     *)
CallIsNotStuck ==
  /\ pc \in {"wait", "join"} => task[retry].at # "idle"
  /\ pc = "choose" => samples = <<>> \/ BestSamples # {}

(* A smallest bias, and the first sample that has it.                      *)
LEMMA BestExists ==
  ASSUME NEW s \in Seq(NTPInfo), s # <<>>
  PROVE  \E i \in 1 .. Len(s) :
           /\ \A j \in 1 .. Len(s) : s[i].bias <= s[j].bias
           /\ \A j \in 1 .. i - 1 : s[i].bias < s[j].bias
<1> DEFINE First(n, i) == /\ \A j \in 1 .. n : s[i].bias <= s[j].bias
                          /\ \A j \in 1 .. i - 1 : s[i].bias < s[j].bias
           Bad == {n \in 1 .. Len(s) : \A i \in 1 .. n : ~ First(n, i)}
<1>1. Len(s) \in Nat \ {0} /\ \A i \in 1 .. Len(s) : s[i].bias \in Int
  <2>1. \A i \in 1 .. Len(s) : s[i] \in NTPInfo
    OBVIOUS
  <2>2. \A e \in NTPInfo : e.bias \in Int
    BY DEF NTPInfo
  <2>3. Len(s) \in Nat \ {0}
    OBVIOUS
  <2> QED
    BY <2>1, <2>2, <2>3
<1>2. ASSUME Bad # {} PROVE FALSE
  <2>1. PICK n \in Bad : \A m \in Bad : ~ (<<m, n>> \in OpToRel(<, Nat))
    <3>1. Bad \in SUBSET Nat
      BY <1>1
    <3> HIDE DEF Bad
    <3> QED
      BY <1>2, <3>1, WFMin, NatLessThanWellFounded
  <2>2. n \in Nat /\ n \in 1 .. Len(s)
    BY <1>1
  <2>3. n # 1
    <3>1. First(1, 1)
      BY <1>1
    <3> QED
      BY <3>1
  <2>4. n - 1 \in 1 .. Len(s) /\ n - 1 \notin Bad
    <3>1. n - 1 \in Nat /\ n - 1 < n /\ n - 1 \in 1 .. Len(s)
      BY <1>1, <2>2, <2>3
    <3>2. <<n - 1, n>> \in OpToRel(<, Nat)
      BY <2>2, <3>1 DEF OpToRel
    <3> HIDE DEF Bad
    <3> QED
      BY <2>1, <3>1, <3>2
  <2>5. PICK i \in 1 .. n - 1 : First(n - 1, i)
    BY <2>4
  <2>6. CASE s[i].bias <= s[n].bias
    <3>1. First(n, i) /\ i \in 1 .. n
      BY <1>1, <2>2, <2>5, <2>6
    <3> QED
      BY <3>1
  <2>7. CASE s[n].bias < s[i].bias
    <3>1. s[n].bias \in Int /\ s[i].bias \in Int /\ \A j \in 1 .. n : s[j].bias \in Int
      BY <1>1, <2>2
    <3>2. \A j \in 1 .. n - 1 : s[n].bias < s[j].bias
      BY <2>2, <2>5, <2>7, <3>1
    <3>3. \A j \in 1 .. n : j = n \/ j \in 1 .. n - 1
      BY <2>2
    <3>4. First(n, n) /\ n \in 1 .. n
      BY <2>2, <3>1, <3>2, <3>3
    <3> QED
      BY <3>4
  <2> QED
    BY <1>1, <2>2, <2>6, <2>7
<1>3. PICK i \in 1 .. Len(s) : First(Len(s), i)
  BY <1>1, <1>2
<1> QED
  BY <1>3

(* A task acts only while its attempt is the one that is waited for.       *)
LEMMA TaskMovesOn ==
  ASSUME IInv, NEW k \in Attempt, Task(k) \/ Network(k)
  PROVE  Closer
<1>1. task[k].at \in {"resolving", "asking", "serving", "answering", "lost"}
  BY DEF Task, Network, TaskSends, TaskReceives, TaskThrows, ServerReceives, ServerAnswers,
         Lose, Becomes
<1>2. k = retry
  <2>1. k \in Int /\ retry \in Int
    BY ConstantsAre DEF IInv, TypeOK, Attempt, Constants
  <2> QED
    BY <1>1, <2>1 DEF IInv, OneAtATime, Ended
<1>3. UNCHANGED callVars /\ task \in [Attempt -> [at : TaskStage, rx : Int, tx : Int]]
  BY DEF Task, Network, TaskSends, TaskReceives, TaskThrows, ServerReceives, ServerAnswers,
         Lose, Becomes, IInv, TypeOK
<1>4. TaskRank[task'[k].at] < TaskRank[task[k].at]
  <2>1. \/ task[k].at = "resolving" /\ task'[k].at \in {"asking", "failed"}
        \/ task[k].at = "asking" /\ task'[k].at \in {"serving", "lost", "failed"}
        \/ task[k].at = "serving" /\ task'[k].at \in {"answering", "failed"}
        \/ task[k].at = "answering" /\ task'[k].at \in {"answered", "lost", "failed"}
        \/ task[k].at = "lost" /\ task'[k].at = "failed"
    BY <1>1, <1>3
    DEF Task, Network, TaskSends, TaskReceives, TaskThrows, ServerReceives, ServerAnswers,
        Lose, Becomes
  <2> QED
    BY <2>1 DEF TaskRank
<1> QED
  BY <1>2, <1>3, <1>4 DEF Closer, callVars

LEMMA OwnStepMovesOn ==
  ASSUME IInv, Call
  PROVE  Closer
<1>1. request \in Nat /\ retry \in Nat /\ Requests \in Nat /\ Retries \in Nat
  BY ConstantsAre DEF IInv, TypeOK, Attempt, Constants
<1>2. ASSUME NEW info, Return(info), pc \in {"wait", "join"} PROVE Closer
  BY <1>1, <1>2 DEF Return, Closer, IInv, OneMore
<1>3. CASE Try
  BY <1>3 DEF Try, Closer, CallRank
<1>4. CASE Ready
  BY <1>2, <1>4 DEF Ready
<1>5. CASE Timeout
  BY <1>5 DEF Timeout, Closer, CallRank
<1>6. CASE Retry
  <2>1. CASE retry + 1 > Retries
    BY <1>2, <1>6, <2>1 DEF Retry
  <2>2. CASE ~ (retry + 1 > Retries)
    BY <1>1, <1>6, <2>2 DEF Retry, Closer
  <2> QED
    BY <2>1, <2>2
<1>7. CASE ChooseNone \/ Choose
  BY <1>7 DEF ChooseNone, Choose, Closer, CallRank
<1> QED
  BY <1>3, <1>4, <1>5, <1>6, <1>7 DEF Call

(* A call makes finitely many steps, and is never left without one: the    *)
(* task it waits for was started, and of samples there is a best one.      *)
(* What CallEnds needs beyond that is that threads are scheduled, packets  *)
(* arrive and time passes.  (ntp.cpp: the loops of request_time_delta and  *)
(* get_time_delta, and the choice by bias)                                 *)
THEOREM CallsComeToAnEnd == Spec => []CallIsNotStuck /\ [][CallMovesOn]_vars
<1>1. IInv => CallIsNotStuck
  <2> SUFFICES ASSUME IInv PROVE CallIsNotStuck
    OBVIOUS
  <2>1. retry \in Attempt /\ samples \in Seq(NTPInfo)
    BY DEF IInv, TypeOK
  <2>2. pc \in {"wait", "join"} => task[retry].at # "idle"
    BY <2>1 DEF IInv, OneAtATime
  <2>3. samples # <<>> => BestSamples # {}
    BY <2>1, BestExists DEF BestSamples
  <2> QED
    BY <2>2, <2>3 DEF CallIsNotStuck
<1>2. IInv /\ [Next]_vars => [CallMovesOn]_vars
  <2> SUFFICES ASSUME IInv, Next, now' = now PROVE Closer
    BY DEF CallMovesOn
  <2>1. ~ Tick
    BY DEF Tick, IInv, TypeOK
  <2> QED
    BY <2>1, TaskMovesOn, OwnStepMovesOn DEF Next
<1> QED
  BY <1>1, <1>2, Invariance, PTL DEF Spec

=============================================================================
