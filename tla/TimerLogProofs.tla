--------------------------- MODULE TimerLogProofs ---------------------------
(***************************************************************************)
(* Theorems about TimerLog, for any events, in any order of arrival and in *)
(* any number.                                                             *)
(*                                                                         *)
(* The argument: after every step the log is sorted, the evaluation drops  *)
(* nothing of it, and what is shown is what it evaluates to (Canonical).   *)
(* So what is shown is a function of the log, and a fact about the two is  *)
(* proved along the entries of a sorted log, without the steps.            *)
(***************************************************************************)
EXTENDS TimerLog, EventLogProofs

-----------------------------------------------------------------------------
(* The log and what is shown of it.                                        *)

TypeOK ==
  /\ log \in Seq(EventEntry)
  /\ state \in [status : TimerStatus, start_time : Instant, was_prepared : BOOLEAN]
  /\ history \in Seq(HistoryEntry)
  /\ segments \in Seq(TimeSegment)
  /\ received \in Seq(Input)

Canonical ==
  /\ log \in Seq(EventEntry) /\ received \in Seq(Input)
  /\ Sorted(log) /\ UniqueUuids(log) /\ Fixed(log) /\ Within(log, received)
  /\ history = Eval(log).fsm.history /\ segments = Eval(log).fsm.segments
  /\ state = IF received = <<>>
             THEN [status |-> "stopped", start_time |-> 0, was_prepared |-> FALSE]
             ELSE Verdict(Eval(log).fsm)

LEMMA InitCanonical == Init => Canonical
<1> SUFFICES ASSUME Init PROVE Canonical
  OBVIOUS
<1>1. Eval(<<>>).fsm = FsmInit /\ Eval(<<>>).kept = <<>>
  BY EvalEmpty DEF Base
<1>2. Within(<<>>, <<>>)
  BY EmptyLog DEF Within
<1>3. FsmInit.history = <<>> /\ FsmInit.segments = <<>>
  BY DEF FsmInit
<1> QED
  BY <1>1, <1>2, <1>3, EmptyLog DEF Init, Canonical, Fixed

(* What an arrival makes of the log: it is sorted in and evaluated.        *)
LEMMA ArrivalSorted ==
  ASSUME Canonical, NEW e \in Input, NEW t \in SortedForms(Append(log, e))
  PROVE  /\ e \in EventEntry /\ t \in Seq(EventEntry) /\ Sorted(t)
         /\ Within(t, Append(log, e))
         /\ Eval(t).kept \in Seq(EventEntry) /\ Within(Eval(t).kept, t)
         /\ Sorted(Eval(t).kept) /\ UniqueUuids(Eval(t).kept) /\ Fixed(Eval(t).kept)
         /\ Eval(Eval(t).kept) = Eval(t) /\ Sound(Eval(t).fsm)
<1>1. e \in EventEntry /\ Append(log, e) \in Seq(EventEntry)
  BY InputAssumption DEF Canonical
<1>2. t \in Seq(EventEntry) /\ Sorted(t) /\ Within(t, Append(log, e))
  BY <1>1, SortedFormsFacts DEF Within
<1>3. Clean(t)
  BY <1>2, EvalSound
<1>4. Eval(Eval(t).kept) = Eval(t)
  BY <1>2, EvalTwice
<1>5. Eval(t).kept \in Seq(EventEntry) /\ Within(Eval(t).kept, t)
  BY <1>2, EvalRecord
<1> QED
  BY <1>1, <1>2, <1>3, <1>4, <1>5 DEF Clean, Fixed

(* Every entry of the log is an event that arrived.                        *)
LEMMA ArrivalIsReceived ==
  ASSUME Canonical, NEW e \in Input, NEW t \in SortedForms(Append(log, e))
  PROVE  /\ Append(received, e) \in Seq(Input) /\ Append(received, e) # <<>>
         /\ Within(Eval(t).kept, Append(received, e))
<1> DEFINE k == Eval(t).kept  w == Append(log, e)  r == Append(received, e)
<1>1. Within(k, t) /\ Within(t, w) /\ Within(log, received)
  BY ArrivalSorted DEF Canonical
<1>2. /\ Len(w) = Len(log) + 1 /\ Len(log) \in Nat /\ w[Len(log) + 1] = e
      /\ \A i \in 1 .. Len(log) : w[i] = log[i]
  BY DEF Canonical
<1>3. /\ r \in Seq(Input) /\ r # <<>> /\ Len(r) = Len(received) + 1 /\ Len(received) \in Nat
      /\ r[Len(received) + 1] = e /\ \A i \in 1 .. Len(received) : r[i] = received[i]
  <2>1. received \in Seq(Input)
    BY DEF Canonical
  <2>2. r \in Seq(Input) /\ Len(r) = Len(received) + 1 /\ Len(received) \in Nat
    BY <2>1
  <2>3. r # <<>> /\ r[Len(received) + 1] = e /\ \A i \in 1 .. Len(received) : r[i] = received[i]
    BY <2>1
  <2> QED
    BY <2>2, <2>3
<1> HIDE DEF w, r, k
<1>4. Within(w, r)
  <2> SUFFICES ASSUME NEW i \in 1 .. Len(w) PROVE \E j \in 1 .. Len(r) : w[i] = r[j]
    BY DEF Within
  <2>1. CASE i = Len(log) + 1
    <3>1. Len(received) + 1 \in 1 .. Len(r) /\ w[i] = r[Len(received) + 1]
      BY <1>2, <1>3, <2>1
    <3> QED
      BY <3>1
  <2>2. CASE i # Len(log) + 1
    <3>1. i \in 1 .. Len(log) /\ w[i] = log[i]
      BY <1>2, <2>2
    <3>2. PICK j \in 1 .. Len(received) : log[i] = received[j]
      BY <1>1, <3>1 DEF Within
    <3>3. j \in 1 .. Len(r) /\ r[j] = received[j]
      BY <1>3
    <3> QED
      BY <3>1, <3>2, <3>3
  <2> QED
    BY <2>1, <2>2
<1>5. Within(k, r)
  BY <1>1, <1>4 DEF Within
<1> QED
  BY <1>3, <1>5 DEF k, r

LEMMA AddCanonical ==
  ASSUME Canonical, NEW e \in Input, Add(e)
  PROVE  Canonical'
<1>1. PICK t \in SortedForms(Append(log, e)) :
        /\ log' = Eval(t).kept /\ state' = Verdict(Eval(t).fsm)
        /\ history' = Eval(t).fsm.history /\ segments' = Eval(t).fsm.segments
  BY DEF Add
<1>2. received' = Append(received, e)
  BY DEF Add
<1> QED
  BY <1>1, <1>2, ArrivalSorted, ArrivalIsReceived DEF Canonical

LEMMA AlwaysCanonical == Spec => []Canonical
<1>1. Canonical /\ [Next]_vars => Canonical'
  <2> SUFFICES ASSUME Canonical, [Next]_vars PROVE Canonical'
    OBVIOUS
  <2>1. CASE Next
    BY <2>1, AddCanonical DEF Next, Arrive
  <2>2. CASE UNCHANGED vars
    BY <2>2 DEF vars, Canonical
  <2> QED
    BY <2>1, <2>2
<1> QED
  BY <1>1, InitCanonical, PTL DEF Spec

-----------------------------------------------------------------------------

(* The log, what is shown and the lists keep their types.  (eventstore.h)  *)
THEOREM TypeCorrect == Spec => []TypeOK
<1>1. Canonical => TypeOK
  <2> SUFFICES ASSUME Canonical PROVE TypeOK
    OBVIOUS
  <2>1. Sound(Eval(log).fsm)
    BY EvalSound DEF Canonical, Clean
  <2>2. "stopped" \in TimerStatus /\ 0 \in Instant
    BY TimeMaxAssumption DEF TimerStatus, Instant
  <2> QED
    BY <2>1, <2>2, FsmTypes DEF Canonical, TypeOK, Verdict, Sound
<1> QED
  BY <1>1, AlwaysCanonical, PTL

(* Evaluating the stored log again changes nothing, whatever arrived and   *)
(* in whatever order.  (eventstore.cpp: reevaluate_state with its erase_if)*)
THEOREM ReevaluationIsStable == Spec => []ReevaluationStable
<1>1. Canonical => ReevaluationStable
  BY DEF Canonical, ReevaluationStable, Fixed
<1> QED
  BY <1>1, AlwaysCanonical, PTL

-----------------------------------------------------------------------------
(* Events that arrive in the order of their time stamps.                   *)

Exact == Canonical /\ (Sorted(received) => Eval(received) = Eval(log))

(* The last of the events that arrived in order is put at the end.         *)
LEMMA LastIsLast ==
  ASSUME Canonical, NEW e \in Input, IsNew(e, ToSet(received)),
         Sorted(Append(received, e)), NEW t \in SortedForms(Append(log, e))
  PROVE  Sorted(received) /\ t = Append(log, e)
<1> DEFINE r == Append(received, e)
<1>1. /\ received \in Seq(Input) /\ Len(r) = Len(received) + 1 /\ Len(received) \in Nat
      /\ r[Len(received) + 1] = e /\ \A i \in 1 .. Len(received) : r[i] = received[i]
  BY DEF Canonical
<1>2. Sorted(r)
  OBVIOUS
<1> HIDE DEF r
<1>3. Sorted(received)
  <2> SUFFICES ASSUME NEW i \in 1 .. Len(received), NEW j \in 1 .. Len(received), i < j
               PROVE  ~ Before(received[j], received[i])
    BY DEF Sorted
  <2>1. i \in 1 .. Len(r) /\ j \in 1 .. Len(r)
    BY <1>1
  <2> QED
    BY <1>1, <1>2, <2>1 DEF Sorted
<1>4. \A i \in 1 .. Len(received) : ~ Before(e, received[i])
  <2> TAKE i \in 1 .. Len(received)
  <2>1. i \in 1 .. Len(r) /\ Len(received) + 1 \in 1 .. Len(r) /\ i < Len(received) + 1
    BY <1>1
  <2> QED
    BY <1>1, <1>2, <2>1 DEF Sorted
<1>5. ASSUME NEW i \in 1 .. Len(log) PROVE Before(log[i], e)
  <2>1. log[i] \in EventEntry /\ e \in EventEntry
    BY InputAssumption DEF Canonical
  <2>2. PICK j \in 1 .. Len(received) : log[i] = received[j]
    BY DEF Canonical, Within
  <2>3. log[i] \in ToSet(received)
    BY <1>1, <2>2 DEF ToSet
  <2>4. log[i].uuid = e.uuid => log[i].time # e.time
    BY <2>3 DEF IsNew
  <2>5. ~ Before(e, log[i])
    BY <1>4, <2>2
  <2>6. log[i].time \in Int /\ e.time \in Int /\ log[i].uuid \in Nat /\ e.uuid \in Nat
    BY <2>1, EventTypes, UuidAssumption
  <2> QED
    BY <2>4, <2>5, <2>6 DEF Before
<1>6. log \in Seq(EventEntry) /\ Strict(log) /\ e \in EventEntry
  BY SortedIsStrict, InputAssumption DEF Canonical
<1> QED
  BY <1>3, <1>5, <1>6, LateSortedForm

LEMMA AddExact ==
  ASSUME Exact, NEW e \in Input, Arrive(e)
  PROVE  Exact'
<1>1. Canonical' /\ Canonical
  BY AddCanonical DEF Exact, Arrive
<1>2. PICK t \in SortedForms(Append(log, e)) : log' = Eval(t).kept
  BY DEF Arrive, Add
<1>3. received' = Append(received, e) /\ IsNew(e, ToSet(received))
  BY DEF Arrive, Add
<1>4. ASSUME Sorted(received') PROVE Eval(received') = Eval(log')
  <2>1. Sorted(received) /\ t = Append(log, e)
    BY <1>1, <1>3, <1>4, LastIsLast
  <2>2. Eval(received) = Eval(log)
    BY <2>1 DEF Exact
  <2>3. Eval(received') = EvalStep(Eval(received), e)
    BY <1>1, <1>3, EvalAppend DEF Canonical
  <2>4. Eval(t) = EvalStep(Eval(log), e)
    BY <1>1, <2>1, EvalAppend, InputAssumption DEF Canonical
  <2>5. Eval(log') = Eval(t)
    BY <1>1, <1>2, ArrivalSorted
  <2> QED
    BY <2>2, <2>3, <2>4, <2>5
<1> QED
  BY <1>1, <1>4 DEF Exact

(* Erasing irrelevant entries loses nothing as long as events arrive in    *)
(* the order of their time stamps: the log evaluates to what all events    *)
(* ever added would, however many were added.  (eventstore.cpp: erase_if   *)
(* at the end of reevaluate_state)                                         *)
THEOREM PruningLosesNothing == Spec => []PruningIsExact
<1>1. Init => Exact
  BY InitCanonical DEF Init, Exact
<1>2. Exact /\ [Next]_vars => Exact'
  <2> SUFFICES ASSUME Exact, [Next]_vars PROVE Exact'
    OBVIOUS
  <2>1. CASE Next
    BY <2>1, AddExact DEF Next
  <2>2. CASE UNCHANGED vars
    BY <2>2 DEF vars, Exact, Canonical
  <2> QED
    BY <2>1, <2>2
<1>3. Exact => PruningIsExact
  BY DEF Exact, Canonical, PruningIsExact
<1> QED
  BY <1>1, <1>2, <1>3, PTL DEF Spec

-----------------------------------------------------------------------------
(* The segments.  In a run, the slots up to the index are set, the last of *)
(* them ends at the mark, and the first begins with the run, unless the    *)
(* segments were cleared since.                                            *)

Cleared(s, x) == \E k \in 1 .. Len(s) : s[k].type = "segment_clear" /\ s[k].time >= x

Consecutive(slots) ==
  \A i \in 2 .. Len(slots) :
    slots[i].is_set => slots[i-1].is_set /\ slots[i].start = slots[i-1].end

Chained(f, s) ==
  /\ Consecutive(f.segments)
  /\ f.status = "running" =>
       /\ \A i \in 1 .. Len(f.segments) : f.segments[i].is_set <=> i <= f.segment_index
       /\ f.segment_index > 0 => f.segments[f.segment_index].end = f.segment
       /\ \/ f.segment_index = 0 /\ f.segment = f.start
          \/ f.segment_index > 0 /\ f.segments[1].start = f.start
          \/ Cleared(s, f.start)

(* A filled slot: the one after the index, which is set and begins at the  *)
(* mark; the others stay.                                                  *)
LEMMA FillsOneSlot ==
  ASSUME NEW f, Sound(f), NEW e \in EventEntry, NEW stop \in Instant,
         NEW name \in Label \cup {NoName}
  PROVE  LET new == FillSegment(f, e, stop, name).segments
             n == f.segment_index + 1
         IN  /\ Len(new) = IF n > Len(f.segments) THEN n ELSE Len(f.segments)
             /\ n \in 1 .. Len(new)
             /\ new[n].is_set /\ new[n].start = f.segment /\ new[n].end = e.time
             /\ \A i \in 1 .. Len(new) : i # n => i \in 1 .. Len(f.segments) /\ new[i] = f.segments[i]
<1> DEFINE n == f.segment_index + 1
           slot == Filled(f, e, stop, name)
           new == IF IsNewSlot(f) THEN Append(f.segments, slot)
                  ELSE [f.segments EXCEPT ![n] = slot]
<1>1. f \in Fsm /\ f.segments \in Seq(TimeSegment) /\ f.segment_index \in Nat
      /\ f.segment_index <= Len(f.segments)
  BY FsmTypes DEF Sound
<1>2. slot \in TimeSegment
  BY <1>1, FilledType
<1>3. slot.is_set /\ slot.start = f.segment /\ slot.end = e.time
  BY DEF Filled
<1>4. FillSegment(f, e, stop, name).segments = new
  BY <1>1 DEF FillSegment, Fsm
<1> HIDE DEF slot
<1>5. CASE IsNewSlot(f)
  <2>1. new = Append(f.segments, slot) /\ Len(f.segments) = f.segment_index
    BY <1>5 DEF IsNewSlot
  <2>2. /\ Len(new) = n /\ n \in 1 .. Len(new) /\ new[n] = slot
        /\ \A i \in 1 .. Len(new) : i # n => i \in 1 .. Len(f.segments) /\ new[i] = f.segments[i]
    BY <1>1, <1>2, <2>1
  <2> HIDE DEF new
  <2> QED
    BY <1>1, <1>3, <1>4, <2>1, <2>2
<1>6. CASE ~ IsNewSlot(f)
  <2>1. new = [f.segments EXCEPT ![n] = slot] /\ n \in 1 .. Len(f.segments)
    BY <1>1, <1>6 DEF IsNewSlot
  <2>2. /\ Len(new) = Len(f.segments) /\ n \in 1 .. Len(new) /\ new[n] = slot
        /\ \A i \in 1 .. Len(new) : i # n => i \in 1 .. Len(f.segments) /\ new[i] = f.segments[i]
    BY <1>1, <1>2, <2>1
  <2> HIDE DEF new
  <2> QED
    BY <1>1, <1>3, <1>4, <2>1, <2>2
<1> QED
  BY <1>5, <1>6

(* Unset slots are consecutive.                                            *)
LEMMA UnsetSlots ==
  ASSUME NEW slots \in Seq(TimeSegment)
  PROVE  /\ Len(Unset(slots)) = Len(slots) /\ Consecutive(Unset(slots))
         /\ \A i \in 1 .. Len(slots) : ~ Unset(slots)[i].is_set
<1>1. Len(Unset(slots)) = Len(slots) /\ Len(slots) \in Nat
  BY UnsetType
<1>2. \A i \in 1 .. Len(slots) : ~ Unset(slots)[i].is_set
  BY DEF Unset, TimeSegment
<1> QED
  BY <1>1, <1>2 DEF Consecutive

(* Filling a slot of a run leaves the slots consecutive, the set ones up   *)
(* to the new index, and the last of them ends at the new mark.            *)
LEMMA FilledChain ==
  ASSUME NEW f, Sound(f), NEW s, Chained(f, s), f.status = "running",
         NEW e \in EventEntry, NEW stop \in Instant, NEW name \in Label \cup {NoName}
  PROVE  LET new == FillSegment(f, e, stop, name).segments
             n == f.segment_index + 1
         IN  /\ Consecutive(new) /\ new[n].end = e.time
             /\ \A i \in 1 .. Len(new) : new[i].is_set <=> i <= n
             /\ new[1].start = f.start \/ Cleared(s, f.start)
<1> DEFINE new == FillSegment(f, e, stop, name).segments  n == f.segment_index + 1
<1>1. /\ Len(new) = IF n > Len(f.segments) THEN n ELSE Len(f.segments)
      /\ n \in 1 .. Len(new)
      /\ new[n].is_set /\ new[n].start = f.segment /\ new[n].end = e.time
      /\ \A i \in 1 .. Len(new) : i # n => i \in 1 .. Len(f.segments) /\ new[i] = f.segments[i]
  BY FillsOneSlot
<1> HIDE DEF new
<1>2. f.segment_index \in Nat /\ Len(f.segments) \in Nat /\ f.segment_index <= Len(f.segments)
  BY FsmTypes DEF Sound
<1>3. \A i \in 1 .. Len(f.segments) : f.segments[i].is_set <=> i <= f.segment_index
  BY DEF Chained
<1>4. \A i \in 1 .. Len(new) : new[i].is_set <=> i <= n
  <2> TAKE i \in 1 .. Len(new)
  <2>1. CASE i = n
    BY <1>1, <1>2, <2>1
  <2>2. CASE i # n
    BY <1>1, <1>2, <1>3, <2>2
  <2> QED
    BY <2>1, <2>2
<1>5. Consecutive(new)
  <2> SUFFICES ASSUME NEW i \in 2 .. Len(new), new[i].is_set
               PROVE  new[i-1].is_set /\ new[i].start = new[i-1].end
    BY DEF Consecutive
  <2>1. i \in 1 .. Len(new) /\ i - 1 \in 1 .. Len(new) /\ i <= n /\ i - 1 # n
    BY <1>1, <1>2, <1>4
  <2>2. new[i-1].is_set /\ new[i-1] = f.segments[i-1] /\ i - 1 \in 1 .. Len(f.segments)
    BY <1>1, <1>2, <1>4, <2>1
  <2>3. CASE i = n
    <3>1. f.segment_index > 0 /\ i - 1 = f.segment_index
      BY <1>2, <2>1, <2>3
    <3>2. f.segments[f.segment_index].end = f.segment
      BY <3>1 DEF Chained
    <3> QED
      BY <1>1, <2>2, <2>3, <3>1, <3>2
  <2>4. CASE i # n
    <3>1. i \in 2 .. Len(f.segments) /\ new[i] = f.segments[i]
      BY <1>1, <2>1, <2>4
    <3> QED
      BY <2>2, <3>1 DEF Chained, Consecutive
  <2> QED
    BY <2>3, <2>4
<1>6. new[1].start = f.start \/ Cleared(s, f.start)
  <2>1. CASE f.segment_index = 0
    BY <1>1, <2>1 DEF Chained
  <2>2. CASE f.segment_index > 0
    <3>1. 1 \in 1 .. Len(new) /\ 1 # n
      BY <1>1, <1>2, <2>2
    <3>2. new[1] = f.segments[1]
      BY <1>1, <3>1
    <3> QED
      BY <1>2, <2>2, <3>2 DEF Chained
  <2> QED
    BY <1>2, <2>1, <2>2
<1> QED
  BY <1>1, <1>4, <1>5, <1>6 DEF new

(* An entry that counts keeps the chain.                                   *)
LEMMA IterationChained ==
  ASSUME NEW f, Sound(f), NEW s \in Seq(EventEntry), Chained(f, s),
         NEW e \in EventEntry, Relevant(f, e), MarksBefore(f, e.time)
  PROVE  Chained(Iteration(f, e), Append(s, e))
<1> DEFINE g == Iteration(f, e)  w == Append(s, e)
<1>1. f \in Fsm /\ f.segments \in Seq(TimeSegment) /\ e.time \in Int /\ f.start \in Int
      /\ f.stop \in Instant /\ e.time \in Instant /\ f.segment_index \in Nat
      /\ NameOr(e, "") \in Label \cup {NoName} /\ NoName \in Label \cup {NoName}
  BY FsmTypes, EventTypes DEF Sound
<1>0. f.segment_index \in Nat /\ f.segment_index + 1 > 0
  <2>1. f.segment_index \in Nat
    BY <1>1
  <2> QED
    BY <2>1
<1> SUFFICES Chained(g, w)
  OBVIOUS
<1>2. /\ Len(w) = Len(s) + 1 /\ Len(s) \in Nat /\ w[Len(s) + 1] = e
      /\ \A i \in 1 .. Len(s) : w[i] = s[i]
  OBVIOUS
<1> HIDE DEF w
<1>3. ASSUME NEW x, Cleared(s, x) PROVE Cleared(w, x)
  <2>1. PICK k \in 1 .. Len(s) : s[k].type = "segment_clear" /\ s[k].time >= x
    BY <1>3 DEF Cleared
  <2>2. k \in 1 .. Len(w) /\ w[k] = s[k]
    BY <1>2
  <2> QED
    BY <2>1, <2>2 DEF Cleared
<1>4. Consecutive(<<>>) /\ Len(<<>>) = 0
  BY DEF Consecutive
<1>5. Consecutive(f.segments)
  BY DEF Chained
<1> HIDE DEF g
<1>6. CASE g.status # "running" /\ g.segments \in {f.segments, Unset(f.segments)}
  BY <1>1, <1>5, <1>6, UnsetSlots DEF Chained
<1>7. CASE /\ g.status = f.status /\ g.start = f.start /\ g.segment = f.segment
           /\ g.segment_index = f.segment_index /\ g.segments = f.segments
  BY <1>3, <1>7 DEF Chained
<1>8. CASE /\ e.type = "segment_clear" /\ g.status = f.status /\ g.start = f.start
           /\ g.segment_index = 0 /\ g.segments = <<>>
  <2>1. f.status = "running" => Cleared(w, f.start)
    <3>1. Len(s) + 1 \in 1 .. Len(w) /\ w[Len(s) + 1] = e
      BY <1>2
    <3>2. f.status = "running" => e.time >= f.start
      BY <1>1 DEF MarksBefore
    <3> QED
      BY <1>8, <3>1, <3>2 DEF Cleared
  <2> QED
    BY <1>4, <1>8, <2>1 DEF Chained
<1>9. CASE /\ g.status = "running" /\ g.start = e.time /\ g.segment = e.time
           /\ g.segment_index = 0 /\ g.segments = Unset(f.segments)
  <2>1. /\ Len(g.segments) = Len(f.segments) /\ Consecutive(g.segments)
        /\ \A i \in 1 .. Len(g.segments) : ~ g.segments[i].is_set
    BY <1>1, <1>9, UnsetSlots
  <2>2. \A i \in 1 .. Len(g.segments) : ~ i <= g.segment_index
    BY <1>9
  <2> QED
    BY <1>9, <2>1, <2>2 DEF Chained
<1>10. CASE /\ f.status = "running" /\ g.status = "stopped"
            /\ g.segments = FillSegment(f, e, e.time, NoName).segments
  BY <1>1, <1>10, FilledChain DEF Chained
<1>11. CASE /\ f.status = "running" /\ g.status = "running" /\ g.start = f.start
            /\ g.segment = e.time /\ g.segment_index = f.segment_index + 1
            /\ g.segments = FillSegment(f, e, f.stop, NameOr(e, "")).segments
  <2> DEFINE new == FillSegment(f, e, f.stop, NameOr(e, "")).segments
  <2>1. /\ Consecutive(new) /\ new[f.segment_index + 1].end = e.time
        /\ \A i \in 1 .. Len(new) : new[i].is_set <=> i <= f.segment_index + 1
        /\ new[1].start = f.start \/ Cleared(s, f.start)
    BY <1>1, <1>11, FilledChain, ZenonT(40)
  <2> HIDE DEF new
  <2>2. g.segments = new
    BY <1>11 DEF new
  <2> QED
    BY <1>0, <1>3, <1>11, <2>1, <2>2 DEF Chained
<1>12. f \in Fsm
  BY DEF Sound
<1>13. Effect(f, e, g)
  BY <1>12, IterationEffect DEF g
<1> QED
  BY <1>6, <1>7, <1>8, <1>9, <1>10, <1>11, <1>13 DEF Effect

LEMMA EvalChained ==
  ASSUME NEW s \in Seq(EventEntry), Sorted(s), Fixed(s)
  PROVE  Chained(Eval(s).fsm, s)
<1> DEFINE P == {a \in Seq(EventEntry) : Sorted(a) => Chained(Eval(a).fsm, a)}
<1>1. <<>> \in P
  <2>1. FsmInit.status # "running" /\ FsmInit.segments = <<>> /\ Eval(<<>>).fsm = FsmInit
    <3>1. FsmInit.status # "running" /\ FsmInit.segments = <<>>
      BY DEF FsmInit
    <3> QED
      BY <3>1, EvalEmpty DEF Base
  <2> QED
    BY <2>1, EmptyLog DEF Chained, Consecutive
<1>2. ASSUME NEW a \in P, NEW e \in EventEntry, Relevant(Eval(a).fsm, e)
      PROVE  Append(a, e) \in P
  <2>1. a \in Seq(EventEntry) /\ Append(a, e) \in Seq(EventEntry)
    OBVIOUS
  <2> SUFFICES ASSUME Sorted(Append(a, e)) PROVE Chained(Eval(Append(a, e)).fsm, Append(a, e))
    BY <2>1
  <2>2. Sorted(a) /\ \A i \in 1 .. Len(a) : a[i].time <= e.time
    BY <2>1, SortedFront
  <2>3. Chained(Eval(a).fsm, a) /\ Clean(a) /\ e.time \in Int
    BY <2>1, <2>2, EvalSound, EventTypes
  <2>4. Sound(Eval(a).fsm) /\ MarksBefore(Eval(a).fsm, e.time)
    BY <2>2, <2>3 DEF Clean
  <2>5. Eval(Append(a, e)).fsm = Iteration(Eval(a).fsm, e)
    BY <2>1, EvalMore
  <2> QED
    BY <1>2, <2>1, <2>3, <2>4, <2>5, IterationChained
<1>3. \A a \in Seq(EventEntry) : Fixed(a) => a \in P
  <2> HIDE DEF P
  <2>1. P \in SUBSET Seq(EventEntry)
    BY DEF P
  <2> QED
    BY <1>1, <1>2, <2>1, FixedInduction
<1>4. s \in P
  BY <1>3
<1> QED
  BY <1>4

-----------------------------------------------------------------------------
(* The history.  A run in progress is a start that only segments and       *)
(* clears follow.  The i-th entry of the history is the run that stopped   *)
(* as the i-th of those that stopped since the history was cleared.        *)

Neutral == {"segment", "segment_clear", "history_clear"}

OpenAt(s, a) ==
  s[a].type = "start" /\ \A k \in a + 1 .. Len(s) : s[k].type \in Neutral

Shown(s) ==
  {r \in RunsIn(s) : \A k \in r[2] .. Len(s) : s[k].type # "history_clear"}

Place(s, r) == Cardinality({q \in Shown(s) : q[2] <= r[2]})

RunOf(s, r) == [name |-> MapAt(s, r[1]), start |-> s[r[1]].time, end |-> s[r[2]].time]

Listed(runs, s) ==
  /\ Len(runs) = Cardinality(Shown(s))
  /\ \A r \in Shown(s) : runs[Place(s, r)] = RunOf(s, r)

Recorded(f, s) ==
  /\ f.current_map = MapAt(s, Len(s))
  /\ f.status = "running" <=> \E a \in 1 .. Len(s) : OpenAt(s, a)
  /\ \A a \in 1 .. Len(s) :
       OpenAt(s, a) => f.start = s[a].time /\ MapAt(s, a) = f.current_map
  /\ Listed(f.history, s)

(* An entry more, as the facts about it are used below.                    *)
More(s, e, w) ==
  /\ s \in Seq(EventEntry) /\ e \in EventEntry /\ w = Append(s, e)
  /\ Len(s) \in Nat /\ Len(w) = Len(s) + 1 /\ w[Len(s) + 1] = e
  /\ \A i \in 1 .. Len(s) : w[i] = s[i]

LEMMA MoreFacts ==
  ASSUME NEW s \in Seq(EventEntry), NEW e \in EventEntry
  PROVE  More(s, e, Append(s, e))
BY DEF More

(* The map at a position is that of the last map change up to it.          *)
LEMMA MapAtMore ==
  ASSUME NEW s, NEW e, NEW w, More(s, e, w)
  PROVE  /\ \A i \in 0 .. Len(s) : MapAt(w, i) = MapAt(s, i)
         /\ MapAt(w, Len(w)) = IF e.type = "map_change" THEN NameOr(e, "Unknown")
                               ELSE MapAt(s, Len(s))
<1> DEFINE Changes(v, i) == {k \in 1 .. i : v[k].type = "map_change"}
           Top(T) == CHOOSE k \in T : \A j \in T : j <= k
<1>1. \A v, i : MapAt(v, i) = IF Changes(v, i) = {} THEN "Unknown"
                             ELSE NameOr(v[Top(Changes(v, i))], "Unknown")
  BY DEF MapAt
<1>2. \A i \in Nat : \A T \in SUBSET (1 .. i) :
        T # {} => Top(T) \in T /\ \A j \in T : j <= Top(T)
  BY Greatest
<1> HIDE DEF Top
<1>3. ASSUME NEW i \in 0 .. Len(s) PROVE MapAt(w, i) = MapAt(s, i)
  <2>1. i \in Nat /\ \A k \in 1 .. i : w[k] = s[k]
    BY DEF More
  <2>2. Changes(w, i) = Changes(s, i)
    BY <2>1
  <2>3. CASE Changes(s, i) = {}
    BY <1>1, <2>2, <2>3
  <2>4. CASE Changes(s, i) # {}
    <3>1. Top(Changes(s, i)) \in 1 .. i
      BY <1>2, <2>1, <2>4
    <3>2. w[Top(Changes(s, i))] = s[Top(Changes(s, i))]
      BY <2>1, <3>1
    <3> QED
      BY <1>1, <2>2, <2>4, <3>2
  <2> QED
    BY <2>3, <2>4
<1>4. CASE e.type = "map_change"
  <2> DEFINE C == Changes(w, Len(w))
  <2>1. Len(w) \in Nat /\ Len(w) \in C /\ C \in SUBSET (1 .. Len(w)) /\ w[Len(w)] = e
    BY <1>4 DEF More
  <2> HIDE DEF C
  <2>2. Top(C) \in C /\ \A j \in C : j <= Top(C)
    BY <1>2, <2>1
  <2> DEFINE top == Top(C)
  <2>3. top \in 1 .. Len(w) /\ Len(w) <= top
    BY <2>1, <2>2
  <2> HIDE DEF top
  <2>4. top = Len(w) /\ C # {}
    BY <2>1, <2>3
  <2>5. MapAt(w, Len(w)) = NameOr(w[top], "Unknown")
    BY <1>1, <2>4 DEF C, top
  <2> QED
    BY <1>3, <1>4, <2>1, <2>4, <2>5
<1>5. CASE e.type # "map_change"
  <2>1. Changes(w, Len(w)) = Changes(w, Len(s))
    BY <1>5 DEF More
  <2>2. MapAt(w, Len(w)) = MapAt(w, Len(s))
    BY <1>1, <2>1
  <2>3. Len(s) \in 0 .. Len(s)
    BY DEF More
  <2> QED
    BY <1>3, <1>5, <2>2, <2>3
<1> QED
  BY <1>3, <1>4, <1>5

(* A start stays open until an entry ends its run.                         *)
LEMMA OpenMore ==
  ASSUME NEW s, NEW e, NEW w, More(s, e, w), NEW a \in 1 .. Len(w)
  PROVE  OpenAt(w, a) <=> \/ a = Len(w) /\ e.type = "start"
                          \/ a \in 1 .. Len(s) /\ OpenAt(s, a) /\ e.type \in Neutral
<1>1. Len(w) = Len(s) + 1 /\ Len(s) \in Nat /\ w[Len(w)] = e /\ \A i \in 1 .. Len(s) : w[i] = s[i]
  BY DEF More
<1>2. CASE a = Len(w)
  BY <1>1, <1>2 DEF OpenAt
<1>3. CASE a # Len(w)
  <2>1. a \in 1 .. Len(s) /\ w[a] = s[a] /\ Len(w) \in a + 1 .. Len(w)
    BY <1>1, <1>3
  <2>2. \A k \in a + 1 .. Len(s) : k \in a + 1 .. Len(w) /\ w[k] = s[k]
    BY <1>1, <2>1
  <2>3. \A k \in a + 1 .. Len(w) : k = Len(w) \/ k \in a + 1 .. Len(s)
    BY <1>1, <2>1
  <2> QED
    BY <1>1, <1>3, <2>1, <2>2, <2>3 DEF OpenAt
<1> QED
  BY <1>2, <1>3

(* Two starts are not open at once.                                        *)
LEMMA OneIsOpen ==
  ASSUME NEW s, NEW a \in 1 .. Len(s), NEW b \in 1 .. Len(s), Len(s) \in Nat,
         OpenAt(s, a), OpenAt(s, b)
  PROVE  a = b
<1>1. ASSUME NEW c \in 1 .. Len(s), NEW d \in 1 .. Len(s), OpenAt(s, c), OpenAt(s, d)
      PROVE  ~ c < d
  BY <1>1 DEF OpenAt, Neutral
<1> QED
  BY <1>1

(* The runs of a longer log: those of the shorter, and the open one if the *)
(* entry is a stop.                                                        *)
LEMMA RunsMore ==
  ASSUME NEW s, NEW e, NEW w, More(s, e, w), NEW x \in 1 .. Len(w), NEW y \in 1 .. Len(w)
  PROVE  <<x, y>> \in RunsIn(w) <=>
           \/ x \in 1 .. Len(s) /\ y \in 1 .. Len(s) /\ <<x, y>> \in RunsIn(s)
           \/ y = Len(w) /\ x \in 1 .. Len(s) /\ OpenAt(s, x) /\ e.type = "stop"
<1>1. Len(w) = Len(s) + 1 /\ Len(s) \in Nat /\ w[Len(w)] = e /\ \A i \in 1 .. Len(s) : w[i] = s[i]
  BY DEF More
<1>2. \A v : \A c, d \in 1 .. Len(v) :
        <<c, d>> \in RunsIn(v) <=>
          /\ c < d /\ v[c].type = "start" /\ v[d].type = "stop"
          /\ \A k \in c + 1 .. d - 1 : v[k].type \in Neutral
  BY DEF RunsIn, Neutral
<1>3. CASE y = Len(w)
  <2>1. x < y => x \in 1 .. Len(s) /\ w[x] = s[x]
    BY <1>1, <1>3
  <2>2. y - 1 = Len(s) /\ ~ y \in 1 .. Len(s) /\ (x \in 1 .. Len(s) => x < y)
    BY <1>1, <1>3
  <2>3. \A k \in x + 1 .. Len(s) : w[k] = s[k]
    BY <1>1
  <2> QED
    <3>1. <<x, y>> \in RunsIn(w) <=>
            /\ x < y /\ w[x].type = "start" /\ e.type = "stop"
            /\ \A k \in x + 1 .. Len(s) : w[k].type \in Neutral
      BY <1>1, <1>2, <1>3, <2>2
    <3>2. <<x, y>> \in RunsIn(w) <=>
            x \in 1 .. Len(s) /\ OpenAt(s, x) /\ e.type = "stop"
      BY <2>1, <2>2, <2>3, <3>1 DEF OpenAt
    <3> QED
      BY <1>3, <2>2, <3>2
<1>4. CASE y # Len(w)
  <2>1. y \in 1 .. Len(s) /\ w[y] = s[y] /\ (x < y => x \in 1 .. Len(s))
    BY <1>1, <1>4
  <2>2. \A k \in x + 1 .. y - 1 : w[k] = s[k]
    BY <1>1, <2>1
  <2>3. CASE x \in 1 .. Len(s)
    <3>1. w[x] = s[x]
      BY <1>1, <2>3
    <3>2. <<x, y>> \in RunsIn(w) <=>
            /\ x < y /\ w[x].type = "start" /\ w[y].type = "stop"
            /\ \A k \in x + 1 .. y - 1 : w[k].type \in Neutral
      BY <1>2
    <3>3. <<x, y>> \in RunsIn(s) <=>
            /\ x < y /\ s[x].type = "start" /\ s[y].type = "stop"
            /\ \A k \in x + 1 .. y - 1 : s[k].type \in Neutral
      BY <1>2, <2>1, <2>3
    <3> QED
      BY <1>4, <2>1, <2>2, <2>3, <3>1, <3>2, <3>3
  <2>4. CASE x \notin 1 .. Len(s)
    BY <1>2, <1>4, <2>1, <2>4
  <2> QED
    BY <2>3, <2>4
<1> QED
  BY <1>3, <1>4

(* The runs in a log are pairs of its positions, finitely many.            *)
LEMMA ShownRuns ==
  ASSUME NEW s, Len(s) \in Nat
  PROVE  /\ IsFiniteSet(Shown(s)) /\ Cardinality(Shown(s)) \in Nat
         /\ \A r \in Shown(s) :
              /\ r[1] \in 1 .. Len(s) /\ r[2] \in 1 .. Len(s) /\ r = <<r[1], r[2]>>
              /\ Place(s, r) \in 1 .. Cardinality(Shown(s))
<1>1. Shown(s) \subseteq (1 .. Len(s)) \X (1 .. Len(s))
  BY DEF Shown, RunsIn
<1>2. IsFiniteSet(1 .. Len(s))
  BY FS_Interval
<1>3. IsFiniteSet((1 .. Len(s)) \X (1 .. Len(s)))
  BY <1>2, FS_Product
<1>4. IsFiniteSet(Shown(s)) /\ Cardinality(Shown(s)) \in Nat
  BY <1>1, <1>3, FS_Subset, FS_CardinalityType
<1>5. ASSUME NEW r \in Shown(s)
      PROVE  /\ r[1] \in 1 .. Len(s) /\ r[2] \in 1 .. Len(s) /\ r = <<r[1], r[2]>>
             /\ Place(s, r) \in 1 .. Cardinality(Shown(s))
  <2>1. r[1] \in 1 .. Len(s) /\ r[2] \in 1 .. Len(s) /\ r = <<r[1], r[2]>>
    BY <1>1
  <2> DEFINE T == {q \in Shown(s) : q[2] <= r[2]}
  <2>2. T \in SUBSET Shown(s) /\ r \in T
    BY <2>1
  <2> HIDE DEF T
  <2>3. IsFiniteSet(T) /\ Cardinality(T) <= Cardinality(Shown(s)) /\ Cardinality(T) \in Nat
    BY <1>4, <2>2, FS_Subset, FS_CardinalityType
  <2>4. Cardinality(T) # 0
    BY <2>2, <2>3, FS_EmptySet
  <2>5. Cardinality(T) \in 1 .. Cardinality(Shown(s))
    BY <1>4, <2>3, <2>4
  <2> QED
    BY <2>1, <2>5 DEF Place, T
<1> QED
  BY <1>4, <1>5

(* An entry that neither stops a run nor clears the history leaves the     *)
(* runs that are shown.                                                    *)
LEMMA ShownKept ==
  ASSUME NEW s, NEW e, NEW w, More(s, e, w), e.type # "history_clear",
         e.type = "stop" => ~ \E a \in 1 .. Len(s) : OpenAt(s, a)
  PROVE  /\ Shown(w) = Shown(s)
         /\ \A runs : Listed(runs, s) => Listed(runs, w)
<1>1. Len(w) = Len(s) + 1 /\ Len(s) \in Nat /\ w[Len(w)] = e /\ \A i \in 1 .. Len(s) : w[i] = s[i]
  BY DEF More
<1>2. ASSUME NEW r \in Shown(w) PROVE r \in Shown(s)
  <2>1. r[1] \in 1 .. Len(w) /\ r[2] \in 1 .. Len(w) /\ r = <<r[1], r[2]>> /\ r \in RunsIn(w)
    <3>1. Len(w) \in Nat
      BY <1>1
    <3> QED
      BY <3>1, ShownRuns DEF Shown
  <2>2. r[2] \in 1 .. Len(s) /\ r \in RunsIn(s)
    BY <2>1, RunsMore
  <2>3. ASSUME NEW k \in r[2] .. Len(s) PROVE s[k].type # "history_clear"
    <3>1. k \in r[2] .. Len(w) /\ w[k] = s[k]
      BY <1>1, <2>2
    <3> QED
      BY <3>1 DEF Shown
  <2> QED
    BY <2>2, <2>3 DEF Shown
<1>3. ASSUME NEW r \in Shown(s) PROVE r \in Shown(w)
  <2>1. r[1] \in 1 .. Len(s) /\ r[2] \in 1 .. Len(s) /\ r = <<r[1], r[2]>> /\ r \in RunsIn(s)
    BY <1>1, ShownRuns DEF Shown
  <2>2. r[1] \in 1 .. Len(w) /\ r[2] \in 1 .. Len(w)
    BY <1>1, <2>1
  <2>3. r \in RunsIn(w)
    BY <2>1, <2>2, RunsMore
  <2>4. ASSUME NEW k \in r[2] .. Len(w) PROVE w[k].type # "history_clear"
    <3>1. CASE k = Len(w)
      BY <1>1, <3>1
    <3>2. CASE k # Len(w)
      <4>1. k \in r[2] .. Len(s) /\ w[k] = s[k]
        BY <1>1, <2>1, <3>2
      <4> QED
        BY <4>1 DEF Shown
    <3> QED
      BY <3>1, <3>2
  <2> QED
    BY <2>3, <2>4 DEF Shown
<1>4. Shown(w) = Shown(s)
  BY <1>2, <1>3
<1>5. ASSUME NEW runs, Listed(runs, s) PROVE Listed(runs, w)
  <2>1. ASSUME NEW r \in Shown(w) PROVE runs[Place(w, r)] = RunOf(w, r)
    <3>1. r[1] \in 1 .. Len(s) /\ r[2] \in 1 .. Len(s) /\ r \in Shown(s)
      BY <1>1, <1>4, ShownRuns
    <3>2. Place(w, r) = Place(s, r)
      BY <1>4 DEF Place
    <3>3. MapAt(w, r[1]) = MapAt(s, r[1])
      <4>1. r[1] \in 0 .. Len(s)
        BY <3>1
      <4> QED
        BY <4>1, MapAtMore
    <3>4. RunOf(w, r) = RunOf(s, r)
      BY <1>1, <3>1, <3>3 DEF RunOf
    <3> QED
      BY <1>5, <3>1, <3>2, <3>4 DEF Listed
  <2> QED
    BY <1>4, <1>5, <2>1 DEF Listed
<1> QED
  BY <1>4, <1>5

(* A history_clear hides every run.                                        *)
LEMMA ShownCleared ==
  ASSUME NEW s, NEW e, NEW w, More(s, e, w), e.type = "history_clear"
  PROVE  Listed(<<>>, w)
<1>1. Len(w) \in Nat /\ w[Len(w)] = e
  BY DEF More
<1>2. ASSUME NEW r \in Shown(w) PROVE FALSE
  <2>1. Len(w) \in r[2] .. Len(w)
    BY <1>1, ShownRuns
  <2> QED
    BY <1>1, <2>1 DEF Shown
<1>3. Shown(w) = {} /\ Len(<<>>) = 0
  BY <1>2
<1> QED
  BY <1>3, FS_EmptySet DEF Listed

(* A stop of a run in progress adds that run, at the last place.           *)
LEMMA ShownStopped ==
  ASSUME NEW s, NEW e, NEW w, More(s, e, w), e.type = "stop",
         NEW a \in 1 .. Len(s), OpenAt(s, a), NEW runs \in Seq(HistoryEntry), Listed(runs, s),
         NEW run \in HistoryEntry,
         run = [name |-> MapAt(s, a), start |-> s[a].time, end |-> e.time]
  PROVE  Listed(Append(runs, run), w)
<1>1. Len(w) = Len(s) + 1 /\ Len(s) \in Nat /\ w[Len(w)] = e /\ \A i \in 1 .. Len(s) : w[i] = s[i]
  BY DEF More
<1> DEFINE new == <<a, Len(w)>>
<1>2. new[1] = a /\ new[2] = Len(w) /\ a \in 1 .. Len(w) /\ Len(w) \in 1 .. Len(w)
  BY <1>1
<1> HIDE DEF new
<1>3. Shown(w) = Shown(s) \cup {new}
  <2>1. ASSUME NEW r \in Shown(w) PROVE r \in Shown(s) \/ r = new
    <3>1. r[1] \in 1 .. Len(w) /\ r[2] \in 1 .. Len(w) /\ r = <<r[1], r[2]>> /\ r \in RunsIn(w)
      <4>1. Len(w) \in Nat
        BY <1>1
      <4> QED
        BY <4>1, ShownRuns DEF Shown
    <3>2. \/ r[2] \in 1 .. Len(s) /\ r \in RunsIn(s)
          \/ r[2] = Len(w) /\ r[1] \in 1 .. Len(s) /\ OpenAt(s, r[1])
      BY <3>1, RunsMore
    <3>3. CASE r[2] \in 1 .. Len(s) /\ r \in RunsIn(s)
      <4>1. ASSUME NEW k \in r[2] .. Len(s) PROVE s[k].type # "history_clear"
        <5>1. k \in r[2] .. Len(w) /\ w[k] = s[k]
          BY <1>1, <3>3
        <5> QED
          BY <5>1 DEF Shown
      <4> QED
        BY <3>3, <4>1 DEF Shown
    <3>4. CASE r[2] = Len(w) /\ r[1] \in 1 .. Len(s) /\ OpenAt(s, r[1])
      <4>1. r[1] = a
        BY <1>1, <3>4, OneIsOpen
      <4> QED
        BY <3>1, <3>4, <4>1 DEF new
    <3> QED
      BY <3>2, <3>3, <3>4
  <2>2. ASSUME NEW r \in Shown(s) PROVE r \in Shown(w)
    <3>1. r[1] \in 1 .. Len(s) /\ r[2] \in 1 .. Len(s) /\ r = <<r[1], r[2]>> /\ r \in RunsIn(s)
      BY <1>1, ShownRuns DEF Shown
    <3>2. r[1] \in 1 .. Len(w) /\ r[2] \in 1 .. Len(w)
      BY <1>1, <3>1
    <3>3. r \in RunsIn(w)
      BY <3>1, <3>2, RunsMore
    <3>4. ASSUME NEW k \in r[2] .. Len(w) PROVE w[k].type # "history_clear"
      <4>1. CASE k = Len(w)
        BY <1>1, <4>1
      <4>2. CASE k # Len(w)
        <5>1. k \in r[2] .. Len(s) /\ w[k] = s[k]
          BY <1>1, <3>1, <4>2
        <5> QED
          BY <5>1 DEF Shown
      <4> QED
        BY <4>1, <4>2
    <3> QED
      BY <3>3, <3>4 DEF Shown
  <2>3. new \in Shown(w)
    <3>1. new \in RunsIn(w)
      BY <1>2, RunsMore DEF new
    <3>2. \A k \in new[2] .. Len(w) : w[k].type # "history_clear"
      BY <1>1, <1>2
    <3> QED
      BY <3>1, <3>2 DEF Shown
  <2> QED
    BY <2>1, <2>2, <2>3
<1>4. /\ IsFiniteSet(Shown(s)) /\ Cardinality(Shown(s)) \in Nat /\ new \notin Shown(s)
      /\ \A r \in Shown(s) : /\ r[1] \in 1 .. Len(s) /\ r[2] \in 1 .. Len(s)
                             /\ Place(s, r) \in 1 .. Cardinality(Shown(s))
  <2>1. ~ Len(w) \in 1 .. Len(s)
    BY <1>1
  <2> QED
    BY <1>1, <1>2, <2>1, ShownRuns
<1>5. Cardinality(Shown(w)) = Cardinality(Shown(s)) + 1
  BY <1>3, <1>4, FS_AddElement
<1>6. /\ Len(runs) = Cardinality(Shown(s)) /\ Len(Append(runs, run)) = Len(runs) + 1
      /\ Append(runs, run)[Len(runs) + 1] = run
      /\ \A i \in 1 .. Len(runs) : Append(runs, run)[i] = runs[i]
  BY DEF Listed
<1>7. ASSUME NEW r \in Shown(s) PROVE Append(runs, run)[Place(w, r)] = RunOf(w, r)
  <2>1. {q \in Shown(w) : q[2] <= r[2]} = {q \in Shown(s) : q[2] <= r[2]}
    <3>1. ~ new[2] <= r[2]
      BY <1>1, <1>2, <1>4
    <3> QED
      BY <1>3, <3>1
  <2>2. Place(w, r) = Place(s, r)
    BY <2>1 DEF Place
  <2>3. r[1] \in 0 .. Len(s) /\ w[r[1]] = s[r[1]] /\ w[r[2]] = s[r[2]]
    BY <1>1, <1>4
  <2>4. RunOf(w, r) = RunOf(s, r)
    BY <2>3, MapAtMore DEF RunOf
  <2>5. Append(runs, run)[Place(s, r)] = runs[Place(s, r)]
    BY <1>4, <1>6
  <2> QED
    BY <2>2, <2>4, <2>5 DEF Listed
<1>8. Append(runs, run)[Place(w, new)] = RunOf(w, new)
  <2>1. {q \in Shown(w) : q[2] <= new[2]} = Shown(w)
    <3>1. ASSUME NEW q \in Shown(w) PROVE q[2] <= new[2]
      BY <1>1, <1>2, <1>3, <1>4
    <3> QED
      BY <3>1
  <2>2. Place(w, new) = Len(runs) + 1
    BY <1>5, <1>6, <2>1 DEF Place
  <2>3. a \in 0 .. Len(s) /\ w[a] = s[a]
    BY <1>1
  <2>4. RunOf(w, new) = run
    BY <1>1, <1>2, <2>3, MapAtMore DEF RunOf
  <2> QED
    BY <1>6, <2>2, <2>4
<1> QED
  BY <1>3, <1>5, <1>6, <1>7, <1>8 DEF Listed

(* An entry that counts keeps what the locals record of the runs.          *)
LEMMA IterationRecorded ==
  ASSUME NEW f \in Fsm, NEW s \in Seq(EventEntry), Recorded(f, s),
         NEW e \in EventEntry, Relevant(f, e)
  PROVE  Recorded(Iteration(f, e), Append(s, e))
<1> DEFINE g == Iteration(f, e)  w == Append(s, e)
<1>1. More(s, e, w) /\ Effect(f, e, g)
  BY MoreFacts, IterationEffect
<1> SUFFICES Recorded(g, w)
  OBVIOUS
<1> HIDE DEF g, w
<1>2. Len(w) = Len(s) + 1 /\ Len(s) \in Nat /\ Len(w) \in Nat /\ w[Len(w)] = e
      /\ \A i \in 1 .. Len(s) : w[i] = s[i]
  BY <1>1 DEF More
<1>3. f.history \in Seq(HistoryEntry)
  BY FsmTypes
<1>4. g.current_map = MapAt(w, Len(w))
  BY <1>1, MapAtMore, ZenonT(40) DEF Recorded, Effect
<1>5. \A a \in 1 .. Len(w) :
        OpenAt(w, a) <=> \/ a = Len(w) /\ e.type = "start"
                         \/ a \in 1 .. Len(s) /\ OpenAt(s, a) /\ e.type \in Neutral
  BY <1>1, OpenMore
<1>6. \A a \in 1 .. Len(s) : a \in 1 .. Len(w) /\ w[a] = s[a] /\ MapAt(w, a) = MapAt(s, a)
  <2>1. \A a \in 1 .. Len(s) : a \in 0 .. Len(s) /\ a \in 1 .. Len(w)
    BY <1>2
  <2> QED
    BY <1>1, <1>2, <2>1, MapAtMore
<1>7. Len(w) \in 1 .. Len(w)
  BY <1>2
<1>8. g.status = "running" <=> \E a \in 1 .. Len(w) : OpenAt(w, a)
  <2>1. CASE e.type = "start"
    <3>1. g.status = "running"
      BY <1>1, <2>1 DEF Effect
    <3> QED
      BY <1>5, <1>7, <2>1, <3>1
  <2>2. CASE e.type \in Neutral
    <3>1. g.status = f.status /\ e.type # "start"
      BY <1>1, <2>2 DEF Effect, Neutral
    <3> QED
      BY <1>5, <1>6, <2>2, <3>1 DEF Recorded
  <2>3. CASE e.type # "start" /\ e.type \notin Neutral
    <3>1. g.status # "running"
      BY <1>1, <2>3 DEF Effect, Neutral
    <3> QED
      BY <1>5, <2>3, <3>1
  <2> QED
    BY <2>1, <2>2, <2>3
<1>9. ASSUME NEW a \in 1 .. Len(w), OpenAt(w, a)
      PROVE  g.start = w[a].time /\ MapAt(w, a) = g.current_map
  <2>1. CASE a = Len(w) /\ e.type = "start"
    <3>1. g.start = e.time
      BY <1>1, <2>1 DEF Effect
    <3> QED
      BY <1>2, <1>4, <2>1, <3>1
  <2>2. CASE a \in 1 .. Len(s) /\ OpenAt(s, a) /\ e.type \in Neutral
    <3>1. g.start = f.start /\ g.current_map = f.current_map
      BY <1>1, <2>2 DEF Effect, Neutral
    <3> QED
      BY <1>6, <2>2, <3>1 DEF Recorded
  <2> QED
    BY <1>5, <1>9, <2>1, <2>2
<1>10. Listed(g.history, w)
  <2>1. CASE e.type = "history_clear"
    <3>1. g.history = <<>>
      BY <1>1, <2>1 DEF Effect
    <3> QED
      BY <1>1, <2>1, <3>1, ShownCleared
  <2>2. CASE e.type = "stop" /\ f.status = "running"
    <3>1. PICK a \in 1 .. Len(s) : OpenAt(s, a)
      BY <2>2 DEF Recorded
    <3> DEFINE run == [name |-> f.current_map, start |-> f.start, end |-> e.time]
    <3>2. g.history = Append(f.history, run)
      BY <1>1, <2>2 DEF Effect
    <3>3. run = [name |-> MapAt(s, a), start |-> s[a].time, end |-> e.time]
      BY <3>1 DEF Recorded
    <3>4. run \in HistoryEntry
      BY FsmTypes, EventTypes DEF HistoryEntry
    <3> HIDE DEF run
    <3>5. Listed(f.history, s)
      BY DEF Recorded
    <3>6. Listed(Append(f.history, run), w)
      BY <1>1, <1>3, <2>2, <3>1, <3>3, <3>4, <3>5, ShownStopped
    <3> QED
      BY <3>2, <3>6
  <2>3. CASE e.type # "history_clear" /\ ~ (e.type = "stop" /\ f.status = "running")
    <3>1. g.history = f.history
      BY <1>1, <2>3 DEF Effect
    <3>2. e.type = "stop" => ~ \E a \in 1 .. Len(s) : OpenAt(s, a)
      BY <2>3 DEF Recorded
    <3> QED
      BY <1>1, <2>3, <3>1, <3>2, ShownKept DEF Recorded
  <2> QED
    BY <2>1, <2>2, <2>3
<1> QED
  BY <1>4, <1>8, <1>9, <1>10 DEF Recorded

LEMMA EvalRecorded ==
  ASSUME NEW s \in Seq(EventEntry), Sorted(s), Fixed(s)
  PROVE  Recorded(Eval(s).fsm, s)
<1> DEFINE P == {a \in Seq(EventEntry) : Sorted(a) => Recorded(Eval(a).fsm, a)}
<1>1. <<>> \in P
  <2>1. FsmInit.status # "running" /\ FsmInit.history = <<>> /\ FsmInit.current_map = "Unknown"
    BY DEF FsmInit
  <2>2. Eval(<<>>).fsm = FsmInit /\ Len(<<>>) = 0 /\ 1 .. 0 = {}
    BY EvalEmpty DEF Base
  <2>3. MapAt(<<>>, 0) = "Unknown" /\ Shown(<<>>) = {}
    BY <2>2 DEF MapAt, Shown, RunsIn
  <2>4. Recorded(FsmInit, <<>>)
    BY <2>1, <2>2, <2>3, FS_EmptySet DEF Recorded, Listed
  <2> QED
    BY <2>2, <2>4
<1>2. ASSUME NEW a \in P, NEW e \in EventEntry, Relevant(Eval(a).fsm, e)
      PROVE  Append(a, e) \in P
  <2>1. a \in Seq(EventEntry) /\ Append(a, e) \in Seq(EventEntry)
    OBVIOUS
  <2> SUFFICES ASSUME Sorted(Append(a, e)) PROVE Recorded(Eval(Append(a, e)).fsm, Append(a, e))
    BY <2>1
  <2>2. Sorted(a)
    BY <2>1, SortedFront
  <2>3. Recorded(Eval(a).fsm, a) /\ Eval(a).fsm \in Fsm
    BY <2>1, <2>2, EvalSound DEF Clean, Sound
  <2>4. Eval(Append(a, e)).fsm = Iteration(Eval(a).fsm, e)
    BY <2>1, EvalMore
  <2> QED
    BY <1>2, <2>1, <2>3, <2>4, IterationRecorded
<1>3. \A a \in Seq(EventEntry) : Fixed(a) => a \in P
  <2> HIDE DEF P
  <2>1. P \in SUBSET Seq(EventEntry)
    BY DEF P
  <2> QED
    BY <1>1, <1>2, <2>1, FixedInduction
<1>4. s \in P
  BY <1>3
<1> QED
  BY <1>4

(* The history is exactly the runs of the log that ended after the last    *)
(* history_clear, oldest first, each with the times of its start and its   *)
(* stop and the map it was run on, for any events in any order of arrival. *)
(* (eventstore.cpp: reevaluate_state)                                      *)
THEOREM HistoryHasTheRuns == Spec => []HistoryIsTheRuns
<1>1. Canonical => HistoryIsTheRuns
  <2> SUFFICES ASSUME Canonical PROVE HistoryIsTheRuns
    OBVIOUS
  <2>1. Recorded(Eval(log).fsm, log) /\ history = Eval(log).fsm.history
    BY EvalRecorded DEF Canonical
  <2> QED
    BY <2>1, Zenon DEF HistoryIsTheRuns, Recorded, Listed, Shown, Place, RunOf
<1> QED
  BY <1>1, AlwaysCanonical, PTL

-----------------------------------------------------------------------------
(* The end of the segments: the last slot that is set was filled by the    *)
(* last entry that ends a segment.                                         *)

LastSet(slots, i) == slots[i].is_set /\ (i < Len(slots) => ~ slots[i+1].is_set)

EndedAt(s, k) == Ends(s, k) /\ \A j \in k + 1 .. Len(s) : ~ Ends(s, j)

Ended(f, s) ==
  \A i \in 1 .. Len(f.segments) :
    LastSet(f.segments, i) =>
      \E k \in 1 .. Len(s) : EndedAt(s, k) /\ f.segments[i].end = s[k].time

(* The entries that end a segment in a longer log: those of the shorter,   *)
(* and the new one if it splits a run or stops the open one.               *)
LEMMA EndsMore ==
  ASSUME NEW s, NEW e, NEW w, More(s, e, w)
  PROVE  /\ \A k \in 1 .. Len(s) : Ends(w, k) <=> Ends(s, k)
         /\ Ends(w, Len(w)) <=>
              e.type = "segment" \/ (e.type = "stop" /\ \E a \in 1 .. Len(s) : OpenAt(s, a))
<1>1. Len(w) = Len(s) + 1 /\ Len(s) \in Nat /\ w[Len(w)] = e /\ \A i \in 1 .. Len(s) : w[i] = s[i]
  BY DEF More
<1>2. ASSUME NEW k \in 1 .. Len(s) PROVE Ends(w, k) <=> Ends(s, k)
  <2>1. k \in 1 .. Len(w) /\ k # Len(w) /\ w[k] = s[k]
    BY <1>1
  <2>2. \A x \in 1 .. Len(w) : <<x, k>> \in RunsIn(w) <=> x \in 1 .. Len(s) /\ <<x, k>> \in RunsIn(s)
    BY <2>1, RunsMore
  <2>3. \A x \in 1 .. Len(s) : x \in 1 .. Len(w)
    BY <1>1
  <2> QED
    BY <2>1, <2>2, <2>3 DEF Ends
<1>3. Ends(w, Len(w)) <=>
        e.type = "segment" \/ (e.type = "stop" /\ \E a \in 1 .. Len(s) : OpenAt(s, a))
  <2>1. Len(w) \in 1 .. Len(w) /\ Len(w) \notin 1 .. Len(s)
    BY <1>1
  <2>2. \A x \in 1 .. Len(w) :
          <<x, Len(w)>> \in RunsIn(w) <=> x \in 1 .. Len(s) /\ OpenAt(s, x) /\ e.type = "stop"
    BY <2>1, RunsMore
  <2>3. \A x \in 1 .. Len(s) : x \in 1 .. Len(w)
    BY <1>1
  <2> QED
    BY <1>1, <2>2, <2>3 DEF Ends
<1> QED
  BY <1>2, <1>3

(* An entry that counts keeps the last set slot the work of the last entry *)
(* that ends a segment.                                                    *)
LEMMA IterationEnded ==
  ASSUME NEW f, Sound(f), NEW s \in Seq(EventEntry), Chained(f, s), Recorded(f, s), Ended(f, s),
         NEW e \in EventEntry, Relevant(f, e)
  PROVE  Ended(Iteration(f, e), Append(s, e))
<1> DEFINE g == Iteration(f, e)  w == Append(s, e)
<1>1. f \in Fsm /\ f.segments \in Seq(TimeSegment) /\ f.segment_index \in Nat
      /\ e.time \in Instant /\ f.stop \in Instant
      /\ NameOr(e, "") \in Label \cup {NoName} /\ NoName \in Label \cup {NoName}
  BY FsmTypes, EventTypes DEF Sound
<1>2. More(s, e, w) /\ Effect(f, e, g)
  BY <1>1, MoreFacts, IterationEffect
<1> SUFFICES Ended(g, w)
  OBVIOUS
<1> HIDE DEF g, w
<1>3. Len(w) = Len(s) + 1 /\ Len(s) \in Nat /\ w[Len(w)] = e /\ Len(w) \in 1 .. Len(w)
      /\ \A i \in 1 .. Len(s) : i \in 1 .. Len(w) /\ w[i] = s[i]
  BY <1>2 DEF More
<1>4. ASSUME ~ Ends(w, Len(w)), NEW k \in 1 .. Len(s), EndedAt(s, k)
      PROVE  EndedAt(w, k)
  <2>1. \A j \in k + 1 .. Len(w) : j = Len(w) \/ (j \in k + 1 .. Len(s) /\ j \in 1 .. Len(s))
    BY <1>3
  <2> QED
    BY <1>2, <1>4, <2>1, EndsMore DEF EndedAt
<1>5. Ends(w, Len(w)) => EndedAt(w, Len(w))
  BY <1>3 DEF EndedAt
<1>6. CASE g.segments = f.segments /\ ~ Ends(w, Len(w))
  <2> SUFFICES ASSUME NEW i \in 1 .. Len(f.segments), LastSet(f.segments, i)
               PROVE  \E k \in 1 .. Len(w) : EndedAt(w, k) /\ f.segments[i].end = w[k].time
    BY <1>6 DEF Ended
  <2>1. PICK k \in 1 .. Len(s) : EndedAt(s, k) /\ f.segments[i].end = s[k].time
    BY DEF Ended
  <2> QED
    BY <1>3, <1>4, <1>6, <2>1
<1>7. CASE g.segments = <<>>
  BY <1>7 DEF Ended
<1>8. CASE g.segments = Unset(f.segments)
  <2>1. \A i \in 1 .. Len(g.segments) : ~ g.segments[i].is_set
    BY <1>1, <1>8, UnsetSlots DEF Chained
  <2> QED
    BY <2>1 DEF Ended, LastSet
<1>9. ASSUME f.status = "running", Ends(w, Len(w)),
             NEW stop \in Instant, NEW name \in Label \cup {NoName},
             g.segments = FillSegment(f, e, stop, name).segments
      PROVE  Ended(g, w)
  <2> DEFINE n == f.segment_index + 1  new == FillSegment(f, e, stop, name).segments
  <2>4. /\ new[n].end = e.time
        /\ \A i \in 1 .. Len(new) : new[i].is_set <=> i <= n
    BY <1>9, FilledChain, ZenonT(40)
  <2>5. /\ n \in 1 .. Len(new)
        /\ Len(new) = IF n > Len(f.segments) THEN n ELSE Len(f.segments)
    BY <1>9, FillsOneSlot
  <2>6. n \in Nat /\ Len(f.segments) \in Nat
    <3>1. f.segment_index \in Nat /\ f.segments \in Seq(TimeSegment)
      BY <1>1
    <3>2. Len(f.segments) \in Nat
      BY <3>1
    <3>3. n \in Nat
      BY <3>1
    <3> QED
      BY <3>2, <3>3
  <2>7. g.segments = new
    BY <1>9
  <2> HIDE DEF new, n
  <2>8. Len(new) \in Nat
    BY <2>5, <2>6
  <2>1. /\ g.segments[n].end = e.time
        /\ \A i \in 1 .. Len(g.segments) : g.segments[i].is_set <=> i <= n
    BY <2>4, <2>7
  <2>2. n \in 1 .. Len(g.segments) /\ Len(g.segments) \in Nat
    BY <2>5, <2>7, <2>8
  <2>3. ASSUME NEW i \in 1 .. Len(g.segments), LastSet(g.segments, i) PROVE i = n
    <3>1. i <= n
      BY <2>1, <2>3 DEF LastSet
    <3>2. CASE i < Len(g.segments)
      <4>1. i + 1 \in 1 .. Len(g.segments)
        BY <2>2, <3>2
      <4>2. ~ i + 1 <= n
        BY <2>1, <2>3, <3>2, <4>1 DEF LastSet
      <4> QED
        BY <2>6, <3>1, <4>2
    <3>3. CASE ~ i < Len(g.segments)
      BY <2>2, <2>6, <3>1, <3>3
    <3> QED
      BY <3>2, <3>3
  <2> QED
    BY <1>3, <1>5, <1>9, <2>1, <2>3 DEF Ended
<1>10. CASE e.type \notin {"stop", "segment"}
  <2>1. ~ Ends(w, Len(w))
    BY <1>2, <1>10, EndsMore
  <2>2. g.segments \in {f.segments, <<>>, Unset(f.segments)}
    BY <1>2, <1>10 DEF Effect
  <2> QED
    BY <1>6, <1>7, <1>8, <2>1, <2>2
<1>11. CASE e.type = "segment"
  <2>1. Ends(w, Len(w))
    BY <1>2, <1>11, EndsMore
  <2>2. f.status = "running" /\ g.segments = FillSegment(f, e, f.stop, NameOr(e, "")).segments
    BY <1>2, <1>11 DEF Effect
  <2> QED
    BY <1>1, <1>9, <2>1, <2>2
<1>12. CASE e.type = "stop" /\ f.status = "running"
  <2>1. Ends(w, Len(w))
    BY <1>2, <1>12, EndsMore DEF Recorded
  <2>2. g.segments = FillSegment(f, e, e.time, NoName).segments
    BY <1>2, <1>12 DEF Effect
  <2> QED
    BY <1>1, <1>9, <1>12, <2>1, <2>2
<1>13. CASE e.type = "stop" /\ f.status # "running"
  <2>1. ~ Ends(w, Len(w))
    BY <1>2, <1>13, EndsMore DEF Recorded
  <2>2. g.segments = f.segments
    BY <1>2, <1>13 DEF Effect
  <2> QED
    BY <1>6, <2>1, <2>2
<1> QED
  BY <1>10, <1>11, <1>12, <1>13

LEMMA EvalEnded ==
  ASSUME NEW s \in Seq(EventEntry), Sorted(s), Fixed(s)
  PROVE  Ended(Eval(s).fsm, s)
<1> DEFINE P == {a \in Seq(EventEntry) : Fixed(a) /\ Sorted(a) => Ended(Eval(a).fsm, a)}
<1>1. <<>> \in P
  <2>1. FsmInit.segments = <<>>
    BY DEF FsmInit
  <2>2. Eval(<<>>).fsm = FsmInit
    BY EvalEmpty DEF Base
  <2> QED
    BY <2>1, <2>2 DEF Ended
<1>2. ASSUME NEW a \in P, NEW e \in EventEntry, Relevant(Eval(a).fsm, e)
      PROVE  Append(a, e) \in P
  <2>1. a \in Seq(EventEntry) /\ Append(a, e) \in Seq(EventEntry)
    OBVIOUS
  <2> SUFFICES ASSUME Fixed(Append(a, e)), Sorted(Append(a, e))
               PROVE  Ended(Eval(Append(a, e)).fsm, Append(a, e))
    BY <2>1
  <2>2. Sorted(a) /\ Fixed(a)
    BY <2>1, SortedFront, FixedFront
  <2>3. Chained(Eval(a).fsm, a) /\ Recorded(Eval(a).fsm, a) /\ Ended(Eval(a).fsm, a)
        /\ Sound(Eval(a).fsm)
    BY <2>1, <2>2, EvalSound, EvalChained, EvalRecorded DEF Clean
  <2>4. Eval(Append(a, e)).fsm = Iteration(Eval(a).fsm, e)
    BY <2>1, EvalMore
  <2> QED
    BY <1>2, <2>1, <2>3, <2>4, IterationEnded
<1>3. \A a \in Seq(EventEntry) : Fixed(a) => a \in P
  <2> HIDE DEF P
  <2>1. P \in SUBSET Seq(EventEntry)
    BY DEF P
  <2> QED
    BY <1>1, <1>2, <2>1, FixedInduction
<1>4. s \in P
  BY <1>3
<1> QED
  BY <1>4

(* The segments on display cut the run into consecutive pieces, the last   *)
(* of which ends where a run was split or stopped last, for any events in  *)
(* any order of arrival.  (eventstore.cpp: the cases of start, stop and    *)
(* segment in reevaluate_state)                                            *)
THEOREM SegmentsAreChained == Spec => []SegmentsChain
<1>1. Canonical => SegmentsChain
  <2> SUFFICES ASSUME Canonical PROVE SegmentsChain
    OBVIOUS
  <2> DEFINE f == Eval(log).fsm
  <2>1. Chained(f, log) /\ Sound(f) /\ segments = f.segments /\ Ended(f, log)
    BY EvalChained, EvalEnded, EvalSound DEF Canonical, Clean
  <2>2. state.status = "running" => f.status = "running" /\ state.start_time = f.start
    BY DEF Canonical, Verdict
  <2>3. f.segments \in Seq(TimeSegment) /\ f.segment_index \in Nat
    BY <2>1, FsmTypes DEF Sound
  <2> HIDE DEF f
  <2>4. ASSUME f.status = "running", segments # <<>>
        PROVE  \/ segments[1].is_set => segments[1].start = f.start
               \/ Cleared(log, f.start)
    <3>1. 1 \in 1 .. Len(f.segments)
      BY <2>1, <2>3, <2>4
    <3>2. segments[1].is_set => f.segment_index > 0
      BY <2>1, <2>3, <2>4, <3>1 DEF Chained
    <3> QED
      BY <2>1, <2>3, <2>4, <3>2 DEF Chained
  <2>5. /\ Consecutive(segments)
        /\ \A i \in 1 .. Len(segments) :
             LastSet(segments, i) =>
               \E k \in 1 .. Len(log) : EndedAt(log, k) /\ segments[i].end = log[k].time
    BY <2>1 DEF Chained, Ended
  <2> QED
    BY <2>2, <2>4, <2>5, Zenon DEF SegmentsChain, Consecutive, Cleared, LastSet, EndedAt
<1> QED
  BY <1>1, AlwaysCanonical, PTL

=============================================================================
