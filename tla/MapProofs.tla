----------------------------- MODULE MapProofs -----------------------------
(***************************************************************************)
(* Theorems about MapChange, for any maps, servers, names, positions and   *)
(* delay, any number of changes and of threads; and about Settings, which  *)
(* decides what happens on a map, for any texts, keys, colors, files found *)
(* at the first start, maps, starts and changes.                           *)
(*                                                                         *)
(* The invariant of MapChange is MapIInv, that of Settings is IInv.        *)
(***************************************************************************)
EXTENDS MapChange, Settings, EventLogProofs

-----------------------------------------------------------------------------
(* The log of MapChange: entries of three types, each with its own time as *)
(* its identity.                                                           *)

Plain(e) == e.uuid = e.time /\ e.type \in {"map_change", "prepare", "start"}

Chain(s) ==
  /\ \A i \in 1 .. Len(s) : Plain(s[i])
  /\ \A i, j \in 1 .. Len(s) : i < j => s[i].time < s[j].time

Free(s, time) == \A i \in 1 .. Len(s) : s[i].time # time

(* An event sorted into the log, as AddEvent does it.                      *)
Inserted(s, e) ==
  InsertAt(s, Cardinality({k \in 1 .. Len(s) : Before(s[k], e)}) + 1, e)

(* The time of an entry is a number.                                       *)
LEMMA TimesAreNumbers ==
  ASSUME NEW s \in Seq(EventEntry)
  PROVE  \A i \in 1 .. Len(s) : s[i] \in EventEntry /\ s[i].time \in Int
<1>1. \A i \in 1 .. Len(s) : s[i] \in EventEntry
  OBVIOUS
<1> QED
  BY <1>1, EventTypes

(* r is s with e after its first n entries.                                *)
With(s, n, e, r) ==
  /\ r \in Seq(EventEntry) /\ Len(r) = Len(s) + 1 /\ r[n + 1] = e
  /\ \A k \in 1 .. n : r[k] = s[k]
  /\ \A k \in n + 1 .. Len(s) : r[k + 1] = s[k]

(* What InsertAt does.                                                     *)
LEMMA InsertFacts ==
  ASSUME NEW s \in Seq(EventEntry), NEW e \in EventEntry, NEW n \in 0 .. Len(s),
         NEW i, i = n + 1, NEW r, r = InsertAt(s, i, e)
  PROVE  With(s, n, e, r)
<1> DEFINE m == Len(s)  a == SubSeq(s, 1, n)  b == SubSeq(s, n + 1, m)
           c == a \o <<e>>
<1>1. m \in Nat /\ n \in Nat /\ n <= m /\ n + 1 - 1 = n /\ \A k \in 1 .. m : s[k] \in EventEntry
  OBVIOUS
<1>2. r = c \o b
  <2>1. r = SubSeq(s, 1, i - 1) \o <<e>> \o SubSeq(s, i, Len(s))
    BY Zenon DEF InsertAt
  <2>2. i - 1 = n
    BY <1>1
  <2> QED
    BY <2>1, <2>2, Zenon
<1>3. /\ a \in Seq(EventEntry) /\ Len(a) = n /\ \A k \in 1 .. n : a[k] = s[k]
  <2>1. /\ SubSeq(s, 1, n) \in Seq(EventEntry)
        /\ Len(SubSeq(s, 1, n)) = IF 1 <= n THEN n - 1 + 1 ELSE 0
        /\ \A k \in 1 .. n - 1 + 1 : SubSeq(s, 1, n)[k] = s[1 + k - 1]
    BY <1>1, SubSeqProperties
  <2>2. n - 1 + 1 = n /\ (IF 1 <= n THEN n - 1 + 1 ELSE 0) = n
        /\ \A k \in 1 .. n : 1 + k - 1 = k
    BY <1>1
  <2> QED
    BY <2>1, <2>2
<1>4. /\ b \in Seq(EventEntry) /\ Len(b) = m - n /\ \A k \in 1 .. m - n : b[k] = s[n + k]
  <2>1. /\ SubSeq(s, n + 1, m) \in Seq(EventEntry)
        /\ Len(SubSeq(s, n + 1, m)) = IF n + 1 <= m THEN m - (n + 1) + 1 ELSE 0
        /\ \A k \in 1 .. m - (n + 1) + 1 : SubSeq(s, n + 1, m)[k] = s[n + 1 + k - 1]
    BY <1>1, SubSeqProperties
  <2>2. m - (n + 1) + 1 = m - n /\ (IF n + 1 <= m THEN m - (n + 1) + 1 ELSE 0) = m - n
        /\ \A k \in 1 .. m - n : n + 1 + k - 1 = n + k
    BY <1>1
  <2> QED
    BY <2>1, <2>2
<1> HIDE DEF a, b, m
<1>5. /\ c \in Seq(EventEntry) /\ Len(c) = n + 1 /\ c[n + 1] = e /\ \A k \in 1 .. n : c[k] = s[k]
  BY <1>1, <1>3
<1> HIDE DEF c
<1>6. /\ c \o b \in Seq(EventEntry) /\ Len(c \o b) = m + 1
      /\ \A k \in 1 .. n + 1 : (c \o b)[k] = c[k]
      /\ \A k \in n + 2 .. m + 1 : (c \o b)[k] = b[k - (n + 1)]
  <2>1. /\ c \o b \in Seq(EventEntry) /\ Len(c \o b) = Len(c) + Len(b)
        /\ \A k \in 1 .. Len(c) + Len(b) :
             (c \o b)[k] = IF k <= Len(c) THEN c[k] ELSE b[k - Len(c)]
    BY <1>4, <1>5, ConcatProperties
  <2>2. Len(c) + Len(b) = m + 1 /\ Len(c) = n + 1
    BY <1>1, <1>4, <1>5
  <2>3. \A k \in 1 .. n + 1 : k \in 1 .. m + 1 /\ k <= n + 1
    BY <1>1
  <2>4. \A k \in n + 2 .. m + 1 : k \in 1 .. m + 1 /\ ~ k <= n + 1
    BY <1>1
  <2> QED
    BY <2>1, <2>2, <2>3, <2>4
<1>7. ASSUME NEW k \in n + 1 .. m
      PROVE  (c \o b)[k + 1] = s[k]
  <2>1. k + 1 \in n + 2 .. m + 1 /\ k + 1 - (n + 1) = k - n
        /\ k - n \in 1 .. m - n /\ n + (k - n) = k
    BY <1>1
  <2>2. (c \o b)[k + 1] = b[k - n]
    BY <1>6, <2>1
  <2>3. b[k - n] = s[n + (k - n)]
    BY <1>4, <2>1
  <2> QED
    BY <2>1, <2>2, <2>3
<1>8. r[n + 1] = e /\ \A k \in 1 .. n : r[k] = s[k]
  BY <1>1, <1>2, <1>5, <1>6, SMTT(30)
<1> QED
  BY <1>2, <1>6, <1>7, <1>8 DEF m, With

(* Where an entry goes: after the earlier ones, before the later ones.     *)
LEMMA InsertedWhere ==
  ASSUME NEW s \in Seq(EventEntry), Chain(s), NEW e \in EventEntry, Plain(e),
         Free(s, e.time)
  PROVE  \E n \in 0 .. Len(s) :
           /\ Inserted(s, e) = InsertAt(s, n + 1, e)
           /\ \A i \in 1 .. n : s[i].time < e.time
           /\ \A i \in n + 1 .. Len(s) : e.time < s[i].time
<1> DEFINE m == Len(s)  B == {k \in 1 .. m : s[k].time < e.time}
<1>1. m \in Nat /\ e.time \in Int /\ \A i \in 1 .. m : s[i].time \in Int
  <2>1. e.time \in Int
    BY EventTypes
  <2>2. \A i \in 1 .. Len(s) : s[i].time \in Int
    BY TimesAreNumbers
  <2> QED
    BY <2>1, <2>2
<1>2. {k \in 1 .. Len(s) : Before(s[k], e)} = B
  BY DEF Before, Free
<1>3. \E n \in 0 .. m : B = 1 .. n
  <2>1. CASE B = {}
    <3>1. B = 1 .. 0 /\ 0 \in 0 .. m
      BY <1>1, <2>1
    <3> QED
      BY <3>1
  <2>2. CASE B # {}
    <3>1. B \in SUBSET (1 .. m)
      OBVIOUS
    <3>2. PICK n \in B : \A j \in B : j <= n
      BY <1>1, <2>2, <3>1, Greatest
    <3>3. n \in 1 .. m /\ s[n].time < e.time
      OBVIOUS
    <3>4. \A j \in 1 .. n : j \in 1 .. m /\ (j = n \/ s[j].time < s[n].time)
      BY <1>1, <3>3 DEF Chain
    <3>5. \A j \in 1 .. n : j \in B
      BY <1>1, <3>3, <3>4
    <3>6. B = 1 .. n
      BY <1>1, <3>2, <3>3, <3>5
    <3> QED
      BY <3>3, <3>6
  <2> QED
    BY <2>1, <2>2
<1>4. PICK n \in 0 .. m : B = 1 .. n
  BY <1>3
<1>5. Cardinality(1 .. n) = n
  <2>1. n \in Int /\ 1 \in Int /\ n - 1 + 1 = n /\ (1 > n => n = 0)
    BY <1>1
  <2>2. Cardinality(1 .. n) = IF 1 > n THEN 0 ELSE n - 1 + 1
    BY <2>1, FS_Interval
  <2> QED
    BY <2>1, <2>2
<1>6. Inserted(s, e) = InsertAt(s, n + 1, e)
  BY <1>2, <1>4, <1>5 DEF Inserted
<1>7. \A i \in 1 .. n : s[i].time < e.time
  <2>1. \A i \in 1 .. n : i \in B
    BY <1>4
  <2> QED
    BY <2>1
<1>8. ASSUME NEW i \in n + 1 .. m PROVE e.time < s[i].time
  <2>1. i \in 1 .. m /\ i \notin 1 .. n
    BY <1>1
  <2>2. i \notin B
    BY <1>4, <2>1
  <2>3. ~ s[i].time < e.time /\ s[i].time # e.time
    BY <2>1, <2>2 DEF Free
  <2> QED
    BY <1>1, <2>1, <2>3
<1> QED
  BY <1>6, <1>7, <1>8

(* The log stays in order, with the entry at its place.                    *)
LEMMA InsertedFacts ==
  ASSUME NEW s \in Seq(EventEntry), Chain(s), NEW e \in EventEntry, Plain(e),
         Free(s, e.time)
  PROVE  LET r == Inserted(s, e)
         IN  /\ r \in Seq(EventEntry) /\ Chain(r)
             /\ \E n \in 0 .. Len(s) :
                  /\ Len(r) = Len(s) + 1 /\ r[n + 1] = e
                  /\ \A i \in 1 .. n : r[i] = s[i] /\ s[i].time < e.time
                  /\ \A i \in n + 1 .. Len(s) : r[i + 1] = s[i] /\ e.time < s[i].time
<1> DEFINE r == Inserted(s, e)  m == Len(s)
<1>1. PICK n \in 0 .. m : /\ r = InsertAt(s, n + 1, e)
                          /\ \A i \in 1 .. n : s[i].time < e.time
                          /\ \A i \in n + 1 .. m : e.time < s[i].time
  BY InsertedWhere
<1>2. /\ r \in Seq(EventEntry) /\ Len(r) = m + 1 /\ r[n + 1] = e
      /\ \A i \in 1 .. n : r[i] = s[i]
      /\ \A i \in n + 1 .. m : r[i + 1] = s[i]
  <2> DEFINE i == n + 1
  <2>1. r = InsertAt(s, i, e) /\ i = n + 1 /\ n \in 0 .. Len(s)
    BY <1>1
  <2> HIDE DEF r, i, m
  <2>2. With(s, n, e, r)
    BY <2>1, InsertFacts
  <2> QED
    BY <2>2 DEF m, With
<1>3. m \in Nat /\ n \in Nat /\ e.time \in Int /\ \A i \in 1 .. m : s[i].time \in Int
  <2>1. e.time \in Int
    BY EventTypes
  <2>2. \A i \in 1 .. Len(s) : s[i].time \in Int
    BY TimesAreNumbers
  <2> QED
    BY <2>1, <2>2
<1>4. \A i, j \in 1 .. m : i < j => s[i].time < s[j].time
  BY DEF Chain
<1>5. \A i \in 1 .. m : Plain(s[i])
  BY DEF Chain
<1> HIDE DEF r, m
<1>6. ASSUME NEW i \in 1 .. m + 1
      PROVE  \/ i \in 1 .. n
             \/ i = n + 1
             \/ i - 1 \in n + 1 .. m /\ r[i] = s[i - 1]
  <2>1. i <= n \/ i = n + 1 \/ i - 1 \in n + 1 .. m
    BY <1>3
  <2>2. i - 1 \in n + 1 .. m => r[(i - 1) + 1] = s[i - 1] /\ (i - 1) + 1 = i
    BY <1>2
  <2> QED
    BY <1>3, <2>1, <2>2
<1>7. \A i \in 1 .. m + 1 : Plain(r[i])
  <2> TAKE i \in 1 .. m + 1
  <2>1. CASE i \in 1 .. n
    <3>1. i \in 1 .. m
      BY <1>3, <2>1
    <3> QED
      BY <1>2, <1>5, <2>1, <3>1
  <2>2. CASE i = n + 1
    BY <1>2, <2>2
  <2>3. CASE i - 1 \in n + 1 .. m /\ r[i] = s[i - 1]
    <3>1. i - 1 \in 1 .. m
      BY <1>3, <2>3
    <3> QED
      BY <1>5, <2>3, <3>1
  <2> QED
    BY <1>6, <2>1, <2>2, <2>3
<1>8. ASSUME NEW i \in 1 .. m + 1, NEW j \in 1 .. m + 1, i < j
      PROVE  r[i].time < r[j].time
  <2>1. CASE i \in 1 .. n /\ j \in 1 .. n
    <3>1. i \in 1 .. m /\ j \in 1 .. m
      BY <1>3, <2>1
    <3> QED
      BY <1>2, <1>4, <1>8, <2>1, <3>1
  <2>2. CASE i \in 1 .. n /\ j = n + 1
    BY <1>1, <1>2, <2>2
  <2>3. CASE i \in 1 .. n /\ j - 1 \in n + 1 .. m /\ r[j] = s[j - 1]
    <3>1. i \in 1 .. m /\ j - 1 \in 1 .. m /\ i < j - 1
      BY <1>3, <2>3
    <3> QED
      BY <1>2, <1>4, <2>3, <3>1
  <2>4. CASE i = n + 1 /\ j - 1 \in n + 1 .. m /\ r[j] = s[j - 1]
    BY <1>1, <1>2, <2>4
  <2>5. CASE i - 1 \in n + 1 .. m /\ r[i] = s[i - 1] /\ j - 1 \in n + 1 .. m /\ r[j] = s[j - 1]
    <3>1. i - 1 \in 1 .. m /\ j - 1 \in 1 .. m /\ i - 1 < j - 1
      BY <1>3, <1>8, <2>5
    <3> QED
      BY <1>4, <2>5, <3>1
  <2>6. ~ (i - 1 \in n + 1 .. m /\ j \in 1 .. n) /\ ~ (i = n + 1 /\ j \in 1 .. n)
        /\ ~ (i - 1 \in n + 1 .. m /\ j = n + 1) /\ ~ (i = n + 1 /\ j = n + 1)
    BY <1>3, <1>8
  <2> QED
    BY <1>6, <2>1, <2>2, <2>3, <2>4, <2>5, <2>6
<1>9. Chain(r)
  BY <1>2, <1>7, <1>8 DEF Chain
<1>10. /\ Len(r) = m + 1 /\ r[n + 1] = e
       /\ \A i \in 1 .. n : r[i] = s[i] /\ s[i].time < e.time
       /\ \A i \in n + 1 .. m : r[i + 1] = s[i] /\ e.time < s[i].time
  BY <1>1, <1>2
<1> QED
  BY <1>2, <1>9, <1>10 DEF r, m

(* The newest event goes to the end.                                       *)
LEMMA NewestIsLast ==
  ASSUME NEW s \in Seq(EventEntry), Chain(s), NEW e \in EventEntry, Plain(e),
         \A i \in 1 .. Len(s) : s[i].time < e.time
  PROVE  Inserted(s, e) = Append(s, e) /\ Free(s, e.time)
<1> DEFINE m == Len(s)  r == Inserted(s, e)  a == Append(s, e)
<1>1. m \in Nat /\ e.time \in Int /\ \A i \in 1 .. m : s[i].time \in Int
  <2>1. e.time \in Int
    BY EventTypes
  <2>2. \A i \in 1 .. Len(s) : s[i].time \in Int
    BY TimesAreNumbers
  <2> QED
    BY <2>1, <2>2
<1>2. Free(s, e.time)
  BY <1>1 DEF Free
<1>3. PICK n \in 0 .. m : /\ r = InsertAt(s, n + 1, e)
                          /\ \A i \in n + 1 .. m : e.time < s[i].time
  BY <1>2, InsertedWhere
<1>4. n = m
  <2> SUFFICES ASSUME n # m PROVE FALSE
    OBVIOUS
  <2>1. m \in n + 1 .. m /\ m \in 1 .. m
    BY <1>1
  <2> QED
    BY <1>1, <1>3, <2>1
<1>5. /\ r \in Seq(EventEntry) /\ Len(r) = m + 1 /\ r[m + 1] = e
      /\ \A i \in 1 .. m : r[i] = s[i]
  <2> DEFINE i == n + 1
  <2>1. r = InsertAt(s, i, e) /\ i = n + 1 /\ n \in 0 .. Len(s)
    BY <1>3
  <2> HIDE DEF r, i, m
  <2>2. With(s, n, e, r)
    BY <2>1, InsertFacts
  <2> QED
    BY <1>4, <2>2 DEF m, With
<1>6. /\ a \in Seq(EventEntry) /\ Len(a) = m + 1 /\ a[m + 1] = e
      /\ \A i \in 1 .. m : a[i] = s[i]
  OBVIOUS
<1> HIDE DEF a, r, m
<1>7. \A i \in 1 .. m + 1 : r[i] = a[i]
  BY <1>1, <1>5, <1>6
<1>8. r = a
  BY <1>5, <1>6, <1>7, SeqEqual
<1> QED
  BY <1>2, <1>8 DEF r, a

(* The last entry of a log in order is later than the others.              *)
LEMMA ChainFront ==
  ASSUME NEW s \in Seq(EventEntry), NEW x \in EventEntry, Chain(Append(s, x))
  PROVE  /\ Chain(s) /\ Plain(x) /\ \A i \in 1 .. Len(s) : s[i].time < x.time
         /\ \A time : Free(Append(s, x), time) => Free(s, time) /\ x.time # time
<1> DEFINE a == Append(s, x)  m == Len(s)
<1>1. /\ m \in Nat /\ Len(a) = m + 1 /\ a[m + 1] = x /\ \A i \in 1 .. m : a[i] = s[i]
  OBVIOUS
<1>2. Chain(a)
  OBVIOUS
<1> HIDE DEF a
<1>3. \A i \in 1 .. m : i \in 1 .. m + 1 /\ i < m + 1
  BY <1>1
<1>4. m + 1 \in 1 .. m + 1
  BY <1>1
<1>5. Plain(x) /\ \A i \in 1 .. m : Plain(s[i]) /\ s[i].time < x.time
  BY <1>1, <1>2, <1>3, <1>4 DEF Chain
<1>6. \A i, j \in 1 .. m : i < j => s[i].time < s[j].time
  BY <1>1, <1>2, <1>3 DEF Chain
<1>7. ASSUME NEW time, Free(a, time) PROVE Free(s, time) /\ x.time # time
  BY <1>1, <1>3, <1>4, <1>7 DEF Free
<1> QED
  BY <1>5, <1>6, <1>7 DEF Chain, a

(* A log in order is sorted, and its entries are told apart.               *)
LEMMA ChainIsSorted ==
  ASSUME NEW s \in Seq(EventEntry), Chain(s)
  PROVE  Sorted(s) /\ UniqueUuids(s)
<1> DEFINE m == Len(s)
<1>1. m \in Nat /\ \A i \in 1 .. m : s[i].time \in Int /\ s[i].uuid = s[i].time
  <2>1. \A i \in 1 .. Len(s) : s[i].time \in Int
    BY TimesAreNumbers
  <2> QED
    BY <2>1 DEF Chain, Plain
<1>2. \A i, j \in 1 .. m : i < j => s[i].time < s[j].time
  BY DEF Chain
<1>3. Sorted(s)
  BY <1>1, <1>2 DEF Sorted, Before
<1>4. ASSUME NEW i \in 1 .. m, NEW j \in 1 .. m, s[i].uuid = s[j].uuid
      PROVE  i = j
  <2>1. s[i].time = s[j].time
    BY <1>1, <1>4
  <2> QED
    BY <1>1, <1>2, <2>1
<1> QED
  BY <1>3, <1>4 DEF UniqueUuids

(* The locals after a log in order of which nothing is dropped.            *)
LEMMA ChainLocals ==
  ASSUME NEW s \in Seq(EventEntry), Chain(s), Fixed(s)
  PROVE  Eval(s).fsm \in Fsm /\ Eval(s).fsm.processed_uuids = UuidsOf(s)
<1>1. Clean(s)
  BY ChainIsSorted, EvalSound
<1>2. Eval(s).kept = s
  BY DEF Fixed
<1> QED
  BY <1>1, <1>2 DEF Clean, Sound

(* An entry with a new time has not been processed.                        *)
LEMMA FreeIsNew ==
  ASSUME NEW s \in Seq(EventEntry), Chain(s), NEW e, Plain(e), Free(s, e.time)
  PROVE  e.uuid \notin UuidsOf(s)
<1>1. \A i \in 1 .. Len(s) : s[i].uuid = s[i].time /\ s[i].time # e.time
  BY DEF Chain, Plain, Free
<1> QED
  BY <1>1 DEF UuidsOf, Plain

StatusAfter(type) ==
  IF type = "map_change" THEN "stopped"
  ELSE IF type = "prepare" THEN "prepared" ELSE "running"

(* The entries of three types set the status, whatever it was.             *)
LEMMA StatusIsSet ==
  ASSUME NEW f \in Fsm, NEW e \in EventEntry, Plain(e)
  PROVE  /\ Relevant(f, e) => Iteration(f, e).status = StatusAfter(e.type)
         /\ e.uuid \notin f.processed_uuids /\ f.status = "stopped" => Relevant(f, e)
         /\ e.uuid \notin f.processed_uuids /\ e.type = "map_change" => Relevant(f, e)
         /\ e.uuid \notin f.processed_uuids /\ ~ Relevant(f, e) => f.status # "stopped"
<1>1. ASSUME Relevant(f, e) PROVE Iteration(f, e).status = StatusAfter(e.type)
  <2>1. Effect(f, e, Iteration(f, e))
    BY <1>1, IterationEffect
  <2> QED
    BY <2>1 DEF Effect, StatusAfter, Plain
<1>2. f.status \in TimerStatus
  BY FsmTypes
<1> QED
  BY <1>1, <1>2 DEF Relevant, Plain, TimerStatus

(* An event that is newer than the log.                                    *)
LEMMA NewestEvent ==
  ASSUME NEW s \in Seq(EventEntry), Chain(s), Fixed(s), NEW e \in EventEntry, Plain(e),
         \A i \in 1 .. Len(s) : s[i].time < e.time
  PROVE  LET r == Append(s, e)
         IN  /\ Inserted(s, e) = r /\ Chain(r)
             /\ \/ Eval(r).kept = r /\ Eval(r).fsm.status = StatusAfter(e.type)
                \/ /\ Eval(r).kept = s /\ e.type # "map_change"
                   /\ Eval(r).fsm.status # "stopped"
<1> DEFINE r == Append(s, e)  f == Eval(s).fsm
<1>1. Inserted(s, e) = r /\ Free(s, e.time) /\ r \in Seq(EventEntry)
  BY NewestIsLast
<1>2. Chain(r)
  <2>1. Chain(Inserted(s, e))
    BY <1>1, InsertedFacts
  <2> QED
    BY <1>1, <2>1
<1>3. f \in Fsm /\ e.uuid \notin f.processed_uuids
  BY <1>1, ChainLocals, FreeIsNew
<1>4. Eval(s).kept = s
  BY DEF Fixed
<1>5. CASE Relevant(f, e)
  <2>1. Eval(r).kept = r /\ Eval(r).fsm = Iteration(f, e)
    BY <1>4, <1>5, EvalMore
  <2>2. Eval(r).fsm.status = StatusAfter(e.type)
    BY <1>3, <1>5, <2>1, StatusIsSet
  <2> QED
    BY <1>1, <1>2, <2>1, <2>2
<1>6. CASE ~ Relevant(f, e)
  <2>1. Eval(r) = Eval(s)
    BY <1>6, EvalMore
  <2>2. f.status # "stopped" /\ e.type # "map_change"
    BY <1>3, <1>6, StatusIsSet
  <2> QED
    BY <1>1, <1>2, <1>4, <2>1, <2>2
<1> QED
  BY <1>5, <1>6

(* An event that is older than the last entry goes in before it.           *)
LEMMA InsertedBefore ==
  ASSUME NEW s \in Seq(EventEntry), NEW x \in EventEntry, Chain(Append(s, x)),
         NEW e \in EventEntry, Plain(e), Free(Append(s, x), e.time), e.time < x.time
  PROVE  Inserted(Append(s, x), e) = Append(Inserted(s, e), x)
<1> DEFINE a == Append(s, x)  m == Len(s)  r == Inserted(s, e)  q == Inserted(a, e)
           p == Append(r, x)
<1>1. /\ a \in Seq(EventEntry) /\ m \in Nat /\ Len(a) = m + 1 /\ a[m + 1] = x
      /\ \A i \in 1 .. m : a[i] = s[i]
  OBVIOUS
<1>2. Chain(s) /\ Free(s, e.time) /\ e.time \in Int /\ x.time \in Int
  BY ChainFront, EventTypes
<1>3. /\ r \in Seq(EventEntry) /\ Chain(r)
      /\ \E n \in 0 .. m :
           /\ Len(r) = m + 1 /\ r[n + 1] = e
           /\ \A i \in 1 .. n : r[i] = s[i] /\ s[i].time < e.time
           /\ \A i \in n + 1 .. m : r[i + 1] = s[i] /\ e.time < s[i].time
  BY <1>2, InsertedFacts
<1>4. /\ q \in Seq(EventEntry)
      /\ \E n \in 0 .. m + 1 :
           /\ Len(q) = m + 1 + 1 /\ q[n + 1] = e
           /\ \A i \in 1 .. n : q[i] = a[i] /\ a[i].time < e.time
           /\ \A i \in n + 1 .. m + 1 : q[i + 1] = a[i] /\ e.time < a[i].time
  <2> HIDE DEF a, m
  <2>1. Chain(a) /\ Free(a, e.time)
    BY DEF a
  <2>2. /\ q \in Seq(EventEntry)
        /\ \E n \in 0 .. Len(a) :
             /\ Len(q) = Len(a) + 1 /\ q[n + 1] = e
             /\ \A i \in 1 .. n : q[i] = a[i] /\ a[i].time < e.time
             /\ \A i \in n + 1 .. Len(a) : q[i + 1] = a[i] /\ e.time < a[i].time
    BY <1>1, <2>1, InsertedFacts
  <2> QED
    BY <1>1, <2>2
<1>5. p \in Seq(EventEntry) /\ Len(p) = m + 2 /\ p[m + 2] = x /\ \A i \in 1 .. m + 1 : p[i] = r[i]
  <2> HIDE DEF r, m
  <2> QED
    BY <1>1, <1>3
<1> HIDE DEF a, m, r, q, p
<1>6. PICK n \in 0 .. m :
           /\ Len(r) = m + 1 /\ r[n + 1] = e
           /\ \A i \in 1 .. n : r[i] = s[i] /\ s[i].time < e.time
           /\ \A i \in n + 1 .. m : r[i + 1] = s[i] /\ e.time < s[i].time
  BY <1>3
<1>7. PICK k \in 0 .. m + 1 :
           /\ Len(q) = m + 1 + 1 /\ q[k + 1] = e
           /\ \A i \in 1 .. k : q[i] = a[i] /\ a[i].time < e.time
           /\ \A i \in k + 1 .. m + 1 : q[i + 1] = a[i] /\ e.time < a[i].time
  BY <1>4
<1>8. \A i \in 1 .. m : s[i].time \in Int
  BY TimesAreNumbers DEF m
<1>9. k <= m
  <2> SUFFICES ASSUME k = m + 1 PROVE FALSE
    BY <1>1
  <2>1. m + 1 \in 1 .. k
    BY <1>1
  <2> QED
    BY <1>1, <1>2, <1>7, <2>1
<1>10. k = n
  <2>1. ~ k < n
    <3> SUFFICES ASSUME k < n PROVE FALSE
      OBVIOUS
    <3>1. n \in 1 .. n /\ n \in k + 1 .. m + 1 /\ n \in 1 .. m
      BY <1>1
    <3>2. a[n] = s[n]
      BY <1>1, <3>1
    <3> QED
      BY <1>2, <1>6, <1>7, <1>8, <3>1, <3>2, SMTT(30)
  <2>2. ~ n < k
    <3> SUFFICES ASSUME n < k PROVE FALSE
      OBVIOUS
    <3>1. k \in 1 .. k /\ k \in n + 1 .. m /\ k \in 1 .. m
      BY <1>1, <1>9
    <3>2. a[k] = s[k]
      BY <1>1, <3>1
    <3> QED
      BY <1>2, <1>6, <1>7, <1>8, <3>1, <3>2
  <2> QED
    BY <1>1, <2>1, <2>2
<1>11. ASSUME NEW i \in 1 .. m + 2 PROVE q[i] = p[i]
  <2>1. CASE i \in 1 .. n
    <3>1. i \in 1 .. m /\ i \in 1 .. m + 1
      BY <1>1, <2>1
    <3> QED
      BY <1>1, <1>5, <1>6, <1>7, <1>10, <2>1, <3>1
  <2>2. CASE i = n + 1
    <3>1. i \in 1 .. m + 1
      BY <1>1, <2>2
    <3> QED
      BY <1>5, <1>6, <1>7, <1>10, <2>2, <3>1
  <2>3. CASE i = m + 2
    <3>1. m + 1 \in k + 1 .. m + 1 /\ m + 1 + 1 = m + 2
      BY <1>1, <1>9
    <3>2. q[m + 2] = a[m + 1]
      BY <1>7, <3>1
    <3> QED
      BY <1>1, <1>5, <2>3, <3>2
  <2>4. CASE i \in n + 2 .. m + 1
    <3>1. /\ i - 1 \in n + 1 .. m /\ i - 1 \in k + 1 .. m + 1 /\ i - 1 \in 1 .. m
          /\ (i - 1) + 1 = i /\ i \in 1 .. m + 1
      BY <1>1, <1>10, <2>4
    <3>2. q[i] = a[i - 1] /\ r[i] = s[i - 1]
      BY <1>6, <1>7, <3>1
    <3> QED
      BY <1>1, <1>5, <3>1, <3>2
  <2>5. i \in 1 .. n \/ i = n + 1 \/ i = m + 2 \/ i \in n + 2 .. m + 1
    BY <1>1
  <2> QED
    BY <2>1, <2>2, <2>3, <2>4, <2>5
<1>12. q = p
  <2>1. Len(q) = m + 2
    BY <1>1, <1>7
  <2> QED
    BY <1>4, <1>5, <1>11, <2>1, SeqEqual
<1> QED
  BY <1>12 DEF q, p, a, r

(* A map_change goes in wherever its time puts it: nothing is dropped, and *)
(* the status is what it was if there are later entries.                   *)
LEMMA ChangeIsKept ==
  ASSUME NEW s \in Seq(EventEntry), Chain(s), Fixed(s),
         NEW e \in EventEntry, Plain(e), e.type = "map_change", Free(s, e.time)
  PROVE  LET r == Inserted(s, e)
         IN  /\ Fixed(r)
             /\ \/ Eval(r).fsm.status = Eval(s).fsm.status
                \/ /\ Eval(r).fsm.status = "stopped"
                   /\ \A i \in 1 .. Len(s) : s[i].time < e.time
<1> DEFINE Good(a) == LET r == Inserted(a, e)
                      IN  /\ Fixed(r)
                          /\ \/ Eval(r).fsm.status = Eval(a).fsm.status
                             \/ /\ Eval(r).fsm.status = "stopped"
                                /\ \A i \in 1 .. Len(a) : a[i].time < e.time
           P == {a \in Seq(EventEntry) : Fixed(a) /\ Chain(a) /\ Free(a, e.time) => Good(a)}
<1>1. ASSUME NEW a \in Seq(EventEntry), Fixed(a), Chain(a),
             \A i \in 1 .. Len(a) : a[i].time < e.time
      PROVE  Good(a)
  <2>1. /\ Inserted(a, e) = Append(a, e)
        /\ Eval(Append(a, e)).kept = Append(a, e)
        /\ Eval(Append(a, e)).fsm.status = "stopped"
    <3>1. /\ Inserted(a, e) = Append(a, e)
          /\ Eval(Append(a, e)).kept = Append(a, e)
          /\ Eval(Append(a, e)).fsm.status = StatusAfter(e.type)
      BY <1>1, NewestEvent
    <3> QED
      BY <3>1 DEF StatusAfter
  <2> QED
    BY <1>1, <2>1 DEF Fixed
<1>2. <<>> \in P
  <2>1. <<>> \in Seq(EventEntry) /\ Len(<<>>) = 0
    OBVIOUS
  <2>2. \A i \in 1 .. Len(<<>>) : <<>>[i].time < e.time
    BY <2>1
  <2> HIDE DEF Good
  <2>3. Fixed(<<>>) /\ Chain(<<>>) => Good(<<>>)
    BY <1>1, <2>1, <2>2, Zenon
  <2> QED
    BY <2>1, <2>3
<1>3. ASSUME NEW a \in P, NEW x \in EventEntry,
             Fixed(a), Fixed(Append(a, x)), Relevant(Eval(a).fsm, x)
      PROVE  Append(a, x) \in P
  <2> DEFINE b == Append(a, x)  r == Inserted(a, e)  f == Eval(a).fsm  g == Eval(r).fsm
  <2>1. a \in Seq(EventEntry) /\ b \in Seq(EventEntry)
    OBVIOUS
  <2> SUFFICES ASSUME Chain(b), Free(b, e.time) PROVE Good(b)
    BY <2>1
  <2>2. /\ Chain(a) /\ Plain(x) /\ Free(a, e.time) /\ x.time # e.time
        /\ \A i \in 1 .. Len(a) : a[i].time < x.time
    BY <2>1, ChainFront
  <2>3. x.time \in Int /\ e.time \in Int /\ \A i \in 1 .. Len(a) : a[i].time \in Int
    BY <2>1, EventTypes, TimesAreNumbers
  <2>4. CASE x.time < e.time
    <3>1. /\ Len(b) = Len(a) + 1 /\ b[Len(a) + 1] = x /\ Len(a) \in Nat
          /\ \A i \in 1 .. Len(a) : b[i] = a[i]
      BY <2>1
    <3> HIDE DEF b, Good
    <3>2. ASSUME NEW i \in 1 .. Len(b) PROVE b[i].time < e.time
      <4>1. CASE i = Len(a) + 1
        BY <2>4, <3>1, <4>1
      <4>2. CASE i # Len(a) + 1
        <5>1. i \in 1 .. Len(a)
          BY <3>1, <4>2
        <5>2. a[i].time < x.time /\ b[i] = a[i] /\ a[i].time \in Int
          BY <2>2, <2>3, <3>1, <5>1
        <5> QED
          BY <2>3, <2>4, <5>2
      <4> QED
        BY <4>1, <4>2
    <3>3. Fixed(b)
      BY <1>3 DEF b
    <3> QED
      BY <1>1, <2>1, <3>2, <3>3
  <2>5. CASE e.time < x.time
    <3>1. Good(a)
      BY <1>3, <2>2
    <3>2. Inserted(b, e) = Append(r, x)
      BY <2>1, <2>5, InsertedBefore
    <3>3. r \in Seq(EventEntry) /\ Chain(r)
      BY <2>1, <2>2, InsertedFacts
    <3>4. Append(r, x) \in Seq(EventEntry) /\ Chain(Append(r, x))
      <4>1. Chain(Inserted(b, e))
        <5> HIDE DEF b
        <5> QED
          BY <2>1, InsertedFacts
      <4> HIDE DEF r
      <4> QED
        BY <3>2, <3>3, <4>1
    <3>5. Fixed(r) /\ (g.status = f.status \/ g.status = "stopped")
      BY <3>1
    <3> HIDE DEF r
    <3>6. g \in Fsm /\ g.processed_uuids = UuidsOf(r)
      BY <3>3, <3>5, ChainLocals
    <3>7. x.uuid \notin g.processed_uuids
      <4>1. \A i \in 1 .. Len(r) : r[i].time < x.time
        BY <3>3, <3>4, ChainFront
      <4>2. \A i \in 1 .. Len(r) : r[i].time \in Int
        BY <3>3, TimesAreNumbers
      <4>3. Free(r, x.time)
        BY <2>3, <4>1, <4>2 DEF Free
      <4> QED
        BY <2>2, <3>3, <3>6, <4>3, FreeIsNew
    <3>8. Relevant(g, x)
      <4>1. CASE g.status = "stopped"
        BY <2>2, <3>6, <3>7, <4>1, StatusIsSet
      <4>2. CASE g.status = f.status
        BY <1>3, <3>7, <4>2 DEF Relevant
      <4> QED
        BY <3>5, <4>1, <4>2
    <3>9. /\ Eval(Append(r, x)).kept = Append(r, x)
          /\ Eval(Append(r, x)).fsm.status = StatusAfter(x.type)
      <4>1. /\ Eval(Append(r, x)).fsm = Iteration(g, x)
            /\ Eval(Append(r, x)).kept = Append(Eval(r).kept, x)
        BY <3>3, <3>8, EvalMore
      <4>2. Iteration(g, x).status = StatusAfter(x.type)
        BY <2>2, <3>6, <3>8, StatusIsSet
      <4> QED
        BY <3>5, <4>1, <4>2 DEF Fixed
    <3>10. Eval(b).fsm.status = StatusAfter(x.type)
      <4>1. Eval(b).fsm = Iteration(f, x)
        BY <1>3, <2>1, EvalMore
      <4>2. f \in Fsm
        BY <1>3, <2>1, <2>2, ChainLocals
      <4> QED
        BY <1>3, <2>2, <4>1, <4>2, StatusIsSet
    <3>11. Fixed(Inserted(b, e)) /\ Eval(Inserted(b, e)).fsm.status = Eval(b).fsm.status
      BY <3>2, <3>9, <3>10 DEF Fixed
    <3> QED
      BY <3>11
  <2> QED
    BY <2>2, <2>3, <2>4, <2>5
<1> HIDE DEF Good
<1>4. \A a \in Seq(EventEntry) : Fixed(a) => a \in P
  <2> HIDE DEF P
  <2>1. P \in SUBSET Seq(EventEntry)
    BY DEF P
  <2>2. \A a \in P, x \in EventEntry :
          Fixed(a) /\ Fixed(Append(a, x)) /\ Relevant(Eval(a).fsm, x) => Append(a, x) \in P
    BY <1>3
  <2> QED
    BY <1>2, <2>1, <2>2, FixedInduction
<1>5. Good(s)
  BY <1>4
<1> QED
  BY <1>5 DEF Good

-----------------------------------------------------------------------------
(* The invariant.                                                          *)

ArrivalType == [prepare : BOOLEAN, late : BOOLEAN, nested : BOOLEAN, moved : BOOLEAN]

MoreTypes == arrival \in ArrivalType /\ travels \in Nat /\ still \in BOOLEAN

(* The log is in order, nothing of it would be dropped, and its times were *)
(* read from the clock.                                                    *)
LogInv ==
  /\ log \in Seq(EventEntry) /\ Chain(log) /\ Fixed(log)
  /\ state.status = Eval(log).fsm.status
  /\ stamps \in Nat /\ \A i \in 1 .. Len(log) : log[i].time <= stamps

(* All calls but the innermost ask for a name, and the times they read for *)
(* their events are not yet in the log.                                    *)
Asking(c) == c.stage = "request"

GoodCalls(c, s, n) ==
  /\ c \in Seq(Call)
  /\ \A i \in 1 .. Len(c) : i < Len(c) => Asking(c[i])
  /\ \A i \in 1 .. Len(c) :
       /\ c[i].stamp <= n
       /\ Asking(c[i]) => c[i].asked \in Map
       /\ Asking(c[i]) /\ c[i].stamp # 0 => Free(s, c[i].stamp)
  /\ \A i, j \in 1 .. Len(c) :
       i # j /\ Asking(c[i]) /\ Asking(c[j]) /\ c[i].stamp # 0 => c[i].stamp # c[j].stamp

(* A call that has yet to store the map id.                                *)
Unsettled == ~ Idle /\ Top.stage = "track"

CallsInv ==
  GoodCalls(calls, log, stamps) /\ (~ Idle /\ Top.stage # "track" => map_id \in Map)

LastChange(s, i) ==
  s[i].type = "map_change" /\ \A j \in i + 1 .. Len(s) : s[j].type # "map_change"

Older(s, time) == \A i \in 1 .. Len(s) : s[i].type = "map_change" => s[i].time < time

(* A change that no other one came into asks for the map that is tracked,  *)
(* and what it logs is the last map_change.                                *)
NamesInv ==
  ~ arrival.nested /\ ~ Unsettled =>
    /\ Len(calls) <= 1
    /\ ~ Idle /\ Top.stage = "request" =>
         Top.asked = map_id /\ (Top.stamp # 0 => Older(log, Top.stamp))
    /\ map_id # Nowhere /\ (Idle \/ Top.stage = "code") =>
         \E i \in 1 .. Len(log) : LastChange(log, i) /\ log[i].name \in {map_id, "Unknown"}

(* A deferred prepare waits until its delay is over, that is for the       *)
(* map_change of its change if that is not late.                           *)
PrepareInv ==
  /\ ~ arrival.nested /\ ~ Idle /\ Top.stage = "signal" => ~ arrival.prepare
  /\ ~ arrival.nested /\ ~ Idle /\ Top.stage \in {"signal", "name"} => Top.since = now
  /\ ~ arrival.nested /\ arrival.prepare /\ ~ Idle /\ Top.stage \in {"name", "request"} =>
       Top.since + Delay <= now \/ \E d \in deferred : d.due = Top.since + Delay
  /\ ~ arrival.nested /\ arrival.prepare /\ ~ arrival.late /\ (Idle \/ Top.stage = "code") =>
       deferred # {} \/ state.status # "stopped"

(* What copies under way read and stored is where the avatar is, unless it *)
(* moved; so is the position if it was stored as a whole since.            *)
Undisturbed == \A d \in deferred : ~ d.moved

CopyInv(d) ==
  /\ d.moved => d.stored # Axis
  /\ ~ d.moved /\ d.read # Unread =>
       \A a \in Axis : First(a, Axis \ d.stored) => d.read = link.avatar[a]

StoredInv(d) ==
  d.stored # Axis => \A a \in d.stored : last_position[a] = link.avatar[a]

PlaceInv ==
  /\ still => last_position = link.avatar /\ Undisturbed
  /\ \A d \in deferred : CopyInv(d)
  /\ Undisturbed => \A d \in deferred : StoredInv(d)
  /\ frame.still => still
  /\ frame.stage = "start" => ~ frame.still

CodeInv ==
  Idle /\ map_id = link.map /\ ~ arrival.moved /\ link.server \in Ipv4 =>
    map_code = Crc(link.server)

MapIInv ==
  /\ MapTypeOK /\ MoreTypes /\ LogInv /\ CallsInv
  /\ NamesInv /\ PrepareInv /\ PlaceInv /\ CodeInv

StateType == [status : TimerStatus, start_time : Instant, was_prepared : BOOLEAN]

-----------------------------------------------------------------------------
(* What an event does to the log.                                          *)

(* An event is an entry, sorted in, and the log is evaluated.              *)
LEMMA AddEventFacts ==
  ASSUME LogInv, NEW time \in Nat \ {0}, NEW type \in {"map_change", "prepare", "start"},
         NEW source \in EventSource, NEW name \in Name \cup {NoName},
         AddEvent(time, type, source, name)
  PROVE  \E e \in EventEntry :
           /\ e.time = time /\ e.type = type /\ e.name = name /\ Plain(e)
           /\ log' = Eval(Inserted(log, e)).kept
           /\ state' = Verdict(Eval(Inserted(log, e)).fsm)
<1> DEFINE e == [time |-> time, type |-> type, source |-> source, uuid |-> time, name |-> name]
<1>1. time < TimeMax /\ time \in Time /\ time \in Uuid
  <2>1. time < TimeMax
    BY DEF AddEvent
  <2>2. time \in 1 .. TimeMax - 1
    BY <2>1, TimeMaxAssumption
  <2> QED
    BY <2>1, <2>2, TimeMaxAssumption, StampAssumption DEF Time
<1>2. e \in EventEntry
  <2>1. type \in EventType
    BY DEF EventType
  <2> QED
    BY <1>1, <2>1, Zenon DEF EventEntry
<1>3. e.time = time /\ e.type = type /\ e.name = name /\ Plain(e)
  BY DEF Plain
<1>4. /\ log' = Eval(Inserted(log, e)).kept
      /\ state' = Verdict(Eval(Inserted(log, e)).fsm)
  BY Zenon DEF AddEvent, Inserted
<1> QED
  BY <1>2, <1>3, <1>4

(* What an evaluation yields of a log in order.                            *)
LEMMA VerdictType ==
  ASSUME NEW s \in Seq(EventEntry), Chain(s)
  PROVE  /\ Verdict(Eval(s).fsm) \in StateType
         /\ Verdict(Eval(s).fsm).status = Eval(s).fsm.status
<1>1. Eval(s).fsm \in Fsm
  BY ChainIsSorted, EvalSound DEF Clean, Sound
<1> QED
  BY <1>1, FsmTypes DEF Verdict, StateType

(* An event of the present is the last, if it is kept.                     *)
LEMMA AddNewest ==
  ASSUME LogInv, NEW type \in {"prepare", "start"}, NEW source \in EventSource,
         AddEventNow(type, source)
  PROVE  /\ LogInv' /\ stamps' = stamps + 1
         /\ state' \in StateType /\ state'.status # "stopped"
         /\ \/ log' = log
            \/ \E e \in EventEntry : /\ log' = Append(log, e) /\ e.type # "map_change"
                                     /\ e.time = stamps + 1
<1>1. stamps' = stamps + 1 /\ AddEvent(stamps + 1, type, source, NoName)
  BY DEF AddEventNow, Stamp
<1>2. /\ stamps \in Nat /\ stamps + 1 \in Nat \ {0}
      /\ log \in Seq(EventEntry) /\ Chain(log) /\ Fixed(log)
  BY DEF LogInv
<1>3. PICK e \in EventEntry :
        /\ e.time = stamps + 1 /\ e.type = type /\ e.name = NoName /\ Plain(e)
        /\ log' = Eval(Inserted(log, e)).kept
        /\ state' = Verdict(Eval(Inserted(log, e)).fsm)
  <2>1. type \in {"map_change", "prepare", "start"} /\ NoName \in Name \cup {NoName}
    OBVIOUS
  <2> QED
    BY <1>1, <1>2, <2>1, AddEventFacts
<1>4. \A i \in 1 .. Len(log) : log[i].time < e.time
  <2>1. \A i \in 1 .. Len(log) : log[i].time \in Int
    BY <1>2, TimesAreNumbers
  <2> QED
    BY <1>2, <1>3, <2>1 DEF LogInv
<1> DEFINE r == Append(log, e)
<1>5. /\ Inserted(log, e) = r /\ Chain(r) /\ r \in Seq(EventEntry)
      /\ \/ Eval(r).kept = r /\ Eval(r).fsm.status = StatusAfter(e.type)
         \/ Eval(r).kept = log /\ Eval(r).fsm.status # "stopped"
  BY <1>2, <1>3, <1>4, NewestEvent
<1>6. log' = Eval(r).kept /\ state' = Verdict(Eval(r).fsm)
  BY <1>3, <1>5
<1>7. state' \in StateType /\ state'.status = Eval(r).fsm.status
  BY <1>5, <1>6, VerdictType
<1>8. Eval(log') = Eval(r)
  BY <1>5, <1>6, EvalTwice
<1>9. log' = log \/ log' = r
  BY <1>5, <1>6
<1>10. state'.status # "stopped"
  BY <1>3, <1>5, <1>7 DEF StatusAfter
<1>11. \A i \in 1 .. Len(log') : log'[i].time <= stamps + 1
  <2>1. \A i \in 1 .. Len(log) : log[i].time <= stamps /\ log[i].time \in Int
    BY <1>2, TimesAreNumbers DEF LogInv
  <2>2. CASE log' = log
    BY <1>2, <2>1, <2>2
  <2>3. CASE log' = r
    <3>1. /\ Len(r) = Len(log) + 1 /\ r[Len(log) + 1] = e /\ Len(log) \in Nat
          /\ \A i \in 1 .. Len(log) : r[i] = log[i]
      BY <1>2
    <3> HIDE DEF r
    <3>2. ASSUME NEW i \in 1 .. Len(r) PROVE r[i].time <= stamps + 1
      <4>1. i = Len(log) + 1 \/ i \in 1 .. Len(log)
        BY <3>1
      <4> QED
        BY <1>2, <1>3, <2>1, <3>1, <4>1
    <3> QED
      BY <2>3, <3>2
  <2> QED
    BY <1>9, <2>2, <2>3
<1>12. LogInv'
  <2>1. log' \in Seq(EventEntry) /\ Chain(log')
    BY <1>2, <1>5, <1>9
  <2>2. Fixed(log')
    BY <1>6, <1>8 DEF Fixed
  <2>3. state'.status = Eval(log').fsm.status
    BY <1>7, <1>8
  <2> QED
    BY <1>1, <1>2, <1>11, <2>1, <2>2, <2>3 DEF LogInv
<1> QED
  BY <1>1, <1>3, <1>7, <1>9, <1>10, <1>12

(* What an entry at the end leaves as it was.                              *)
LEMMA NewestLeaves ==
  ASSUME LogInv,
         \/ log' = log
         \/ \E e \in EventEntry : /\ log' = Append(log, e) /\ e.type # "map_change"
                                  /\ e.time = stamps + 1
  PROVE  /\ \A time \in Nat : time <= stamps /\ Free(log, time) => Free(log', time)
         /\ \A time : Older(log, time) => Older(log', time)
         /\ \A i \in 1 .. Len(log) :
              LastChange(log, i) =>
                i \in 1 .. Len(log') /\ LastChange(log', i) /\ log'[i] = log[i]
<1>1. CASE log' = log
  BY <1>1
<1>2. CASE log' # log
  <2>1. PICK e \in EventEntry : /\ log' = Append(log, e) /\ e.type # "map_change"
                                /\ e.time = stamps + 1
    BY <1>2
  <2>2. /\ Len(log') = Len(log) + 1 /\ log'[Len(log) + 1] = e /\ Len(log) \in Nat
        /\ \A i \in 1 .. Len(log) : log'[i] = log[i]
        /\ stamps \in Nat
    BY <2>1 DEF LogInv
  <2>3. \A i \in 1 .. Len(log') : i = Len(log) + 1 \/ i \in 1 .. Len(log)
    BY <2>2
  <2>4. \A time \in Nat : time <= stamps /\ Free(log, time) => Free(log', time)
    BY <2>1, <2>2, <2>3 DEF Free
  <2>5. \A time : Older(log, time) => Older(log', time)
    BY <2>1, <2>2, <2>3 DEF Older
  <2>6. ASSUME NEW i \in 1 .. Len(log), LastChange(log, i)
        PROVE  i \in 1 .. Len(log') /\ LastChange(log', i) /\ log'[i] = log[i]
    <3>1. i \in 1 .. Len(log') /\ log'[i] = log[i]
      BY <2>2
    <3>2. ASSUME NEW j \in i + 1 .. Len(log') PROVE log'[j].type # "map_change"
      <4>1. j = Len(log) + 1 \/ (j \in 1 .. Len(log) /\ j \in i + 1 .. Len(log))
        BY <2>2
      <4> QED
        BY <2>1, <2>2, <2>6, <4>1 DEF LastChange
    <3> QED
      BY <2>6, <3>1, <3>2 DEF LastChange
  <2> QED
    BY <2>4, <2>5, <2>6
<1> QED
  BY <1>1, <1>2

(* A map_change is kept, wherever it goes; it is the last one if it is     *)
(* newer than the others, and the status is no other unless it stops.      *)
LEMMA AddChange ==
  ASSUME LogInv, NEW time \in Nat \ {0}, NEW name \in Name, Free(log, time),
         AddEvent(time, "map_change", "other", name),
         stamps' \in Nat, stamps <= stamps', time <= stamps'
  PROVE  /\ LogInv' /\ state' \in StateType
         /\ \A t : Free(log, t) /\ t # time => Free(log', t)
         /\ Older(log, time) =>
              \E i \in 1 .. Len(log') : LastChange(log', i) /\ log'[i].name = name
<1>1. stamps \in Nat /\ log \in Seq(EventEntry) /\ Chain(log) /\ Fixed(log)
  BY DEF LogInv
<1>2. PICK e \in EventEntry :
        /\ e.time = time /\ e.type = "map_change" /\ e.name = name /\ Plain(e)
        /\ log' = Eval(Inserted(log, e)).kept
        /\ state' = Verdict(Eval(Inserted(log, e)).fsm)
  <2>1. /\ "map_change" \in {"map_change", "prepare", "start"} /\ name \in Name \cup {NoName}
        /\ "other" \in EventSource
    BY DEF EventSource
  <2> QED
    BY <2>1, AddEventFacts
<1>3. Fixed(Inserted(log, e))
  BY <1>1, <1>2, ChangeIsKept
<1>4. log' = Inserted(log, e) /\ state' = Verdict(Eval(log').fsm)
  BY <1>2, <1>3 DEF Fixed
<1>5. /\ log' \in Seq(EventEntry) /\ Chain(log')
      /\ \E n \in 0 .. Len(log) :
           /\ Len(log') = Len(log) + 1 /\ log'[n + 1] = e
           /\ \A i \in 1 .. n : log'[i] = log[i] /\ log[i].time < e.time
           /\ \A i \in n + 1 .. Len(log) : log'[i + 1] = log[i] /\ e.time < log[i].time
  <2> DEFINE r == Inserted(log, e)
  <2>1. /\ r \in Seq(EventEntry) /\ Chain(r)
        /\ \E n \in 0 .. Len(log) :
             /\ Len(r) = Len(log) + 1 /\ r[n + 1] = e
             /\ \A i \in 1 .. n : r[i] = log[i] /\ log[i].time < e.time
             /\ \A i \in n + 1 .. Len(log) : r[i + 1] = log[i] /\ e.time < log[i].time
    BY <1>1, <1>2, InsertedFacts
  <2> HIDE DEF r
  <2>2. log' = r
    BY <1>4 DEF r
  <2> QED
    BY <2>1, <2>2
<1>6. PICK n \in 0 .. Len(log) :
        /\ Len(log') = Len(log) + 1 /\ log'[n + 1] = e
        /\ \A i \in 1 .. n : log'[i] = log[i] /\ log[i].time < e.time
        /\ \A i \in n + 1 .. Len(log) : log'[i + 1] = log[i] /\ e.time < log[i].time
  BY <1>5
<1>7. Len(log) \in Nat /\ n \in Nat /\ n <= Len(log)
  BY <1>1
<1>8. ASSUME NEW i \in 1 .. Len(log')
      PROVE  \/ i \in 1 .. n /\ i \in 1 .. Len(log) /\ log'[i] = log[i]
             \/ i = n + 1 /\ log'[i] = e
             \/ i - 1 \in n + 1 .. Len(log) /\ i - 1 \in 1 .. Len(log) /\ log'[i] = log[i - 1]
  <2>1. i \in 1 .. n \/ i = n + 1 \/ i - 1 \in n + 1 .. Len(log)
    BY <1>6, <1>7
  <2>2. i \in 1 .. n => i \in 1 .. Len(log)
    BY <1>7
  <2>3. i - 1 \in n + 1 .. Len(log) => i - 1 \in 1 .. Len(log) /\ (i - 1) + 1 = i
    BY <1>7
  <2> QED
    BY <1>6, <2>1, <2>2, <2>3
<1>9. \A i \in 1 .. Len(log) : log[i].time <= stamps /\ log[i].time \in Int
  BY <1>1, TimesAreNumbers DEF LogInv
<1>10. ASSUME NEW i \in 1 .. Len(log') PROVE log'[i].time <= stamps'
  <2>1. log'[i] = e \/ \E j \in 1 .. Len(log) : log'[i] = log[j]
    BY <1>8
  <2>2. CASE log'[i] = e
    BY <1>2, <2>2
  <2>3. CASE \E j \in 1 .. Len(log) : log'[i] = log[j]
    <3>1. PICK j \in 1 .. Len(log) : log'[i] = log[j]
      BY <2>3
    <3>2. log[j].time <= stamps /\ log[j].time \in Int
      BY <1>9
    <3> QED
      BY <1>1, <3>1, <3>2
  <2> QED
    BY <2>1, <2>2, <2>3
<1>11. LogInv' /\ state' \in StateType
  <2>1. state' \in StateType /\ state'.status = Eval(log').fsm.status
    BY <1>4, <1>5, VerdictType
  <2> QED
    BY <1>3, <1>4, <1>5, <1>10, <2>1 DEF LogInv
<1>12. ASSUME NEW t, Free(log, t), t # time PROVE Free(log', t)
  BY <1>2, <1>8, <1>12 DEF Free
<1>13. ASSUME Older(log, time)
       PROVE  \E i \in 1 .. Len(log') : LastChange(log', i) /\ log'[i].name = name
  <2>1. n + 1 \in 1 .. Len(log') /\ log'[n + 1].name = name /\ log'[n + 1].type = "map_change"
    BY <1>2, <1>6, <1>7
  <2>2. ASSUME NEW j \in (n + 1) + 1 .. Len(log') PROVE log'[j].type # "map_change"
    <3>1. /\ j - 1 \in n + 1 .. Len(log) /\ j - 1 \in 1 .. Len(log) /\ (j - 1) + 1 = j
      BY <1>6, <1>7
    <3>2. log'[j] = log[j - 1] /\ time < log[j - 1].time
      BY <1>2, <1>6, <3>1
    <3> QED
      BY <1>9, <1>13, <3>1, <3>2 DEF Older
  <2> QED
    BY <2>1, <2>2 DEF LastChange
<1> QED
  BY <1>11, <1>12, <1>13

-----------------------------------------------------------------------------
(* The calls of watch.                                                     *)

LEMMA CallTypes ==
  ASSUME NEW c \in Call
  PROVE  /\ c.stage \in {"track", "signal", "name", "request", "code"}
         /\ c.asked \in Map \cup {Nowhere} /\ c.since \in Nat /\ c.stamp \in Nat
BY DEF Call

(* The innermost call moves on.                                            *)
LEMMA GoodTop ==
  ASSUME NEW s, NEW n \in Nat, NEW c, GoodCalls(c, s, n), c # <<>>, NEW top \in Call,
         top.stamp <= n, Asking(top) => top.asked \in Map,
         Asking(top) /\ top.stamp # 0 => Free(s, top.stamp),
         \A i \in 1 .. Len(c) :
           i < Len(c) /\ Asking(top) /\ top.stamp # 0 => top.stamp # c[i].stamp,
         NEW d, d = [c EXCEPT ![Len(c)] = top]
  PROVE  GoodCalls(d, s, n)
<1> DEFINE m == Len(c)
<1>1. c \in Seq(Call) /\ m \in Nat \ {0}
  BY DEF GoodCalls
<1>2. /\ d \in Seq(Call) /\ Len(d) = m /\ d[m] = top
      /\ \A i \in 1 .. m : i # m => d[i] = c[i]
  BY <1>1
<1>3. \A i \in 1 .. m : i # m => i < m
  BY <1>1
<1>4. m \in 1 .. m
  BY <1>1
<1>5. \A i \in 1 .. m : i # m => Asking(c[i])
  BY <1>3 DEF GoodCalls
<1>6. \A i \in 1 .. m : i < m => Asking(d[i])
  BY <1>1, <1>2, <1>5
<1>7. ASSUME NEW i \in 1 .. m
      PROVE  /\ d[i].stamp <= n
             /\ Asking(d[i]) => d[i].asked \in Map
             /\ Asking(d[i]) /\ d[i].stamp # 0 => Free(s, d[i].stamp)
  <2>1. CASE i = m
    BY <1>2, <2>1
  <2>2. CASE i # m
    BY <1>2, <2>2 DEF GoodCalls
  <2> QED
    BY <2>1, <2>2
<1>8. ASSUME NEW i \in 1 .. m, NEW j \in 1 .. m, i # j, Asking(d[i]), Asking(d[j]),
             d[i].stamp # 0
      PROVE  d[i].stamp # d[j].stamp
  <2>1. CASE i = m
    <3>1. j < m /\ d[j] = c[j]
      BY <1>2, <1>3, <1>8, <2>1
    <3> QED
      BY <1>2, <1>8, <2>1, <3>1
  <2>2. CASE j = m
    <3>1. i < m /\ d[i] = c[i]
      BY <1>2, <1>3, <1>8, <2>2
    <3>2. top.stamp # 0 => top.stamp # c[i].stamp
      BY <1>2, <1>8, <2>2, <3>1
    <3> QED
      BY <1>2, <1>8, <2>2, <3>1, <3>2
  <2>3. CASE i # m /\ j # m
    BY <1>2, <1>8, <2>3 DEF GoodCalls
  <2> QED
    BY <2>1, <2>2, <2>3
<1>9. GoodCalls(d, s, n)
  BY <1>2, <1>6, <1>7, <1>8 DEF GoodCalls
<1> QED
  BY <1>9

(* A call comes in while the others ask.                                   *)
LEMMA GoodPush ==
  ASSUME NEW s, NEW n \in Nat, NEW c, GoodCalls(c, s, n), \A i \in 1 .. Len(c) : Asking(c[i]),
         NEW top \in Call, top.stamp = 0, ~ Asking(top), NEW d, d = Append(c, top)
  PROVE  GoodCalls(d, s, n) /\ d # <<>> /\ Len(d) = Len(c) + 1 /\ d[Len(d)] = top
<1> DEFINE m == Len(c)
<1>1. c \in Seq(Call) /\ m \in Nat
  BY DEF GoodCalls
<1>2. /\ d \in Seq(Call) /\ Len(d) = m + 1 /\ d[m + 1] = top
      /\ \A i \in 1 .. m : d[i] = c[i]
  BY <1>1
<1>3. \A i \in 1 .. m + 1 : i = m + 1 \/ i \in 1 .. m
  BY <1>1
<1>4. \A i \in 1 .. m + 1 : i < m + 1 => Asking(d[i])
  BY <1>1, <1>2, <1>3
<1>5. ASSUME NEW i \in 1 .. m + 1
      PROVE  /\ d[i].stamp <= n
             /\ Asking(d[i]) => d[i].asked \in Map
             /\ Asking(d[i]) /\ d[i].stamp # 0 => Free(s, d[i].stamp)
  <2>1. CASE i = m + 1
    BY <1>2, <2>1
  <2>2. CASE i \in 1 .. m
    BY <1>2, <2>2 DEF GoodCalls
  <2> QED
    BY <1>3, <2>1, <2>2
<1>6. ASSUME NEW i \in 1 .. m + 1, NEW j \in 1 .. m + 1, i # j, Asking(d[i]), Asking(d[j]),
             d[i].stamp # 0
      PROVE  d[i].stamp # d[j].stamp
  <2>1. i \in 1 .. m /\ j \in 1 .. m
    BY <1>2, <1>3, <1>6
  <2> QED
    BY <1>2, <1>6, <2>1 DEF GoodCalls
<1>7. GoodCalls(d, s, n)
  BY <1>2, <1>4, <1>5, <1>6 DEF GoodCalls
<1>8. d # <<>> /\ Len(d) = m + 1 /\ d[Len(d)] = top
  BY <1>1, <1>2
<1> QED
  BY <1>7, <1>8

(* The innermost call returns.                                             *)
LEMMA GoodPop ==
  ASSUME NEW s, NEW n \in Nat, NEW c, GoodCalls(c, s, n), c # <<>>,
         NEW d, d = SubSeq(c, 1, Len(c) - 1)
  PROVE  GoodCalls(d, s, n) /\ Len(d) = Len(c) - 1
<1> DEFINE m == Len(c)
<1>1. c \in Seq(Call) /\ m \in Nat \ {0}
  BY DEF GoodCalls
<1>2. /\ d \in Seq(Call) /\ Len(d) = m - 1 /\ \A i \in 1 .. m - 1 : d[i] = c[i]
  <2>1. 1 \in Int /\ m - 1 \in Int /\ \A i \in 1 .. m - 1 : c[i] \in Call
    BY <1>1
  <2>2. /\ SubSeq(c, 1, m - 1) \in Seq(Call)
        /\ Len(SubSeq(c, 1, m - 1)) = IF 1 <= m - 1 THEN (m - 1) - 1 + 1 ELSE 0
        /\ \A i \in 1 .. (m - 1) - 1 + 1 : SubSeq(c, 1, m - 1)[i] = c[1 + i - 1]
    BY <2>1, SubSeqProperties
  <2>3. (m - 1) - 1 + 1 = m - 1 /\ \A i \in 1 .. m - 1 : 1 + i - 1 = i
    BY <1>1
  <2>4. d = SubSeq(c, 1, m - 1)
    OBVIOUS
  <2> HIDE DEF m
  <2>5. (IF 1 <= m - 1 THEN (m - 1) - 1 + 1 ELSE 0) = m - 1
    BY <1>1
  <2> QED
    BY <2>2, <2>3, <2>4, <2>5
<1>3. \A i \in 1 .. m - 1 : i \in 1 .. m /\ i < m
  BY <1>1
<1>4. \A i \in 1 .. m - 1 : d[i] = c[i] /\ Asking(d[i])
  BY <1>2, <1>3 DEF GoodCalls
<1>5. \A i \in 1 .. m - 1 : /\ d[i].stamp <= n
                            /\ Asking(d[i]) => d[i].asked \in Map
                            /\ Asking(d[i]) /\ d[i].stamp # 0 => Free(s, d[i].stamp)
  BY <1>2, <1>3 DEF GoodCalls
<1>6. \A i, j \in 1 .. m - 1 :
        i # j /\ Asking(d[i]) /\ Asking(d[j]) /\ d[i].stamp # 0 => d[i].stamp # d[j].stamp
  BY <1>2, <1>3 DEF GoodCalls
<1>7. GoodCalls(d, s, n)
  BY <1>2, <1>4, <1>5, <1>6 DEF GoodCalls
<1> QED
  BY <1>2, <1>7

(* The clock goes on, and other times get into the log.                    *)
LEMMA GoodLater ==
  ASSUME NEW s, NEW r, NEW n \in Nat, NEW k \in Nat, n <= k, NEW c, GoodCalls(c, s, n),
         \A i \in 1 .. Len(c) : Asking(c[i]) /\ Free(s, c[i].stamp) => Free(r, c[i].stamp)
  PROVE  GoodCalls(c, r, k)
<1>1. c \in Seq(Call) /\ \A i \in 1 .. Len(c) : c[i] \in Call
  BY DEF GoodCalls
<1>2. \A i \in 1 .. Len(c) : c[i].stamp \in Nat /\ c[i].stamp <= n
  BY <1>1, CallTypes DEF GoodCalls
<1>3. \A i \in 1 .. Len(c) : c[i].stamp <= k
  BY <1>2
<1> QED
  BY <1>3 DEF GoodCalls

LEMMA Innermost ==
  ASSUME CallsInv, stamps \in Nat, ~ Idle
  PROVE  /\ calls \in Seq(Call) /\ calls # <<>> /\ Len(calls) \in Nat \ {0} /\ Top \in Call
         /\ Top.stage \in {"track", "signal", "name", "request", "code"}
         /\ Top.asked \in Map \cup {Nowhere} /\ Top.since \in Nat /\ Top.stamp \in Nat
         /\ Top.stamp <= stamps
         /\ Asking(Top) => Top.asked \in Map /\ (Top.stamp # 0 => Free(log, Top.stamp))
         /\ Top.stage # "track" => map_id \in Map
<1>1. calls \in Seq(Call) /\ calls # <<>> /\ (Top.stage # "track" => map_id \in Map)
  BY DEF CallsInv, GoodCalls, Idle
<1>2. Len(calls) \in Nat \ {0} /\ Len(calls) \in 1 .. Len(calls) /\ calls[Len(calls)] \in Call
  BY <1>1
<1>3. /\ calls[Len(calls)].stamp <= stamps
      /\ Asking(calls[Len(calls)]) =>
           /\ calls[Len(calls)].asked \in Map
           /\ calls[Len(calls)].stamp # 0 => Free(log, calls[Len(calls)].stamp)
  BY <1>2 DEF CallsInv, GoodCalls
<1> QED
  BY <1>1, <1>2, <1>3, CallTypes DEF Top

-----------------------------------------------------------------------------
(* The invariant holds at first and after every step.                      *)

LEMMA ArrivalMoves ==
  ASSUME NEW a \in ArrivalType, NEW b \in BOOLEAN, NEW r, r = [a EXCEPT !.moved = b]
  PROVE  /\ r \in ArrivalType /\ r.moved = b
         /\ r.prepare = a.prepare /\ r.late = a.late /\ r.nested = a.nested
BY Zenon DEF ArrivalType

LEMMA ArrivalPrepares ==
  ASSUME NEW a \in ArrivalType, NEW b \in BOOLEAN, NEW r, r = [a EXCEPT !.prepare = b]
  PROVE  /\ r \in ArrivalType /\ r.prepare = b
         /\ r.late = a.late /\ r.nested = a.nested /\ r.moved = a.moved
BY Zenon DEF ArrivalType

LEMMA ArrivalIsLate ==
  ASSUME NEW a \in ArrivalType, NEW b \in BOOLEAN, NEW r, r = [a EXCEPT !.late = b]
  PROVE  /\ r \in ArrivalType /\ r.late = b
         /\ r.prepare = a.prepare /\ r.nested = a.nested /\ r.moved = a.moved
BY Zenon DEF ArrivalType

LEMMA InitMapIInv == MapInit => MapIInv
<1> SUFFICES ASSUME MapInit PROVE MapIInv
  OBVIOUS
<1> USE DEF MapInit
<1>1. <<>> \in Seq(EventEntry) /\ <<>> \in Seq(Call) /\ Len(<<>>) = 0
  OBVIOUS
<1>2. MapTypeOK
  <2>1. state \in [status : TimerStatus, start_time : Instant, was_prepared : BOOLEAN]
    <3>1. 0 \in Instant /\ "stopped" \in TimerStatus
      BY TimeMaxAssumption DEF Instant, TimerStatus
    <3> QED
      BY <3>1
  <2>2. now \in 0 .. MaxNow
    BY TimesAssumption
  <2>3. frame \in Frame
    BY Zenon DEF FrameOver, Frame
  <2>4. link \in [map : Map, server : Server, avatar : Position]
    BY EntryAssumption
  <2> QED
    BY <1>1, <2>1, <2>2, <2>3, <2>4 DEF MapTypeOK
<1>3. MoreTypes
  BY Zenon DEF MoreTypes, ArrivalType
<1>4. LogInv
  <2>1. Eval(<<>>).fsm = FsmInit /\ Eval(<<>>).kept = <<>>
    BY EvalEmpty DEF Base
  <2> QED
    BY <1>1, <2>1, FsmInitSound DEF LogInv, Chain, Fixed
<1>5. CallsInv
  <2>1. calls = <<>> /\ \A i \in 1 .. Len(calls) : FALSE
    BY <1>1
  <2>2. GoodCalls(calls, log, stamps)
    BY <1>1, <2>1 DEF GoodCalls
  <2> QED
    BY <2>1, <2>2 DEF CallsInv, Idle
<1>6. NamesInv /\ PrepareInv
  BY <1>1 DEF NamesInv, PrepareInv, Idle
<1>7. PlaceInv
  BY DEF PlaceInv, FrameOver
<1>8. CodeInv
  <2>1. link.map \in Map
    BY EntryAssumption
  <2> QED
    BY <2>1, MapAssumption DEF CodeInv
<1> QED
  BY <1>2, <1>3, <1>4, <1>5, <1>6, <1>7, <1>8 DEF MapIInv

LEMMA TravelIInv == ASSUME MapIInv, Travel PROVE MapIInv'
<1> USE DEF MapIInv
<1>1. PICK m \in Map, a \in Server :
        /\ link' = [link EXCEPT !.map = m, !.server = a]
        /\ arrival' = [arrival EXCEPT !.moved = @ \/ m = map_id]
  BY DEF Travel
<1>2. /\ travels' = travels + 1
      /\ UNCHANGED <<walks, prepares, timeVars, trackerVars, timerVars, logVars, still>>
  BY DEF Travel
<1>3. /\ arrival' \in ArrivalType /\ arrival'.prepare = arrival.prepare
      /\ arrival'.late = arrival.late /\ arrival'.nested = arrival.nested
      /\ arrival'.moved = (arrival.moved \/ m = map_id)
  <2>1. (arrival.moved \/ m = map_id) \in BOOLEAN
    OBVIOUS
  <2> DEFINE b == arrival.moved \/ m = map_id
  <2>2. arrival' = [arrival EXCEPT !.moved = b] /\ b \in BOOLEAN
    BY <1>1, <2>1
  <2> HIDE DEF b
  <2>3. /\ arrival' \in ArrivalType /\ arrival'.prepare = arrival.prepare
        /\ arrival'.late = arrival.late /\ arrival'.nested = arrival.nested
        /\ arrival'.moved = b
    BY <2>2, ArrivalMoves DEF MoreTypes
  <2> QED
    BY <2>3 DEF b
<1>4. /\ link' \in [map : Map, server : Server, avatar : Position] /\ link'.map = m
      /\ link'.avatar = link.avatar
  BY <1>1 DEF MapTypeOK
<1>5. MapTypeOK' /\ MoreTypes'
  BY <1>2, <1>3, <1>4 DEF MapTypeOK, MoreTypes, timeVars, trackerVars, timerVars, logVars
<1>6. LogInv' /\ CallsInv'
  BY <1>2 DEF LogInv, CallsInv, Idle, Top, timeVars, trackerVars, logVars
<1>7. NamesInv' /\ PrepareInv'
  BY <1>2, <1>3 DEF NamesInv, PrepareInv, Unsettled, Idle, Top, timeVars, trackerVars, timerVars, logVars
<1>8. PlaceInv' /\ CodeInv'
  BY <1>2, <1>3, <1>4 DEF PlaceInv, Undisturbed, CopyInv, StoredInv, CodeInv, trackerVars, timerVars
<1> QED
  BY <1>5, <1>6, <1>7, <1>8

(* What a copy is, and what becomes of it as the avatar moves.             *)
LEMMA PrepareTypes ==
  ASSUME NEW d \in Prepare
  PROVE  /\ d.source \in {"other", "manual"} /\ d.due \in Nat /\ d.moved \in BOOLEAN
         /\ d.read \in Coordinate \cup {Unread} /\ d.stored \in SUBSET Axis
BY Zenon DEF Prepare

LEMMA DisturbedPrepare ==
  ASSUME NEW d \in Prepare, NEW e, e = [d EXCEPT !.moved = @ \/ UnderWay(d)]
  PROVE  /\ e \in Prepare /\ e.due = d.due /\ e.read = d.read /\ e.stored = d.stored
         /\ (e.moved <=> d.moved \/ UnderWay(d))
<1> DEFINE b == d.moved \/ UnderWay(d)
<1>1. b \in BOOLEAN /\ e = [d EXCEPT !.moved = b]
  BY PrepareTypes DEF UnderWay
<1> HIDE DEF b
<1>2. /\ e \in Prepare /\ e.due = d.due /\ e.read = d.read /\ e.stored = d.stored
      /\ e.moved = b
  BY <1>1, Zenon DEF Prepare
<1> QED
  BY <1>2 DEF b

LEMMA DisturbedCopies ==
  ASSUME NEW ds \in SUBSET Prepare, \A d \in ds : d.moved => d.stored # Axis,
         NEW es, es = Disturbed(ds)
  PROVE  /\ es \subseteq Prepare
         /\ \A d \in ds : \E e \in es : e.due = d.due
         /\ \A e \in es : e.moved => e.stored # Axis
         /\ \A e \in es : ~ e.moved => e.stored = Axis \/ (e.read = Unread /\ e.stored = {})
<1>1. ASSUME NEW d \in ds
      PROVE  \E e \in es :
               /\ e = [d EXCEPT !.moved = @ \/ UnderWay(d)]
               /\ e \in Prepare /\ e.due = d.due /\ e.read = d.read /\ e.stored = d.stored
               /\ (e.moved <=> d.moved \/ UnderWay(d))
  <2> DEFINE e == [d EXCEPT !.moved = @ \/ UnderWay(d)]
  <2>1. e \in es
    BY DEF Disturbed
  <2>2. d \in Prepare
    OBVIOUS
  <2>3. /\ e \in Prepare /\ e.due = d.due /\ e.read = d.read /\ e.stored = d.stored
        /\ (e.moved <=> d.moved \/ UnderWay(d))
    BY <2>2, DisturbedPrepare
  <2> QED
    BY <2>1, <2>3
<1>2. ASSUME NEW e \in es
      PROVE  \E d \in ds :
               /\ e \in Prepare /\ e.due = d.due /\ e.read = d.read /\ e.stored = d.stored
               /\ (e.moved <=> d.moved \/ UnderWay(d))
  <2>1. PICK d \in ds : e = [d EXCEPT !.moved = @ \/ UnderWay(d)]
    BY DEF Disturbed
  <2>2. d \in Prepare
    OBVIOUS
  <2> QED
    BY <2>1, <2>2, DisturbedPrepare
<1>3. ASSUME NEW e \in es
      PROVE  /\ e.moved => e.stored # Axis
             /\ ~ e.moved => e.stored = Axis \/ (e.read = Unread /\ e.stored = {})
  BY <1>2, <1>3 DEF UnderWay
<1> QED
  BY <1>1, <1>2, <1>3

(* Nothing that is under way is undisturbed then.                          *)
LEMMA NothingIsUnderWay ==
  ASSUME NEW d, d.moved => d.stored # Axis,
         ~ d.moved => d.stored = Axis \/ (d.read = Unread /\ d.stored = {})
  PROVE  CopyInv(d)' /\ (~ d.moved => StoredInv(d)')
<1>1. \A a : ~ First(a, Axis \ Axis)
  BY DEF First
<1> QED
  BY <1>1 DEF CopyInv, StoredInv

LEMMA FrameMovesOn ==
  ASSUME NEW f \in Frame
  PROVE  /\ [f EXCEPT !.still = FALSE] \in Frame /\ ~ [f EXCEPT !.still = FALSE].still
         /\ [f EXCEPT !.still = FALSE].stage = f.stage
         /\ \A x \in {"over", "look", "compare", "start", "button"} :
              /\ [f EXCEPT !.stage = x] \in Frame /\ [f EXCEPT !.stage = x].still = f.still
              /\ [f EXCEPT !.stage = x].stage = x
         /\ \A axes \in SUBSET Axis :
              /\ [f EXCEPT !.axes = axes] \in Frame /\ [f EXCEPT !.axes = axes].still = f.still
              /\ [f EXCEPT !.axes = axes].stage = f.stage
         /\ FrameOver \in Frame /\ ~ FrameOver.still /\ FrameOver.stage = "over"
         /\ f.axes \in SUBSET Axis /\ f.still \in BOOLEAN
<1>1. /\ [f EXCEPT !.still = FALSE] \in Frame /\ ~ [f EXCEPT !.still = FALSE].still
      /\ [f EXCEPT !.still = FALSE].stage = f.stage
  BY Zenon DEF Frame
<1>2. ASSUME NEW x \in {"over", "look", "compare", "start", "button"}
      PROVE  /\ [f EXCEPT !.stage = x] \in Frame /\ [f EXCEPT !.stage = x].still = f.still
             /\ [f EXCEPT !.stage = x].stage = x
  BY Zenon DEF Frame
<1>3. ASSUME NEW axes \in SUBSET Axis
      PROVE  /\ [f EXCEPT !.axes = axes] \in Frame /\ [f EXCEPT !.axes = axes].still = f.still
             /\ [f EXCEPT !.axes = axes].stage = f.stage
  BY Zenon DEF Frame
<1>4. FrameOver \in Frame /\ ~ FrameOver.still /\ FrameOver.stage = "over"
  BY Zenon DEF FrameOver, Frame
<1>5. f.axes \in SUBSET Axis /\ f.still \in BOOLEAN
  BY Zenon DEF Frame
<1> QED
  BY <1>1, <1>2, <1>3, <1>4, <1>5

LEMMA WalkIInv == ASSUME MapIInv, Walk PROVE MapIInv'
<1> USE DEF MapIInv
<1>1. PICK q \in Position : link' = [link EXCEPT !.avatar = q]
  BY DEF Walk
<1>2. /\ still' = FALSE /\ frame' = [frame EXCEPT !.still = FALSE]
      /\ deferred' = Disturbed(deferred)
      /\ UNCHANGED <<travels, prepares, timeVars, trackerVars, last_position, logVars, arrival>>
  BY DEF Walk
<1>3. /\ link' \in [map : Map, server : Server, avatar : Position]
      /\ link'.map = link.map /\ link'.server = link.server
  BY <1>1 DEF MapTypeOK
<1>4. /\ deferred' \subseteq Prepare
      /\ \A d \in deferred : \E e \in deferred' : e.due = d.due
      /\ \A e \in deferred' : e.moved => e.stored # Axis
      /\ \A e \in deferred' : ~ e.moved => e.stored = Axis \/ (e.read = Unread /\ e.stored = {})
  <2> DEFINE es == deferred'
  <2>1. /\ deferred \in SUBSET Prepare /\ \A d \in deferred : d.moved => d.stored # Axis
        /\ es = Disturbed(deferred)
    BY <1>2 DEF MapTypeOK, PlaceInv, CopyInv
  <2> HIDE DEF es
  <2>2. /\ es \subseteq Prepare
        /\ \A d \in deferred : \E e \in es : e.due = d.due
        /\ \A e \in es : e.moved => e.stored # Axis
        /\ \A e \in es : ~ e.moved => e.stored = Axis \/ (e.read = Unread /\ e.stored = {})
    BY <2>1, DisturbedCopies
  <2> QED
    BY <2>2 DEF es
<1>5. frame' \in Frame /\ ~ frame'.still
  BY <1>2, FrameMovesOn DEF MapTypeOK
<1>6. MapTypeOK' /\ MoreTypes'
  BY <1>2, <1>3, <1>4, <1>5 DEF MapTypeOK, MoreTypes, timeVars, trackerVars, logVars
<1>7. LogInv' /\ CallsInv' /\ NamesInv'
  BY <1>2 DEF LogInv, CallsInv, NamesInv, Unsettled, Idle, Top, timeVars, trackerVars, logVars
<1>8. PrepareInv'
  <2>1. UNCHANGED <<now, calls, state, arrival>> /\ Top' = Top /\ (Idle <=> Idle')
    BY <1>2 DEF timeVars, trackerVars, logVars, Top, Idle
  <2>2. /\ (\E d \in deferred : d.due = Top.since + Delay)
             => \E e \in deferred' : e.due = Top.since + Delay
        /\ deferred # {} => deferred' # {}
    BY <1>4
  <2> QED
    BY <2>1, <2>2 DEF PrepareInv
<1>9. PlaceInv'
  <2>1. \A d \in deferred' : CopyInv(d)' /\ (~ d.moved => StoredInv(d)')
    BY <1>4, NothingIsUnderWay
  <2> QED
    BY <1>2, <1>5, <2>1 DEF PlaceInv, Undisturbed
<1>10. CodeInv'
  BY <1>2, <1>3 DEF CodeInv, Idle, trackerVars
<1> QED
  BY <1>6, <1>7, <1>8, <1>9, <1>10

LEMMA TickIInv == ASSUME MapIInv, Tick PROVE MapIInv'
<1> USE DEF MapIInv
<1>1. /\ now' = now + 1 /\ now < MaxNow /\ (Idle \/ Top.stage = "request")
      /\ UNCHANGED <<stamps, playerVars, trackerVars, timerVars, logVars, arrival, still>>
  BY DEF Tick, Waiting
<1>2. now \in Nat /\ now' \in Nat /\ now' \in 0 .. MaxNow
  BY <1>1, TimesAssumption DEF MapTypeOK
<1>3. MapTypeOK' /\ MoreTypes'
  BY <1>1, <1>2 DEF MapTypeOK, MoreTypes, playerVars, trackerVars, timerVars, logVars
<1>4. LogInv' /\ CallsInv'
  BY <1>1 DEF LogInv, CallsInv, Idle, Top, trackerVars, logVars
<1>5. NamesInv'
  BY <1>1 DEF NamesInv, Unsettled, Idle, Top, trackerVars, logVars
<1>6. PrepareInv'
  <2>2. ~ Idle => Top.since + Delay \in Nat
    <3>1. ~ Idle => Top.since \in Nat
      BY Innermost DEF LogInv
    <3> QED
      BY <3>1, TimesAssumption
  <2>3. /\ UNCHANGED <<calls, deferred, state, arrival>> /\ UNCHANGED Top
        /\ (Idle <=> Idle')
    BY <1>1 DEF trackerVars, timerVars, logVars, Top, Idle
  <2>5. ~ Idle => Top.stage = "request"
    BY <1>1
  <2>6. ~ Idle /\ Top.since + Delay <= now => Top.since + Delay <= now'
    BY <1>1, <1>2, <2>2
  <2> QED
    BY <2>3, <2>5, <2>6 DEF PrepareInv
<1>7. PlaceInv' /\ CodeInv'
  BY <1>1 DEF PlaceInv, Undisturbed, CopyInv, StoredInv, CodeInv, Idle, playerVars, trackerVars, timerVars
<1> QED
  BY <1>3, <1>4, <1>5, <1>6, <1>7

LEMMA NewCallFacts ==
  /\ NewCall \in Call /\ NewCall.stage = "track" /\ NewCall.stamp = 0 /\ ~ Asking(NewCall)
BY DEF NewCall, Call, Asking

LEMMA NewArrival ==
  ASSUME NEW b \in BOOLEAN, NEW a,
         a = [prepare |-> FALSE, late |-> FALSE, nested |-> b, moved |-> FALSE]
  PROVE  a \in ArrivalType /\ a.nested = b /\ ~ a.prepare
<1>1. a \in ArrivalType
  BY Zenon DEF ArrivalType
<1> QED
  BY <1>1

LEMMA WatchIInv == ASSUME MapIInv, Watch PROVE MapIInv'
<1> USE DEF MapIInv
<1>1. /\ Idle /\ calls' = <<NewCall>> /\ frame' = [frame EXCEPT !.stage = "look"]
      /\ UNCHANGED <<playerVars, timeVars, map_id, map_code, last_position, deferred, logVars,
                     arrival, still>>
  BY DEF Watch
<1>2. now \in Nat /\ stamps \in Nat
  BY TimesAssumption DEF MapTypeOK
<1>3. NewCall \in Call /\ NewCall.stage = "track" /\ NewCall.stamp = 0 /\ ~ Asking(NewCall)
  BY NewCallFacts
<1>4. GoodCalls(calls', log, stamps) /\ calls' # <<>> /\ calls'[Len(calls')] = NewCall
  <2>1. /\ GoodCalls(calls, log, stamps) /\ Len(calls) = 0 /\ <<NewCall>> = Append(calls, NewCall)
        /\ \A i \in 1 .. Len(calls) : Asking(calls[i])
    BY <1>1 DEF CallsInv, Idle
  <2> DEFINE d == calls'
  <2>2. d = Append(calls, NewCall)
    BY <1>1, <2>1
  <2> HIDE DEF d
  <2>3. GoodCalls(d, log, stamps)
    BY <1>2, <1>3, <2>1, <2>2, GoodPush
  <2>4. d # <<>> /\ d[Len(d)] = NewCall
    BY <1>2, <1>3, <2>1, <2>2, GoodPush
  <2> QED
    BY <2>3, <2>4 DEF d
<1>5. ~ Idle' /\ Top' = NewCall
  BY <1>4 DEF Idle, Top
<1>6. frame' \in Frame /\ frame'.stage = "look" /\ frame'.still = frame.still
  BY <1>1, FrameMovesOn DEF MapTypeOK
<1>7. MapTypeOK' /\ MoreTypes'
  <2>1. calls' \in Seq(Call)
    BY <1>4 DEF GoodCalls
  <2> QED
    BY <1>1, <1>6, <2>1 DEF MapTypeOK, MoreTypes, playerVars, timeVars, logVars
<1>8. LogInv' /\ CallsInv'
  BY <1>1, <1>3, <1>4, <1>5 DEF LogInv, CallsInv, timeVars, logVars
<1>9. NamesInv' /\ PrepareInv'
  BY <1>3, <1>5 DEF NamesInv, PrepareInv, Unsettled
<1>10. PlaceInv' /\ CodeInv'
  BY <1>1, <1>5, <1>6 DEF PlaceInv, Undisturbed, CopyInv, StoredInv, CodeInv, playerVars
<1> QED
  BY <1>7, <1>8, <1>9, <1>10

(* The innermost call moves on, and the log and the clock stay.            *)
LEMMA CallMoves ==
  ASSUME CallsInv, LogInv, ~ Idle, NEW top \in Call, calls' = WithTop(top),
         top.stamp = Top.stamp, ~ Asking(top)
  PROVE  /\ GoodCalls(calls', log, stamps) /\ Len(calls') = Len(calls) /\ ~ Idle' /\ Top' = top
<1> DEFINE d == calls'
<1>1. d = [calls EXCEPT ![Len(calls)] = top]
  BY DEF WithTop
<1>2. GoodCalls(calls, log, stamps) /\ calls # <<>> /\ stamps \in Nat /\ top.stamp <= stamps
  BY Innermost DEF CallsInv, Idle, LogInv
<1> HIDE DEF d
<1>3. GoodCalls(d, log, stamps)
  BY <1>1, <1>2, GoodTop
<1>4. Len(d) = Len(calls) /\ d # <<>> /\ d[Len(d)] = top
  <2>1. calls \in Seq(Call) /\ Len(calls) \in Nat \ {0}
    BY Innermost DEF LogInv
  <2> QED
    BY <1>1, <2>1
<1> QED
  BY <1>3, <1>4 DEF d, Idle, Top

LEMMA TrackMapIInv == ASSUME MapIInv, TrackMap PROVE MapIInv'
<1> USE DEF MapIInv
<1> DEFINE top == [Top EXCEPT !.stage = "signal", !.since = now]
<1>1. /\ ~ Idle /\ Top.stage = "track" /\ map_id' = link.map /\ calls' = WithTop(top)
      /\ arrival' = [prepare |-> FALSE, late |-> FALSE, nested |-> Len(calls) > 1,
                     moved |-> FALSE]
      /\ UNCHANGED <<playerVars, timeVars, map_code, timerVars, logVars, still>>
  BY DEF TrackMap
<1>2. /\ Top \in Call /\ now \in Nat /\ link.map \in Map
      /\ calls \in Seq(Call) /\ Len(calls) \in Nat \ {0}
  BY <1>1, Innermost, TimesAssumption DEF LogInv, MapTypeOK
<1>3. /\ top \in Call /\ top.stage = "signal" /\ top.since = now /\ top.stamp = Top.stamp
      /\ ~ Asking(top)
  BY <1>2 DEF Call, Asking
<1> HIDE DEF top
<1>4. GoodCalls(calls', log, stamps) /\ Len(calls') = Len(calls) /\ ~ Idle' /\ Top' = top
  BY <1>1, <1>3, CallMoves
<1>5. /\ arrival' \in ArrivalType /\ ~ arrival'.prepare
      /\ ~ arrival'.nested => Len(calls) <= 1
  <2> DEFINE b == Len(calls) > 1  a == arrival'
  <2>1. a = [prepare |-> FALSE, late |-> FALSE, nested |-> b, moved |-> FALSE] /\ b \in BOOLEAN
    BY <1>1, <1>2
  <2> HIDE DEF a, b
  <2>2. a \in ArrivalType /\ a.nested = b /\ ~ a.prepare
    BY <2>1, NewArrival
  <2>3. ~ b => Len(calls) <= 1
    BY <1>2 DEF b
  <2>4. ~ a.nested => Len(calls) <= 1
    BY <2>2, <2>3
  <2> QED
    BY <2>2, <2>4 DEF a
<1>6. MapTypeOK' /\ MoreTypes'
  <2>1. calls' \in Seq(Call)
    BY <1>4 DEF GoodCalls
  <2> QED
    BY <1>1, <1>2, <1>5, <2>1 DEF MapTypeOK, MoreTypes, playerVars, timeVars, timerVars, logVars
<1>7. LogInv' /\ CallsInv'
  BY <1>1, <1>2, <1>4 DEF LogInv, CallsInv, timeVars, logVars
<1>8. NamesInv'
  BY <1>3, <1>4, <1>5 DEF NamesInv
<1>9. PrepareInv'
  BY <1>1, <1>3, <1>4, <1>5 DEF PrepareInv, timeVars, timerVars
<1>10. PlaceInv' /\ CodeInv'
  BY <1>1, <1>4 DEF PlaceInv, Undisturbed, CopyInv, StoredInv, CodeInv, playerVars, timerVars
<1> QED
  BY <1>6, <1>7, <1>8, <1>9, <1>10

(* A prepare begins.                                                       *)
LEMMA NewPrepareFacts ==
  ASSUME NEW source \in {"other", "manual"}, NEW due \in Nat, travels \in Nat
  PROVE  /\ NewPrepare(source, due) \in Prepare /\ NewPrepare(source, due).due = due
         /\ NewPrepare(source, due).read = Unread /\ NewPrepare(source, due).stored = {}
         /\ ~ NewPrepare(source, due).moved
<1>1. NewPrepare(source, due) \in Prepare
  BY Zenon DEF NewPrepare, Prepare
<1> QED
  BY <1>1 DEF NewPrepare

LEMMA BeginsToPrepare ==
  ASSUME PlaceInv, UNCHANGED <<link, last_position, still>>, frame'.still = frame.still,
         frame'.stage = "start" => frame.stage = "start",
         NEW new, ~ new.moved, new.read = Unread, new.stored = {},
         (deferred' = deferred) \/ (deferred' = deferred \cup {new})
  PROVE  PlaceInv'
<1>1. Undisturbed' <=> Undisturbed
  BY DEF Undisturbed
<1>2. \A d \in deferred' : CopyInv(d)'
  <2>1. CopyInv(new)'
    BY DEF CopyInv
  <2>2. \A d \in deferred : CopyInv(d)'
    BY DEF PlaceInv, CopyInv
  <2> QED
    BY <2>1, <2>2
<1>3. Undisturbed' => \A d \in deferred' : StoredInv(d)'
  BY <1>1 DEF PlaceInv, StoredInv
<1> QED
  BY <1>1, <1>2, <1>3 DEF PlaceInv

LEMMA TimerMapChangeIInv == ASSUME MapIInv, TimerMapChange PROVE MapIInv'
<1> USE DEF MapIInv
<1> DEFINE top == [Top EXCEPT !.stage = "name"]
           new == NewPrepare("other", now + Delay)
<1>1. /\ ~ Idle /\ Top.stage = "signal"
      /\ deferred' = IF ShouldAutoprepare THEN deferred \cup {new} ELSE deferred
      /\ arrival' = [arrival EXCEPT !.prepare = ShouldAutoprepare]
      /\ calls' = WithTop(top)
      /\ UNCHANGED <<playerVars, timeVars, map_id, map_code, last_position, frame, logVars,
                     still>>
  BY DEF TimerMapChange
<1>2. Top \in Call /\ stamps \in Nat /\ now \in Nat
  BY <1>1, Innermost, TimesAssumption DEF LogInv, MapTypeOK
<1>3. /\ top \in Call /\ top.stage = "name" /\ top.since = Top.since /\ top.stamp = Top.stamp
      /\ ~ Asking(top)
  BY <1>2 DEF Call, Asking
<1> HIDE DEF top
<1>4. GoodCalls(calls', log, stamps) /\ Len(calls') = Len(calls) /\ ~ Idle' /\ Top' = top
  BY <1>1, <1>3, CallMoves
<1>5. ShouldAutoprepare \in BOOLEAN
  BY DEF ShouldAutoprepare
<1>6. /\ arrival' \in ArrivalType /\ arrival'.prepare = ShouldAutoprepare
      /\ arrival'.late = arrival.late /\ arrival'.nested = arrival.nested
      /\ arrival'.moved = arrival.moved
  <2> DEFINE b == ShouldAutoprepare  r == arrival'
  <2>1. r = [arrival EXCEPT !.prepare = b] /\ b \in BOOLEAN
    BY <1>1, <1>5
  <2> HIDE DEF b, r
  <2>2. /\ r \in ArrivalType /\ r.prepare = b
        /\ r.late = arrival.late /\ r.nested = arrival.nested /\ r.moved = arrival.moved
    BY <2>1, ArrivalPrepares DEF MoreTypes
  <2> QED
    BY <2>2 DEF b, r
<1>7. /\ new \in Prepare /\ new.due = now + Delay
      /\ ~ new.moved /\ new.read = Unread /\ new.stored = {}
  <2>1. travels \in Nat /\ now + Delay \in Nat
    BY <1>2, TimesAssumption DEF MoreTypes
  <2> QED
    BY <2>1, NewPrepareFacts
<1> HIDE DEF new
<1>8. MapTypeOK' /\ MoreTypes'
  <2>1. calls' \in Seq(Call)
    BY <1>4 DEF GoodCalls
  <2>2. deferred' \subseteq Prepare
    BY <1>1, <1>7 DEF MapTypeOK
  <2> QED
    BY <1>1, <1>6, <2>1, <2>2 DEF MapTypeOK, MoreTypes, playerVars, timeVars, logVars
<1>9. LogInv' /\ CallsInv'
  <2>1. map_id \in Map
    BY <1>1, <1>2, Innermost
  <2> QED
    BY <1>1, <1>4, <2>1 DEF LogInv, CallsInv, timeVars, logVars
<1>10. NamesInv'
  <2>1. ~ arrival.nested => Len(calls) <= 1
    BY <1>1 DEF NamesInv, Unsettled
  <2> QED
    BY <1>3, <1>4, <1>6, <2>1 DEF NamesInv
<1>11. PrepareInv'
  <2>1. now' = now
    BY <1>1 DEF timeVars
  <2>2. ~ arrival'.nested => Top'.since = now'
    BY <1>1, <1>3, <1>4, <1>6, <2>1 DEF PrepareInv
  <2>3. arrival'.prepare => new \in deferred'
    BY <1>1, <1>6
  <2>4. ~ arrival'.nested /\ arrival'.prepare => \E d \in deferred' : d.due = Top'.since + Delay
    BY <1>7, <2>1, <2>2, <2>3
  <2> QED
    BY <1>3, <1>4, <2>1, <2>2, <2>4 DEF PrepareInv
<1>12. PlaceInv' /\ CodeInv'
  <2>1. (deferred' = deferred) \/ (deferred' = deferred \cup {new})
    BY <1>1
  <2>2. UNCHANGED <<link, last_position, still, frame>>
    BY <1>1 DEF playerVars
  <2> QED
    BY <1>4, <1>7, <2>1, <2>2, BeginsToPrepare DEF CodeInv
<1> QED
  BY <1>8, <1>9, <1>10, <1>11, <1>12

LEMMA GetMapNameIInv == ASSUME MapIInv, GetMapName PROVE MapIInv'
<1> USE DEF MapIInv
<1>1. PICK stamp \in {Stamp, 0} :
        LET outer == WithTop([Top EXCEPT !.stage = "request", !.asked = map_id,
                                         !.stamp = stamp])
        IN  /\ stamps' = IF stamp = 0 THEN stamps ELSE stamp
            /\ calls' = IF map_id = link.map THEN outer ELSE Append(outer, NewCall)
  BY DEF GetMapName
<1> DEFINE top == [Top EXCEPT !.stage = "request", !.asked = map_id, !.stamp = stamp]
           outer == [calls EXCEPT ![Len(calls)] = top]
<1>2. /\ ~ Idle /\ Top.stage = "name"
      /\ UNCHANGED <<playerVars, now, map_id, map_code, timerVars, logVars, arrival, still>>
  BY DEF GetMapName
<1>3. /\ stamps' = IF stamp = 0 THEN stamps ELSE stamp
      /\ \/ map_id = link.map /\ calls' = outer
         \/ map_id # link.map /\ calls' = Append(outer, NewCall)
  BY <1>1 DEF WithTop
<1>4. /\ Top \in Call /\ Top.since \in Nat /\ stamps \in Nat /\ now \in Nat /\ map_id \in Map
      /\ calls # <<>> /\ GoodCalls(calls, log, stamps) /\ link.map \in Map
  BY <1>2, Innermost, TimesAssumption DEF LogInv, MapTypeOK, CallsInv
<1>5. stamp \in Nat /\ stamps' \in Nat /\ stamps <= stamps' /\ stamp <= stamps'
      /\ (stamp # 0 => stamp = stamps + 1)
  BY <1>3, <1>4 DEF Stamp
<1>6. /\ top \in Call /\ top.stage = "request" /\ top.asked = map_id /\ top.stamp = stamp
      /\ top.since = Top.since /\ Asking(top)
  BY <1>4, <1>5 DEF Call, Asking
<1> HIDE DEF top
<1>7. \A i \in 1 .. Len(log) : log[i].time \in Int /\ log[i].time <= stamps
  BY TimesAreNumbers DEF LogInv
<1>8. stamp # 0 => Free(log, stamp) /\ Older(log, stamp)
  BY <1>4, <1>5, <1>7 DEF Free, Older
<1>9. GoodCalls(calls, log, stamps')
  BY <1>4, <1>5, GoodLater
<1>10. /\ GoodCalls(outer, log, stamps') /\ Len(outer) = Len(calls) /\ outer # <<>>
       /\ outer[Len(outer)] = top /\ \A i \in 1 .. Len(outer) : Asking(outer[i])
  <2> DEFINE d == outer  n == stamps'
  <2>1. d = [calls EXCEPT ![Len(calls)] = top]
    OBVIOUS
  <2>2. ASSUME NEW i \in 1 .. Len(calls), top.stamp # 0 PROVE top.stamp # calls[i].stamp
    <3>1. calls[i].stamp <= stamps /\ calls[i] \in Call
      BY <1>4 DEF GoodCalls
    <3>2. calls[i].stamp \in Nat
      BY <3>1, CallTypes
    <3> QED
      BY <1>4, <1>5, <1>6, <2>2, <3>1, <3>2
  <2>3. /\ n \in Nat /\ GoodCalls(calls, log, n) /\ top.stamp <= n /\ top.asked \in Map
        /\ (top.stamp # 0 => Free(log, top.stamp))
    BY <1>4, <1>5, <1>6, <1>8, <1>9
  <2> HIDE DEF d, n
  <2>4. \A i \in 1 .. Len(calls) :
          i < Len(calls) /\ Asking(top) /\ top.stamp # 0 => top.stamp # calls[i].stamp
    BY <2>2
  <2>5. GoodCalls(d, log, n)
    BY <1>4, <1>6, <2>1, <2>3, <2>4, GoodTop
  <2>6. Len(d) = Len(calls) /\ d # <<>> /\ d[Len(d)] = top
    <3>1. calls \in Seq(Call) /\ Len(calls) \in Nat \ {0}
      BY <1>2, Innermost DEF LogInv
    <3> QED
      BY <1>6, <2>1, <3>1
  <2>7. \A i \in 1 .. Len(d) : Asking(d[i])
    <3>1. \A i \in 1 .. Len(d) : i < Len(d) \/ i = Len(d)
      BY <2>5 DEF GoodCalls
    <3> QED
      BY <1>6, <2>5, <2>6, <3>1 DEF GoodCalls
  <2> QED
    BY <2>5, <2>6, <2>7 DEF d, n
<1> HIDE DEF outer
<1>11. LogInv'
  <2>1. \A i \in 1 .. Len(log) : log[i].time <= stamps'
    BY <1>4, <1>5, <1>7
  <2> QED
    BY <1>2, <1>5, <2>1 DEF LogInv, logVars
<1>12. PlaceInv'
  BY <1>2 DEF PlaceInv, Undisturbed, CopyInv, StoredInv, playerVars, timerVars
<1>13. CASE map_id = link.map /\ calls' = outer
  <2>1. ~ Idle' /\ Top' = top
    BY <1>10, <1>13 DEF Idle, Top
  <2>2. MapTypeOK' /\ MoreTypes'
    <3>1. calls' \in Seq(Call)
      BY <1>10, <1>13 DEF GoodCalls
    <3> QED
      BY <1>2, <1>5, <1>13, <3>1 DEF MapTypeOK, MoreTypes, playerVars, timerVars, logVars
  <2>3. CallsInv'
    BY <1>2, <1>4, <1>10, <1>13 DEF CallsInv, logVars
  <2>4. NamesInv'
    <3>1. UNCHANGED <<log, arrival, map_id>>
      BY <1>2, <1>13 DEF logVars
    <3>2. ~ arrival.nested => Len(calls') <= 1
      BY <1>2, <1>10, <1>13 DEF NamesInv, Unsettled
    <3> QED
      BY <1>6, <1>8, <2>1, <3>1, <3>2 DEF NamesInv
  <2>5. PrepareInv'
    <3>1. UNCHANGED <<now, deferred, state, arrival>>
      BY <1>2, <1>13 DEF timerVars, logVars
    <3> QED
      BY <1>2, <1>6, <2>1, <3>1 DEF PrepareInv
  <2>6. CodeInv'
    BY <2>1 DEF CodeInv
  <2> QED
    BY <1>11, <1>12, <2>2, <2>3, <2>4, <2>5, <2>6
<1>14. CASE map_id # link.map /\ calls' = Append(outer, NewCall)
  <2>1. NewCall \in Call /\ NewCall.stage = "track" /\ NewCall.stamp = 0 /\ ~ Asking(NewCall)
    BY NewCallFacts
  <2>2. GoodCalls(calls', log, stamps') /\ ~ Idle' /\ Top' = NewCall
    <3> DEFINE d == calls'  n == stamps'
    <3>1. d = Append(outer, NewCall) /\ n \in Nat /\ GoodCalls(outer, log, n)
      BY <1>5, <1>10, <1>14
    <3> HIDE DEF d, n
    <3>2. GoodCalls(d, log, n)
      BY <1>10, <2>1, <3>1, GoodPush
    <3>3. d # <<>> /\ d[Len(d)] = NewCall
      BY <1>10, <2>1, <3>1, GoodPush
    <3> QED
      BY <3>2, <3>3 DEF d, n, Idle, Top
  <2>3. MapTypeOK' /\ MoreTypes'
    <3>1. calls' \in Seq(Call)
      BY <2>2 DEF GoodCalls
    <3> QED
      BY <1>2, <1>5, <3>1 DEF MapTypeOK, MoreTypes, playerVars, timerVars, logVars
  <2>4. CallsInv'
    BY <1>2, <2>1, <2>2 DEF CallsInv, logVars
  <2>5. NamesInv' /\ PrepareInv' /\ CodeInv'
    BY <2>1, <2>2 DEF NamesInv, PrepareInv, CodeInv, Unsettled
  <2> QED
    BY <1>11, <1>12, <2>3, <2>4, <2>5
<1> QED
  BY <1>3, <1>13, <1>14

(* The player's calls leave the render thread, the events of the present   *)
(* leave what the innermost call waits for.                                *)
LEMMA PresentLeavesCalls ==
  ASSUME CallsInv, LogInv, NamesInv, UNCHANGED <<calls, map_id, arrival>>,
         stamps' = stamps + 1,
         \/ log' = log
         \/ \E e \in EventEntry : /\ log' = Append(log, e) /\ e.type # "map_change"
                                  /\ e.time = stamps + 1
  PROVE  CallsInv' /\ NamesInv'
<1>1. /\ \A time \in Nat : time <= stamps /\ Free(log, time) => Free(log', time)
      /\ \A time : Older(log, time) => Older(log', time)
      /\ \A i \in 1 .. Len(log) :
           LastChange(log, i) =>
             i \in 1 .. Len(log') /\ LastChange(log', i) /\ log'[i] = log[i]
  BY NewestLeaves
<1>2. /\ stamps \in Nat /\ stamps' \in Nat /\ stamps <= stamps'
      /\ GoodCalls(calls, log, stamps) /\ calls \in Seq(Call)
  BY DEF LogInv, CallsInv, GoodCalls
<1>3. GoodCalls(calls, log', stamps')
  <2> DEFINE r == log'  k == stamps'
  <2>1. ASSUME NEW i \in 1 .. Len(calls), Free(log, calls[i].stamp)
        PROVE  Free(r, calls[i].stamp)
    <3>1. calls[i] \in Call /\ calls[i].stamp <= stamps
      BY <1>2 DEF GoodCalls
    <3> QED
      BY <1>1, <2>1, <3>1, CallTypes
  <2>2. k \in Nat /\ stamps <= k
    BY <1>2
  <2> HIDE DEF r, k
  <2>3. GoodCalls(calls, r, k)
    BY <1>2, <2>1, <2>2, GoodLater
  <2> QED
    BY <2>3 DEF r, k
<1>4. CallsInv'
  BY <1>3 DEF CallsInv, Idle, Top
<1>5. NamesInv'
  <2>1. Top' = Top /\ (Idle <=> Idle') /\ (Unsettled <=> Unsettled')
    BY DEF Unsettled, Top, Idle
  <2>2. (\E i \in 1 .. Len(log) : LastChange(log, i) /\ log[i].name \in {map_id, "Unknown"})
        => \E i \in 1 .. Len(log') : LastChange(log', i) /\ log'[i].name \in {map_id, "Unknown"}
    BY <1>1
  <2> QED
    BY <1>1, <2>1, <2>2 DEF NamesInv
<1> QED
  BY <1>4, <1>5

(* One copy goes on: the others and what the changes wait for stay.        *)
LEMMA CopyGoesOn ==
  ASSUME MapIInv, NEW d \in deferred, NEW after \in Prepare, after.due = d.due,
         NEW others, others \subseteq Prepare, deferred' = others \cup {after},
         \A x \in deferred \ {d} : \E y \in others : y.due = x.due,
         last_position' \in [Axis -> Coordinate \cup {Origin}],
         still' \in BOOLEAN,
         UNCHANGED <<playerVars, timeVars, trackerVars, frame, logVars, arrival>>
  PROVE  /\ MapTypeOK' /\ MoreTypes' /\ LogInv' /\ CallsInv' /\ NamesInv' /\ PrepareInv'
         /\ CodeInv'
<1> USE DEF MapIInv
<1>1. MapTypeOK' /\ MoreTypes'
  BY DEF MapTypeOK, MoreTypes, playerVars, timeVars, trackerVars, logVars
<1>2. LogInv' /\ CallsInv' /\ NamesInv'
  BY DEF LogInv, CallsInv, NamesInv, Unsettled, Idle, Top, timeVars, trackerVars, logVars
<1>3. PrepareInv'
  <2>1. UNCHANGED <<now, calls, state, arrival>> /\ Top' = Top /\ (Idle <=> Idle')
    BY DEF timeVars, trackerVars, logVars, Top, Idle
  <2>2. after \in deferred' /\ \A x \in deferred : \E y \in deferred' : y.due = x.due
    OBVIOUS
  <2>3. \A t : (\E x \in deferred : x.due = t) => \E x \in deferred' : x.due = t
    BY <2>2
  <2> QED
    BY <2>1, <2>2, <2>3 DEF PrepareInv
<1>4. CodeInv'
  BY DEF CodeInv, Idle, playerVars, trackerVars
<1> QED
  BY <1>1, <1>2, <1>3, <1>4

(* There is one first axis.                                                *)
LEMMA FirstIsOne ==
  ASSUME NEW axes \in SUBSET Axis, NEW a, NEW b, First(a, axes), First(b, axes)
  PROVE  a = b
<1>1. a \in Nat /\ b \in Nat /\ a <= b /\ b <= a
  BY PositionAssumption DEF First
<1> QED
  BY <1>1

LEMMA ReadAxisIInv ==
  ASSUME MapIInv, NEW d \in deferred, NEW a \in Axis, ReadAxis(d, a) PROVE MapIInv'
<1> USE DEF MapIInv
<1> DEFINE others == deferred \ {d}
<1>0. PICK after : after = [d EXCEPT !.read = link.avatar[a]]
  OBVIOUS
<1>1. /\ d.read = Unread /\ First(a, Axis \ d.stored)
      /\ deferred' = others \cup {after}
      /\ UNCHANGED <<playerVars, timeVars, trackerVars, last_position, frame, logVars, arrival, still>>
  BY <1>0 DEF ReadAxis
<1>2. d \in Prepare /\ deferred \subseteq Prepare /\ link.avatar[a] \in Coordinate
  BY PositionAssumption DEF MapTypeOK
<1>3. /\ after \in Prepare /\ after.due = d.due /\ after.read = link.avatar[a]
      /\ after.stored = d.stored /\ after.moved = d.moved
  <2> DEFINE v == link.avatar[a]
  <2>1. v \in Coordinate \cup {Unread} /\ after = [d EXCEPT !.read = v]
    BY <1>0, <1>2
  <2> HIDE DEF v
  <2>2. /\ after \in Prepare /\ after.due = d.due /\ after.read = v
        /\ after.stored = d.stored /\ after.moved = d.moved
    BY <1>2, <2>1, Zenon DEF Prepare
  <2> QED
    BY <2>2 DEF v
<1>4. /\ MapTypeOK' /\ MoreTypes' /\ LogInv' /\ CallsInv' /\ NamesInv' /\ PrepareInv'
      /\ CodeInv'
  <2>1. last_position' \in [Axis -> Coordinate \cup {Origin}]
    BY <1>1 DEF MapTypeOK
  <2>2. still' \in BOOLEAN
    BY <1>1 DEF MoreTypes
  <2>3. others \subseteq Prepare /\ \A x \in deferred \ {d} : \E y \in others : y.due = x.due
    BY <1>2
  <2> HIDE DEF others
  <2> QED
    BY <1>1, <1>3, <2>1, <2>2, <2>3, CopyGoesOn
<1>5. PlaceInv'
  <2>1. UNCHANGED <<link, last_position, frame, still>>
    BY <1>1 DEF playerVars
  <2>2. Undisturbed' <=> Undisturbed
    BY <1>1, <1>3 DEF Undisturbed
  <2>3. \A e \in deferred' : CopyInv(e)'
    <3>1. \A e \in deferred : CopyInv(e)'
      BY <2>1 DEF PlaceInv, CopyInv
    <3>2. CopyInv(after)'
      <4>1. \A b \in Axis : First(b, Axis \ d.stored) => b = a
        <5>1. Axis \ d.stored \in SUBSET Axis
          OBVIOUS
        <5> QED
          BY <1>1, <5>1, FirstIsOne
      <4>2. d.moved => d.stored # Axis
        BY DEF PlaceInv, CopyInv
      <4> QED
        BY <1>3, <2>1, <4>1, <4>2 DEF CopyInv
    <3> QED
      BY <1>1, <3>1, <3>2
  <2>4. Undisturbed' => \A e \in deferred' : StoredInv(e)'
    <3>1. Undisturbed => \A e \in deferred : StoredInv(e)'
      BY <2>1 DEF PlaceInv, StoredInv
    <3>2. StoredInv(d)' => StoredInv(after)'
      BY <1>3 DEF StoredInv
    <3> QED
      BY <1>1, <2>2, <3>1, <3>2
  <2> QED
    BY <2>1, <2>2, <2>3, <2>4 DEF PlaceInv
<1> QED
  BY <1>4, <1>5

LEMMA StoreAxisIInv ==
  ASSUME MapIInv, NEW d \in deferred, NEW a \in Axis, StoreAxis(d, a) PROVE MapIInv'
<1> USE DEF MapIInv
<1> DEFINE rest == Axis \ (d.stored \cup {a})
           done == rest = {}
           rests == deferred \ {d}
           others == IF done /\ d.moved THEN Disturbed(rests) ELSE rests
<1>0. PICK after :
        after = [d EXCEPT !.read = Unread, !.stored = Axis \ rest, !.moved = @ /\ ~ done]
  OBVIOUS
<1>1. /\ d.read # Unread /\ First(a, Axis \ d.stored)
      /\ last_position' = [last_position EXCEPT ![a] = d.read]
      /\ deferred' = others \cup {after}
      /\ still' = IF done THEN \A c \in deferred : ~ c.moved ELSE still
      /\ UNCHANGED <<playerVars, timeVars, trackerVars, frame, logVars, arrival>>
  BY <1>0 DEF StoreAxis, StoreAndLeave
<1>2. /\ d \in Prepare /\ deferred \subseteq Prepare
      /\ d.stored \in SUBSET Axis /\ d.moved \in BOOLEAN /\ d.read \in Coordinate
  <2>1. d \in Prepare /\ deferred \subseteq Prepare
    BY DEF MapTypeOK
  <2> QED
    BY <1>1, <2>1, PrepareTypes
<1>3. a \notin d.stored /\ d.stored # Axis /\ Axis \ rest = d.stored \cup {a}
  BY <1>1, <1>2 DEF First
<1>4. /\ after \in Prepare /\ after.due = d.due /\ after.read = Unread
      /\ after.stored = d.stored \cup {a} /\ (after.moved <=> d.moved /\ ~ done)
  <2> DEFINE b == d.moved /\ ~ done  w == Axis \ rest
  <2>1. b \in BOOLEAN /\ w \in SUBSET Axis
    BY <1>2
  <2>2. after = [d EXCEPT !.read = Unread, !.stored = w, !.moved = b]
    BY <1>0
  <2> HIDE DEF b, w
  <2>3. /\ after \in Prepare /\ after.due = d.due /\ after.read = Unread
        /\ after.stored = w /\ after.moved = b
    BY <1>2, <2>1, <2>2, Zenon DEF Prepare
  <2> QED
    BY <1>3, <2>3 DEF b, w
<1>5. /\ last_position' \in [Axis -> Coordinate \cup {Origin}]
      /\ last_position'[a] = d.read /\ \A b \in Axis : b # a => last_position'[b] = last_position[b]
  BY <1>1, <1>2 DEF MapTypeOK
<1>6. /\ link' = link /\ frame' = frame
      /\ link.avatar \in [Axis -> Coordinate] /\ last_position \in [Axis -> Coordinate \cup {Origin}]
  BY <1>1, PositionAssumption DEF MapTypeOK, playerVars
<1>7. /\ rests \in SUBSET Prepare /\ \A e \in rests : e.moved => e.stored # Axis
      /\ \A e \in rests : CopyInv(e)'
  BY <1>2, <1>6 DEF PlaceInv, CopyInv
<1>8. ~ d.moved => d.read = link.avatar[a]
  BY <1>1 DEF PlaceInv, CopyInv
<1>9. /\ still' \in BOOLEAN
      /\ UNCHANGED <<playerVars, timeVars, trackerVars, frame, logVars, arrival>>
  <2>1. (\A c \in deferred : ~ c.moved) \in BOOLEAN /\ still \in BOOLEAN
    BY DEF MoreTypes
  <2> QED
    BY <1>1, <2>1
<1>10. CASE done /\ d.moved
  <2>1. /\ others \subseteq Prepare
        /\ \A x \in rests : \E e \in others : e.due = x.due
        /\ \A e \in others : e.moved => e.stored # Axis
        /\ \A e \in others : ~ e.moved => e.stored = Axis \/ (e.read = Unread /\ e.stored = {})
    <3>1. others = Disturbed(rests)
      BY <1>10
    <3> HIDE DEF others, rests
    <3> QED
      BY <1>7, <3>1, DisturbedCopies
  <2>2. ~ after.moved /\ after.stored = Axis
    BY <1>2, <1>3, <1>4, <1>10
  <2>3. \A e \in deferred' : CopyInv(e)' /\ (~ e.moved => StoredInv(e)')
    <3>1. \A e \in others : CopyInv(e)' /\ (~ e.moved => StoredInv(e)')
      <4> HIDE DEF others
      <4> QED
        BY <2>1, NothingIsUnderWay
    <3>2. CopyInv(after)' /\ StoredInv(after)'
      BY <2>2, NothingIsUnderWay
    <3> HIDE DEF others
    <3> QED
      BY <1>1, <3>1, <3>2
  <2>4. ~ still' /\ ~ still
    BY <1>1, <1>10 DEF PlaceInv, Undisturbed
  <2>5. PlaceInv'
    <3>1. ~ frame.still /\ (frame.stage = "start" => ~ frame.still)
      BY <2>4 DEF PlaceInv
    <3> QED
      BY <1>6, <2>3, <2>4, <3>1 DEF PlaceInv, Undisturbed
  <2> HIDE DEF others
  <2>6. /\ MapTypeOK' /\ MoreTypes' /\ LogInv' /\ CallsInv' /\ NamesInv' /\ PrepareInv'
        /\ CodeInv'
    BY <1>1, <1>4, <1>5, <1>9, <2>1, CopyGoesOn
  <2> QED
    BY <2>5, <2>6
<1>11. CASE ~ (done /\ d.moved)
  <2>1. others = rests
    BY <1>11
  <2>2. deferred' = rests \cup {after} /\ (after.moved <=> d.moved)
    BY <1>1, <1>4, <1>11, <2>1
  <2>3. (Undisturbed' <=> Undisturbed) /\ (Undisturbed => ~ d.moved)
    BY <2>2 DEF Undisturbed
  <2>4. \A e \in deferred' : CopyInv(e)'
    <3>1. CopyInv(after)'
      BY <1>4, <1>11, <2>2 DEF CopyInv
    <3> QED
      BY <1>7, <2>2, <3>1
  <2>5. Undisturbed => \A e \in deferred : e.stored # Axis =>
          \A b \in Axis : b \in e.stored => last_position'[b] = link.avatar[b]
    BY <1>5, <1>8, <2>3 DEF PlaceInv, StoredInv
  <2>6. Undisturbed => \A b \in Axis : b \in d.stored \cup {a} => last_position'[b] = link.avatar[b]
    BY <1>3, <1>5, <1>8, <2>3, <2>5
  <2>7. Undisturbed => \A e \in deferred' : StoredInv(e)'
    <3>1. \A e \in rests : e.stored \in SUBSET Axis
      BY <1>2, PrepareTypes
    <3>2. Undisturbed => \A e \in rests : StoredInv(e)'
      BY <1>6, <2>5, <3>1 DEF StoredInv
    <3>3. Undisturbed => StoredInv(after)'
      BY <1>2, <1>4, <1>6, <2>6 DEF StoredInv
    <3> QED
      BY <2>2, <3>2, <3>3
  <2>8. still' => Undisturbed /\ last_position' = link.avatar
    <3>1. CASE done
      <4>1. still' => Undisturbed
        BY <1>1, <3>1 DEF Undisturbed
      <4>2. d.stored \cup {a} = Axis
        BY <1>2, <3>1
      <4>3. Undisturbed => \A b \in Axis : last_position'[b] = link.avatar[b]
        BY <2>6, <4>2
      <4> QED
        BY <1>5, <1>6, <4>1, <4>3
    <3>2. CASE ~ done
      <4>1. still' => Undisturbed /\ last_position = link.avatar
        BY <1>1, <3>2 DEF PlaceInv
      <4>2. still' => \A b \in Axis : last_position'[b] = link.avatar[b]
        BY <1>5, <1>8, <2>3, <4>1
      <4> QED
        BY <1>5, <1>6, <4>1, <4>2
    <3> QED
      BY <3>1, <3>2
  <2>9. frame.still => still'
    BY <1>1 DEF PlaceInv, Undisturbed
  <2>10. PlaceInv'
    <3>1. frame.stage = "start" => ~ frame.still
      BY DEF PlaceInv
    <3> QED
      BY <1>6, <2>3, <2>4, <2>7, <2>8, <2>9, <3>1 DEF PlaceInv
  <2>11. rests \subseteq Prepare /\ \A x \in deferred \ {d} : \E y \in rests : y.due = x.due
    BY <1>7
  <2> HIDE DEF rests, others
  <2>12. /\ MapTypeOK' /\ MoreTypes' /\ LogInv' /\ CallsInv' /\ NamesInv' /\ PrepareInv'
         /\ CodeInv'
    BY <1>4, <1>5, <1>9, <2>2, <2>11, CopyGoesOn
  <2> QED
    BY <2>10, <2>12
<1> QED
  BY <1>10, <1>11

(* What the prepares and a start on movement have in common.               *)
LEMMA PresentIInv ==
  ASSUME MapIInv, NEW type \in {"prepare", "start"}, NEW source \in EventSource,
         AddEventNow(type, source),
         UNCHANGED <<link, travels, now, trackerVars, last_position, arrival>>,
         deferred' \subseteq deferred, \A d \in deferred \ deferred' : d.due <= now,
         frame' \in Frame, still' \in BOOLEAN, PlaceInv'
  PROVE  MapIInv'
<1> USE DEF MapIInv
<1>1. /\ LogInv' /\ stamps' = stamps + 1 /\ state' \in StateType /\ state'.status # "stopped"
      /\ \/ log' = log
         \/ \E e \in EventEntry : /\ log' = Append(log, e) /\ e.type # "map_change"
                                  /\ e.time = stamps + 1
  BY AddNewest
<1>2. CallsInv' /\ NamesInv'
  BY <1>1, PresentLeavesCalls DEF trackerVars
<1>3. MapTypeOK' /\ MoreTypes'
  <2>1. log' \in Seq(EventEntry) /\ stamps' \in Nat /\ deferred' \subseteq Prepare
    BY <1>1 DEF LogInv, MapTypeOK
  <2> QED
    BY <1>1, <2>1 DEF MapTypeOK, MoreTypes, StateType, trackerVars
<1>4. PrepareInv'
  <2>1. UNCHANGED <<now, calls, arrival>> /\ Top' = Top /\ (Idle <=> Idle')
    BY DEF trackerVars, Top, Idle
  <2>2. \A t : (\E x \in deferred : x.due = t) => t <= now \/ \E x \in deferred' : x.due = t
    OBVIOUS
  <2> QED
    BY <1>1, <2>1, <2>2 DEF PrepareInv
<1>5. CodeInv'
  BY DEF CodeInv, Idle, trackerVars
<1> QED
  BY <1>1, <1>2, <1>3, <1>4, <1>5

LEMMA DispatchPrepareIInv ==
  ASSUME MapIInv, NEW d \in deferred, DispatchPrepare(d) PROVE MapIInv'
<1>0. MapTypeOK /\ MoreTypes /\ PlaceInv
  BY DEF MapIInv
<1>1. /\ d.due <= now /\ d.stored = Axis /\ deferred' = deferred \ {d}
      /\ AddEventNow("prepare", d.source)
      /\ frame' = IF d.source = "manual" THEN FrameOver ELSE frame
      /\ UNCHANGED <<playerVars, now, trackerVars, last_position, arrival, still>>
  <2>1. d.due \in Nat /\ now \in Nat
    BY <1>0, PrepareTypes, TimesAssumption DEF MapTypeOK
  <2> QED
    BY <2>1 DEF DispatchPrepare, PrepareReturns, Awake
<1>2. "prepare" \in {"prepare", "start"} /\ d.source \in EventSource
  BY <1>0, PrepareTypes DEF EventSource, MapTypeOK
<1>3. frame' \in Frame /\ (frame' = frame \/ (~ frame'.still /\ frame'.stage = "over"))
  BY <1>0, <1>1, FrameMovesOn DEF MapTypeOK
<1>4. PlaceInv'
  <2>1. UNCHANGED <<link, last_position, still>> /\ ~ d.moved
    BY <1>0, <1>1 DEF playerVars, PlaceInv, CopyInv
  <2>2. Undisturbed' <=> Undisturbed
    BY <1>1, <2>1 DEF Undisturbed
  <2>3. \A e \in deferred' : CopyInv(e)'
    BY <1>0, <1>1, <2>1 DEF PlaceInv, CopyInv
  <2>4. Undisturbed' => \A e \in deferred' : StoredInv(e)'
    BY <1>0, <1>1, <2>1, <2>2 DEF PlaceInv, StoredInv
  <2>5. (frame'.still => still') /\ (frame'.stage = "start" => ~ frame'.still)
    BY <1>0, <1>3, <2>1 DEF PlaceInv
  <2> QED
    BY <1>0, <2>1, <2>2, <2>3, <2>4, <2>5 DEF PlaceInv
<1>5. /\ deferred' \subseteq deferred /\ \A e \in deferred \ deferred' : e.due <= now
      /\ UNCHANGED <<link, travels>> /\ still' \in BOOLEAN
  BY <1>0, <1>1 DEF playerVars, MoreTypes
<1> QED
  BY <1>1, <1>2, <1>3, <1>4, <1>5, PresentIInv

LEMMA PrepareKeyIInv == ASSUME MapIInv, PrepareKey PROVE MapIInv'
<1>1. /\ AddEventNow("prepare", "manual") /\ still' = FALSE
      /\ frame' = [frame EXCEPT !.still = FALSE]
      /\ UNCHANGED <<link, travels, walks, now, trackerVars, last_position, deferred, arrival>>
  BY DEF PrepareKey
<1>2. "prepare" \in {"prepare", "start"} /\ "manual" \in EventSource
  BY DEF EventSource
<1>3. frame' \in Frame /\ ~ frame'.still
  BY <1>1, FrameMovesOn DEF MapIInv, MapTypeOK
<1>4. PlaceInv'
  BY <1>1, <1>3 DEF MapIInv, PlaceInv, Undisturbed, CopyInv, StoredInv
<1>5. /\ deferred' \subseteq deferred /\ \A e \in deferred \ deferred' : e.due <= now
      /\ still' \in BOOLEAN
  BY <1>1
<1> QED
  BY <1>1, <1>2, <1>3, <1>4, <1>5, PresentIInv

LEMMA StartOnMovementIInv == ASSUME MapIInv, StartOnMovement PROVE MapIInv'
<1>1. /\ AddEventNow("start", "movement") /\ frame' = FrameOver
      /\ UNCHANGED <<playerVars, now, trackerVars, last_position, deferred, arrival, still>>
  BY DEF StartOnMovement, StartReturns
<1>2. "start" \in {"prepare", "start"} /\ "movement" \in EventSource
  BY DEF EventSource
<1>3. frame' \in Frame /\ ~ frame'.still
  BY <1>1, FrameMovesOn DEF MapIInv, MapTypeOK
<1>4. PlaceInv'
  BY <1>1, <1>3 DEF MapIInv, PlaceInv, Undisturbed, CopyInv, StoredInv, playerVars
<1>5. /\ deferred' \subseteq deferred /\ \A e \in deferred \ deferred' : e.due <= now
      /\ UNCHANGED <<link, travels>> /\ still' \in BOOLEAN
  BY <1>1 DEF playerVars, MapIInv, MoreTypes
<1> QED
  BY <1>1, <1>2, <1>3, <1>4, <1>5, PresentIInv

(* A frame goes on.                                                        *)
LEMMA FrameMovesIInv ==
  ASSUME MapIInv, FrameMoves, frame' \in Frame, frame'.still => still,
         frame'.stage = "start" => ~ frame'.still
  PROVE  MapIInv'
<1> USE DEF MapIInv
<1>1. UNCHANGED <<playerVars, timeVars, trackerVars, last_position, deferred, logVars, arrival, still>>
  BY DEF FrameMoves
<1>2. MapTypeOK' /\ MoreTypes'
  BY <1>1 DEF MapTypeOK, MoreTypes, playerVars, timeVars, trackerVars, logVars
<1>3. LogInv' /\ CallsInv' /\ NamesInv' /\ PrepareInv'
  BY <1>1 DEF LogInv, CallsInv, NamesInv, PrepareInv, Unsettled, Idle, Top, timeVars, trackerVars, logVars
<1>4. PlaceInv'
  BY <1>1 DEF PlaceInv, Undisturbed, CopyInv, StoredInv, playerVars
<1>5. CodeInv'
  BY <1>1 DEF CodeInv, Idle, playerVars, trackerVars
<1> QED
  BY <1>2, <1>3, <1>4, <1>5

LEMMA LookIInv == ASSUME MapIInv, Look PROVE MapIInv'
<1>1. FrameMoves
  BY DEF Look
<1>2. CASE frame' = FrameOver
  <2>1. frame' \in Frame /\ ~ frame'.still
    BY <1>2, FrameMovesOn DEF MapIInv, MapTypeOK
  <2> QED
    BY <1>1, <2>1, FrameMovesIInv
<1>3. CASE frame' = [stage |-> "compare", axes |-> Axis, still |-> still]
  <2>1. still \in BOOLEAN
    BY DEF MapIInv, MoreTypes
  <2>2. frame' \in Frame /\ frame'.still = still /\ frame'.stage = "compare"
    BY <1>3, <2>1, Zenon DEF Frame
  <2> QED
    BY <1>1, <2>2, FrameMovesIInv
<1> QED
  BY <1>2, <1>3 DEF Look

LEMMA CompareAxisIInv == ASSUME MapIInv, NEW a \in Axis, CompareAxis(a) PROVE MapIInv'
<1>1. /\ FrameMoves /\ frame \in Frame
      /\ frame' = IF last_position[a] # link.avatar[a] THEN [frame EXCEPT !.stage = "start"]
                  ELSE IF frame.axes = {a} THEN FrameOver
                  ELSE [frame EXCEPT !.axes = @ \ {a}]
      /\ frame.stage = "compare"
  BY DEF CompareAxis, MapIInv, MapTypeOK
<1>2. CASE last_position[a] # link.avatar[a]
  <2>1. ~ frame.still
    BY <1>2 DEF MapIInv, PlaceInv
  <2>2. frame' \in Frame /\ ~ frame'.still
    BY <1>1, <1>2, <2>1, FrameMovesOn
  <2> QED
    BY <1>1, <2>2, FrameMovesIInv
<1>3. CASE last_position[a] = link.avatar[a]
  <2> DEFINE axes == frame.axes \ {a}
  <2>1. axes \in SUBSET Axis
    BY <1>1, FrameMovesOn
  <2>2. frame' = FrameOver \/ frame' = [frame EXCEPT !.axes = axes]
    BY <1>1, <1>3
  <2> HIDE DEF axes
  <2>3. /\ frame' \in Frame
        /\ frame'.still => frame.still
        /\ frame'.stage # "start"
    <3>1. CASE frame' = FrameOver
      BY <1>1, <3>1, FrameMovesOn
    <3>2. CASE frame' = [frame EXCEPT !.axes = axes]
      <4>1. /\ frame' \in Frame
            /\ frame'.still = frame.still
            /\ frame'.stage = "compare"
        <5>1. \A x \in SUBSET Axis : /\ [frame EXCEPT !.axes = x] \in Frame
                                     /\ [frame EXCEPT !.axes = x].still = frame.still
                                     /\ [frame EXCEPT !.axes = x].stage = frame.stage
          BY <1>1, FrameMovesOn, Zenon
        <5> QED
          BY <1>1, <2>1, <3>2, <5>1, Zenon
      <4> QED
        BY <4>1
    <3> QED
      BY <2>2, <3>1, <3>2
  <2>4. frame'.still => still
    BY <2>3 DEF MapIInv, PlaceInv
  <2> QED
    BY <1>1, <2>3, <2>4, FrameMovesIInv
<1> QED
  BY <1>2, <1>3

LEMMA PrepareButtonIInv == ASSUME MapIInv, PrepareButton PROVE MapIInv'
<1> USE DEF MapIInv
<1> DEFINE new == NewPrepare("manual", now)
<1>1. /\ deferred' = deferred \cup {new} /\ frame' = [frame EXCEPT !.stage = "button"]
      /\ UNCHANGED <<link, travels, walks, timeVars, trackerVars, last_position, logVars, arrival, still>>
  BY DEF PrepareButton
<1>2. new \in Prepare /\ ~ new.moved /\ new.read = Unread /\ new.stored = {}
  <2>1. now \in Nat /\ travels \in Nat
    BY TimesAssumption DEF MapTypeOK, MoreTypes
  <2> QED
    BY <2>1, NewPrepareFacts
<1> HIDE DEF new
<1>3. frame' \in Frame /\ frame'.stage = "button" /\ frame'.still = frame.still
  BY <1>1, FrameMovesOn DEF MapTypeOK
<1>4. MapTypeOK' /\ MoreTypes'
  BY <1>1, <1>2, <1>3 DEF MapTypeOK, MoreTypes, timeVars, trackerVars, logVars
<1>5. LogInv' /\ CallsInv' /\ NamesInv'
  BY <1>1 DEF LogInv, CallsInv, NamesInv, Unsettled, Idle, Top, timeVars, trackerVars, logVars
<1>6. PrepareInv'
  BY <1>1 DEF PrepareInv, Idle, Top, timeVars, trackerVars, logVars
<1>7. PlaceInv'
  BY <1>1, <1>2, <1>3, BeginsToPrepare
<1>8. CodeInv'
  BY <1>1 DEF CodeInv, Idle, trackerVars
<1> QED
  BY <1>4, <1>5, <1>6, <1>7, <1>8

(* The code of the server follows the innermost call.                      *)
LEMMA UpdateCodeIInv == ASSUME MapIInv, UpdateCode PROVE MapIInv'
<1> USE DEF MapIInv
<1> DEFINE d == calls'
<1>1. /\ ~ Idle /\ Top.stage = "code"
      /\ map_code' = IF link.server \in Ipv4 THEN Crc(link.server) ELSE map_code
      /\ d = SubSeq(calls, 1, Len(calls) - 1)
      /\ UNCHANGED <<playerVars, timeVars, map_id, timerVars, logVars, arrival,
                     still>>
  BY DEF UpdateCode
<1>2. /\ GoodCalls(calls, log, stamps) /\ calls # <<>> /\ stamps \in Nat /\ map_id \in Map
      /\ Len(calls) \in Nat \ {0} /\ calls \in Seq(Call)
  BY <1>1, Innermost DEF CallsInv, LogInv
<1> HIDE DEF d
<1>3. GoodCalls(d, log, stamps) /\ Len(d) = Len(calls) - 1
  <2>1. GoodCalls(d, log, stamps)
    BY <1>1, <1>2, GoodPop
  <2>2. Len(d) = Len(calls) - 1
    BY <1>1, <1>2, GoodPop
  <2> QED
    BY <2>1, <2>2
<1>4. d \in Seq(Call)
  BY <1>3 DEF GoodCalls
<1>5. d = calls' /\ Crc(link.server) = link.server
  BY DEF d, Crc
<1>6. MapTypeOK' /\ MoreTypes'
  <2>1. map_code' \in Server \cup {NoCode}
    BY <1>1, <1>5 DEF MapTypeOK
  <2> QED
    BY <1>1, <1>4, <1>5, <2>1 DEF MapTypeOK, MoreTypes, playerVars, timeVars, timerVars, logVars
<1>7. LogInv' /\ CallsInv'
  BY <1>1, <1>2, <1>3, <1>5 DEF LogInv, CallsInv, timeVars, logVars
<1>8. ~ arrival.nested => Idle'
  <2>1. ~ arrival.nested => Len(d) = 0
    BY <1>1, <1>2, <1>3 DEF NamesInv, Unsettled
  <2> QED
    BY <1>4, <1>5, <2>1 DEF Idle
<1>9. NamesInv'
  <2>1. ~ arrival.nested => Len(calls') <= 1
    BY <1>1, <1>2, <1>3, <1>5 DEF NamesInv, Unsettled
  <2>2. ~ arrival.nested /\ map_id # Nowhere =>
          \E i \in 1 .. Len(log) : LastChange(log, i) /\ log[i].name \in {map_id, "Unknown"}
    BY <1>1 DEF NamesInv, Unsettled
  <2>3. UNCHANGED <<log, map_id, arrival>>
    BY <1>1 DEF logVars
  <2> QED
    BY <1>8, <2>1, <2>2, <2>3 DEF NamesInv
<1>10. PrepareInv'
  BY <1>1, <1>8 DEF PrepareInv, timeVars, timerVars, logVars
<1>11. PlaceInv' /\ CodeInv'
  BY <1>1 DEF PlaceInv, Undisturbed, CopyInv, StoredInv, CodeInv, playerVars, timerVars
<1> QED
  BY <1>6, <1>7, <1>9, <1>10, <1>11

(* The handlers return, and the map_change enters the log.                 *)
LEMMA DispatchMapChangeIInv == ASSUME MapIInv, DispatchMapChange PROVE MapIInv'
<1> USE DEF MapIInv
<1> DEFINE top == [Top EXCEPT !.stage = "code"]
           time == IF Top.stamp = 0 THEN Stamp ELSE Top.stamp
<1>1. /\ ~ Idle /\ Top.stage = "request" /\ calls' = WithTop(top)
      /\ stamps' = IF Top.stamp = 0 THEN Stamp ELSE stamps
      /\ arrival' = [arrival EXCEPT !.late = @ \/ now >= Top.since + Delay]
      /\ UNCHANGED <<playerVars, now, map_id, map_code, timerVars, still>>
  BY DEF DispatchMapChange, HandlersReturn
<1>2. PICK name \in Names(Top.asked) : AddEvent(time, "map_change", "other", name)
  BY DEF DispatchMapChange
<1>3. /\ Top \in Call /\ Top.since \in Nat /\ Top.stamp \in Nat /\ Top.stamp <= stamps
      /\ stamps \in Nat /\ now \in Nat /\ map_id \in Map
      /\ Top.asked \in Map /\ (Top.stamp # 0 => Free(log, Top.stamp))
      /\ calls \in Seq(Call) /\ calls # <<>> /\ Len(calls) \in Nat \ {0}
      /\ GoodCalls(calls, log, stamps)
  <2>1. stamps \in Nat /\ now \in Nat /\ Asking(Top)
    BY <1>1, TimesAssumption DEF LogInv, MapTypeOK, Asking
  <2> QED
    BY <1>1, <2>1, Innermost DEF CallsInv
<1>4. /\ top \in Call /\ top.stage = "code" /\ top.since = Top.since /\ top.stamp = Top.stamp
      /\ ~ Asking(top)
  BY <1>3 DEF Call, Asking
<1> HIDE DEF top
<1>5. name \in Name /\ name \in {Top.asked, "Unknown"}
  BY <1>3, MapAssumption DEF Names
<1>6. \A i \in 1 .. Len(log) : log[i].time \in Int /\ log[i].time <= stamps
  BY TimesAreNumbers DEF LogInv
<1>7. /\ time \in Nat \ {0} /\ Free(log, time)
      /\ stamps' \in Nat /\ stamps <= stamps' /\ time <= stamps'
      /\ (Top.stamp = 0 => time = stamps + 1) /\ (Top.stamp # 0 => time = Top.stamp)
  <2>1. CASE Top.stamp = 0
    BY <1>1, <1>3, <1>6, <2>1 DEF Stamp, Free
  <2>2. CASE Top.stamp # 0
    BY <1>1, <1>3, <2>2
  <2> QED
    BY <2>1, <2>2
<1> HIDE DEF time
<1>8. /\ LogInv' /\ state' \in StateType
      /\ \A t : Free(log, t) /\ t # time => Free(log', t)
      /\ Older(log, time) =>
           \E i \in 1 .. Len(log') : LastChange(log', i) /\ log'[i].name = name
  BY <1>2, <1>5, <1>7, AddChange
<1>9. GoodCalls(calls', log, stamps) /\ Len(calls') = Len(calls) /\ ~ Idle' /\ Top' = top
  BY <1>1, <1>4, CallMoves
<1>10. GoodCalls(calls', log', stamps')
  <2> DEFINE d == calls'  r == log'  k == stamps'
  <2>1. d = [calls EXCEPT ![Len(calls)] = top]
    BY <1>1 DEF WithTop
  <2>2. ASSUME NEW i \in 1 .. Len(d), Asking(d[i]), Free(log, d[i].stamp)
        PROVE  Free(r, d[i].stamp)
    <3>1. i \in 1 .. Len(calls) /\ i # Len(calls) /\ d[i] = calls[i]
      BY <1>3, <1>4, <2>1, <2>2
    <3>2. Len(calls) \in 1 .. Len(calls) /\ Asking(calls[Len(calls)])
      BY <1>1, <1>3 DEF Asking, Top
    <3>3. Top.stamp # 0 => Top.stamp # d[i].stamp
      BY <2>2, <3>1, <3>2, <1>3 DEF GoodCalls, Top
    <3>4. d[i].stamp \in Nat /\ d[i].stamp <= stamps
      <4>1. calls[i] \in Call /\ calls[i].stamp <= stamps
        BY <1>3, <3>1 DEF GoodCalls
      <4> QED
        BY <3>1, <4>1, CallTypes
    <3>5. d[i].stamp # time
      BY <1>3, <1>7, <3>3, <3>4
    <3> QED
      BY <1>8, <2>2, <3>5
  <2>3. k \in Nat /\ stamps <= k /\ GoodCalls(d, log, stamps)
    BY <1>7, <1>9
  <2> HIDE DEF d, r, k
  <2>4. GoodCalls(d, r, k)
    BY <1>3, <2>2, <2>3, GoodLater
  <2> QED
    BY <2>4 DEF d, r, k
<1>11. CallsInv'
  BY <1>1, <1>3, <1>10 DEF CallsInv
<1>12. /\ arrival' \in ArrivalType /\ arrival'.prepare = arrival.prepare
       /\ arrival'.nested = arrival.nested /\ arrival'.moved = arrival.moved
       /\ arrival'.late = (arrival.late \/ now >= Top.since + Delay)
  <2> DEFINE b == arrival.late \/ now >= Top.since + Delay  a == arrival'
  <2>1. b \in BOOLEAN /\ a = [arrival EXCEPT !.late = b]
    BY <1>1
  <2> HIDE DEF b, a
  <2>2. /\ a \in ArrivalType /\ a.late = b
        /\ a.prepare = arrival.prepare /\ a.nested = arrival.nested /\ a.moved = arrival.moved
    BY <2>1, ArrivalIsLate DEF MoreTypes
  <2> QED
    BY <2>2 DEF b, a
<1>13. MapTypeOK' /\ MoreTypes'
  <2>1. calls' \in Seq(Call) /\ log' \in Seq(EventEntry)
    BY <1>8, <1>9 DEF GoodCalls, LogInv
  <2> QED
    BY <1>1, <1>7, <1>8, <1>12, <2>1 DEF MapTypeOK, MoreTypes, StateType, playerVars, timerVars
<1>14. NamesInv'
  <2> SUFFICES ASSUME ~ arrival.nested PROVE NamesInv'
    BY <1>12 DEF NamesInv
  <2>1. Len(calls') <= 1 /\ Top.asked = map_id /\ (Top.stamp # 0 => Older(log, Top.stamp))
    BY <1>1, <1>9 DEF NamesInv, Unsettled
  <2>2. Top.stamp = 0 => Older(log, stamps + 1)
    BY <1>3, <1>6 DEF Older
  <2>3. Older(log, time)
    BY <1>7, <2>1, <2>2
  <2>4. PICK i \in 1 .. Len(log') : LastChange(log', i) /\ log'[i].name = name
    BY <1>8, <2>3
  <2>5. name \in {map_id', "Unknown"} /\ Top'.stage = "code"
    BY <1>1, <1>4, <1>5, <1>9, <2>1
  <2> QED
    BY <2>1, <2>4, <2>5 DEF NamesInv
<1>15. PrepareInv'
  <2>1. UNCHANGED <<now, deferred>>
    BY <1>1 DEF timerVars
  <2>2. ~ arrival.nested /\ arrival.prepare => Top.since + Delay <= now \/ deferred # {}
    BY <1>1 DEF PrepareInv
  <2>3. Top.since + Delay \in Nat
    BY <1>3, TimesAssumption
  <2>4. ~ arrival.nested /\ arrival.prepare /\ ~ arrival'.late => deferred' # {}
    BY <1>3, <1>12, <2>1, <2>2, <2>3
  <2> QED
    BY <1>4, <1>9, <1>12, <2>4 DEF PrepareInv
<1>16. PlaceInv' /\ CodeInv'
  BY <1>1, <1>9 DEF PlaceInv, Undisturbed, CopyInv, StoredInv, CodeInv, playerVars, timerVars
<1> QED
  BY <1>8, <1>11, <1>13, <1>14, <1>15, <1>16

LEMMA NextMapIInv == MapIInv /\ [MapNext]_mapVars => MapIInv'
<1> SUFFICES ASSUME MapIInv, [MapNext]_mapVars PROVE MapIInv'
  OBVIOUS
<1>1. CASE Travel
  BY <1>1, TravelIInv
<1>2. CASE Walk
  BY <1>2, WalkIInv
<1>3. CASE Tick
  BY <1>3, TickIInv
<1>4. CASE Watch
  BY <1>4, WatchIInv
<1>5. CASE TrackMap
  BY <1>5, TrackMapIInv
<1>6. CASE TimerMapChange
  BY <1>6, TimerMapChangeIInv
<1>7. CASE GetMapName
  BY <1>7, GetMapNameIInv
<1>8. CASE DispatchMapChange
  BY <1>8, DispatchMapChangeIInv
<1>9. CASE UpdateCode
  BY <1>9, UpdateCodeIInv
<1>10. ASSUME NEW d \in deferred, NEW a \in Axis, ReadAxis(d, a) PROVE MapIInv'
  BY <1>10, ReadAxisIInv
<1>11. ASSUME NEW d \in deferred, NEW a \in Axis, StoreAxis(d, a) PROVE MapIInv'
  BY <1>11, StoreAxisIInv
<1>12. ASSUME NEW d \in deferred, DispatchPrepare(d) PROVE MapIInv'
  BY <1>12, DispatchPrepareIInv
<1>13. CASE PrepareKey
  BY <1>13, PrepareKeyIInv
<1>14. CASE Look
  BY <1>14, LookIInv
<1>15. ASSUME NEW a \in Axis, CompareAxis(a) PROVE MapIInv'
  BY <1>15, CompareAxisIInv
<1>16. CASE StartOnMovement
  BY <1>16, StartOnMovementIInv
<1>17. CASE PrepareButton
  BY <1>17, PrepareButtonIInv
<1>18. CASE UNCHANGED mapVars
  <2>1. MapTypeOK' /\ MoreTypes' /\ LogInv' /\ CallsInv' /\ NamesInv' /\ PrepareInv' /\ CodeInv'
    BY <1>18
    DEF mapVars, playerVars, timeVars, trackerVars, timerVars, logVars, MapIInv, MapTypeOK, MoreTypes,
        LogInv, CallsInv, NamesInv, PrepareInv, CodeInv, Unsettled, Idle, Top
  <2>2. PlaceInv'
    BY <1>18
    DEF mapVars, playerVars, timerVars, MapIInv, PlaceInv, Undisturbed, CopyInv, StoredInv
  <2> QED
    BY <2>1, <2>2 DEF MapIInv
<1> QED
  BY <1>1, <1>2, <1>3, <1>4, <1>5, <1>6, <1>7, <1>8, <1>9, <1>10, <1>11, <1>12, <1>13, <1>14,
     <1>15, <1>16, <1>17, <1>18 DEF MapNext

LEMMA MapInvariance == MapSpec => []MapIInv
BY InitMapIInv, NextMapIInv, PTL DEF MapSpec

-----------------------------------------------------------------------------

(* Every variable of a map change has its type: the log holds entries, the *)
(* calls of watch are calls.  (maptracker.h, timer.h, eventstore.h)        *)
THEOREM MapTypeCorrect == MapSpec => []MapTypeOK
<1>1. MapIInv => MapTypeOK
  BY DEF MapIInv
<1> QED
  BY <1>1, MapInvariance, PTL

(* When all that a change caused has happened and auto prepare was asked   *)
(* for, the timer is prepared or started, for any maps, any delay and any  *)
(* number of earlier threads, unless the map_change was late or another    *)
(* change came in between.  (timer.cpp:89-94 beside mod.cpp:77-80)         *)
THEOREM PreparesComeLast == MapSpec => []PrepareComesLast
<1>1. MapIInv => PrepareComesLast
  BY DEF MapIInv, PrepareInv, PrepareComesLast
<1> QED
  BY <1>1, MapInvariance, PTL

(* The last map_change in the log names the map that is tracked, or none,  *)
(* however long the names of this map and of the ones before it took.      *)
(* (maptracker.cpp: the id is read before the nested watch)                *)
THEOREM LogsNameTheMap == MapSpec => []LogNamesTheMap
<1>1. MapIInv => LogNamesTheMap
  <2> SUFFICES ASSUME MapIInv, Idle, map_id # Nowhere, ~ arrival.nested
               PROVE  LogNamesTheMap
    BY DEF LogNamesTheMap
  <2> DEFINE P(k) == /\ log[k].type = "map_change"
                     /\ \A j \in k + 1 .. Len(log) : log[j].type # "map_change"
             i == CHOOSE k \in 1 .. Len(log) : P(k)
  <2>1. PICK n \in 1 .. Len(log) : P(n) /\ log[n].name \in {map_id, "Unknown"}
    BY DEF MapIInv, NamesInv, Unsettled, LastChange
  <2>2. i \in 1 .. Len(log) /\ P(i)
    BY <2>1
  <2>3. i = n
    <3>1. n \in Nat /\ i \in Nat /\ Len(log) \in Nat
      BY <2>2 DEF MapIInv, LogInv
    <3>2. ~ (i < n) /\ ~ (n < i)
      <4> HIDE DEF i
      <4>1. i < n => n \in i + 1 .. Len(log)
        BY <3>1
      <4>2. n < i => i \in n + 1 .. Len(log)
        BY <2>2, <3>1
      <4> QED
        BY <2>1, <2>2, <4>1, <4>2
    <3> HIDE DEF i
    <3> QED
      BY <3>1, <3>2
  <2>4. log[i].name \in {map_id, "Unknown"}
    BY <2>1, <2>3
  <2> QED
    BY <2>4 DEF LogNamesTheMap
<1> QED
  BY <1>1, MapInvariance, PTL

(* The id of an instance is that of the server the player is on, for any   *)
(* servers and any number of changes that come while handlers wait.        *)
(* (maptracker.cpp:140-149)                                                *)
THEOREM InstanceIdsAreTheServers == MapSpec => []InstanceIdIsTheServers
<1>1. MapIInv => InstanceIdIsTheServers
  BY DEF MapIInv, CodeInv, InstanceIdIsTheServers, get_instance_id
<1> QED
  BY <1>1, MapInvariance, PTL

(* A frame that looked while the avatar stood where its position was       *)
(* stored, and stands still, does not start the timer, for any positions   *)
(* and any number of threads that copy them.                               *)
(* (timer.cpp:28, 41-48, 89-94, 134-138)                                   *)
THEOREM StartsFollowMoves == MapSpec => StartsAreMoves
<1>1. MapIInv /\ [MapNext]_mapVars => [StartOnMovement => ~ frame.still]_mapVars
  BY DEF StartOnMovement, StartReturns, MapIInv, PlaceInv
<1> QED
  BY <1>1, MapInvariance, PTL DEF MapSpec, StartsAreMoves

-----------------------------------------------------------------------------
(* The tracker catches up: what remains of TrackerCatchesUp without        *)
(* fairness.                                                               *)

Tracking ==
  Watch \/ TrackMap \/ TimerMapChange \/ GetMapName \/ DispatchMapChange \/ UpdateCode

(* What a call of watch has before it once it stored the map id.           *)
StageRank == [signal |-> 4, name |-> 3, request |-> 2, code |-> 1]

(* As long as the player stays, a step of the tracker begins a call for a  *)
(* map that is not tracked, or stores the map of the player, or ends the   *)
(* innermost call or brings it closer to its end, and nothing else undoes  *)
(* it.                                                                     *)
TrackerMovesOn ==
  link'.map = link.map =>
    /\ Tracking =>
         \/ ~ Unsettled /\ Unsettled' /\ map_id # link.map /\ map_id' = map_id
         \/ Unsettled /\ ~ Unsettled' /\ map_id' = link.map
         \/ /\ ~ Unsettled /\ ~ Unsettled' /\ map_id' = map_id
            /\ \/ Len(calls') < Len(calls)
               \/ /\ Len(calls') = Len(calls)
                  /\ StageRank[Top'.stage] < StageRank[Top.stage]
    /\ ~ Tracking => UNCHANGED <<map_id, calls>>

(* watch is called from inside of its own handlers no deeper than the      *)
(* player has changed maps.                                                *)
NestedByTravels ==
  Len(calls) + (IF map_id # link.map /\ ~ Unsettled THEN 1 ELSE 0) <= travels + 1

(* The innermost call takes a place of its own in the list.                *)
LEMMA TopMoves ==
  ASSUME MapTypeOK, ~ Idle, NEW call
  PROVE  /\ Len(WithTop(call)) = Len(calls) /\ Len(calls) \in Nat \ {0}
         /\ WithTop(call)[Len(calls)] = call
BY DEF MapTypeOK, Idle, WithTop

LEMMA StageFalls ==
  ASSUME MapTypeOK, ~ Idle, NEW call, calls' = WithTop(call), call.stage # "track",
         Top.stage # "track", StageRank[call.stage] < StageRank[Top.stage]
  PROVE  /\ Len(calls') = Len(calls) /\ StageRank[Top'.stage] < StageRank[Top.stage]
         /\ ~ Unsettled /\ ~ Unsettled'
<1>1. Len(calls') = Len(calls) /\ Top' = call
  BY TopMoves DEF Top
<1> QED
  BY <1>1 DEF Unsettled

LEMMA TrackingSteps ==
  ASSUME MapTypeOK, CallsInv, Tracking
  PROVE  /\ UNCHANGED <<link, travels>> /\ Len(calls) \in Nat
         /\ \/ /\ ~ Unsettled /\ Unsettled' /\ map_id # link.map /\ map_id' = map_id
               /\ Len(calls') = Len(calls) + 1
            \/ Unsettled /\ ~ Unsettled' /\ map_id' = link.map /\ Len(calls') = Len(calls)
            \/ /\ ~ Unsettled /\ ~ Unsettled' /\ map_id' = map_id
               /\ \/ Len(calls') < Len(calls)
                  \/ /\ Len(calls') = Len(calls)
                     /\ StageRank[Top'.stage] < StageRank[Top.stage]
<1>1. UNCHANGED <<link, travels>> /\ Len(calls) \in Nat
  BY DEF Tracking, Watch, TrackMap, TimerMapChange, GetMapName, DispatchMapChange, UpdateCode,
         playerVars, MapTypeOK
<1>2. CASE Watch
  <2>1. calls = <<>> /\ calls' = <<NewCall>> /\ map_id # link.map /\ map_id' = map_id
    BY <1>2 DEF Watch, Idle
  <2>2. Len(calls') = Len(calls) + 1 /\ calls' # <<>> /\ calls'[Len(calls')] = NewCall
    BY <2>1
  <2>3. ~ Unsettled /\ Unsettled'
    BY <2>1, <2>2, NewCallFacts DEF Unsettled, Idle, Top
  <2> QED
    BY <1>1, <2>1, <2>2, <2>3
<1>3. CASE TrackMap
  <2> DEFINE call == [Top EXCEPT !.stage = "signal", !.since = now]
  <2>1. /\ ~ Idle /\ Top.stage = "track" /\ calls' = WithTop(call) /\ map_id' = link.map
        /\ Top \in Call
    BY <1>3 DEF TrackMap, MapTypeOK, Idle, Top
  <2>2. call.stage = "signal"
    BY <2>1 DEF Call
  <2> HIDE DEF call
  <2>3. Len(calls') = Len(calls) /\ Top' = call
    BY <2>1, TopMoves DEF Top
  <2> QED
    BY <1>1, <2>1, <2>2, <2>3 DEF Unsettled
<1>4. CASE TimerMapChange
  <2> DEFINE call == [Top EXCEPT !.stage = "name"]
  <2>1. ~ Idle /\ Top.stage = "signal" /\ calls' = WithTop(call) /\ map_id' = map_id
    BY <1>4 DEF TimerMapChange
  <2>2. Top \in Call
    BY <2>1 DEF MapTypeOK, Idle, Top
  <2>3. StageRank[call.stage] < StageRank[Top.stage] /\ call.stage = "name"
    BY <2>1, <2>2 DEF StageRank, Call
  <2> HIDE DEF call
  <2> QED
    BY <1>1, <2>1, <2>3, StageFalls
<1>5. CASE GetMapName
  <2>1. PICK stamp \in {Stamp, 0} :
                     LET outer == WithTop([Top EXCEPT !.stage = "request", !.asked = map_id,
                                                     !.stamp = stamp])
                     IN  calls' = IF map_id = link.map THEN outer ELSE Append(outer, NewCall)
    BY <1>5 DEF GetMapName
  <2> DEFINE call == [Top EXCEPT !.stage = "request", !.asked = map_id, !.stamp = stamp]
  <2>2. ~ Idle /\ Top.stage = "name" /\ Top \in Call /\ map_id' = map_id
    BY <1>5 DEF GetMapName, MapTypeOK, Idle, Top
  <2>3. StageRank[call.stage] < StageRank[Top.stage] /\ call.stage = "request"
    BY <2>2 DEF StageRank, Call
  <2>4. call \in Call
    <3>1. stamp \in Nat /\ map_id \in Map \cup {Nowhere}
      BY <2>1 DEF Stamp, MapTypeOK
    <3> QED
      BY <2>2, <3>1 DEF Call
  <2>5. \/ map_id = link.map /\ calls' = WithTop(call)
        \/ map_id # link.map /\ calls' = Append(WithTop(call), NewCall)
    BY <2>1
  <2> HIDE DEF call
  <2>6. CASE map_id = link.map /\ calls' = WithTop(call)
    BY <1>1, <2>2, <2>3, <2>6, StageFalls
  <2>7. CASE map_id # link.map /\ calls' = Append(WithTop(call), NewCall)
    <3>1. WithTop(call) \in Seq(Call) /\ Len(WithTop(call)) = Len(calls)
      BY <2>2, <2>4 DEF WithTop, MapTypeOK, Idle
    <3>2. Len(calls') = Len(calls) + 1 /\ calls' # <<>> /\ calls'[Len(calls')] = NewCall
      BY <2>7, <3>1
    <3>3. ~ Unsettled /\ Unsettled'
      BY <2>2, <3>2, NewCallFacts DEF Unsettled, Idle, Top
    <3> QED
      BY <1>1, <2>2, <2>7, <3>2, <3>3
  <2> QED
    BY <2>5, <2>6, <2>7
<1>6. CASE DispatchMapChange
  <2> DEFINE call == [Top EXCEPT !.stage = "code"]
  <2>1. ~ Idle /\ Top.stage = "request" /\ calls' = WithTop(call) /\ map_id' = map_id
    BY <1>6 DEF DispatchMapChange, HandlersReturn
  <2>2. Top \in Call
    BY <2>1 DEF MapTypeOK, Idle, Top
  <2>3. StageRank[call.stage] < StageRank[Top.stage] /\ call.stage = "code"
    BY <2>1, <2>2 DEF StageRank, Call
  <2> HIDE DEF call
  <2> QED
    BY <1>1, <2>1, <2>3, StageFalls
<1>7. CASE UpdateCode
  <2>1. /\ map_id' = map_id /\ calls' = SubSeq(calls, 1, Len(calls) - 1) /\ calls \in Seq(Call)
        /\ calls # <<>> /\ Top.stage = "code"
    BY <1>7 DEF UpdateCode, MapTypeOK, Idle
  <2>2. Len(calls') < Len(calls)
    BY <2>1
  <2>3. ~ Unsettled /\ ~ Unsettled'
    <3>2. \A i \in 1 .. Len(calls) : i < Len(calls) => Asking(calls[i])
      BY DEF CallsInv, GoodCalls
    <3>3. calls' # <<>> => Asking(calls'[Len(calls')])
      BY <2>1, <3>2
    <3> QED
      BY <2>1, <3>3 DEF Unsettled, Idle, Top, Asking
  <2> QED
    BY <1>1, <2>1, <2>2, <2>3
<1> QED
  BY <1>1, <1>2, <1>3, <1>4, <1>5, <1>6, <1>7 DEF Tracking

LEMMA OthersDoNotTrack ==
  ASSUME MapTypeOK, [MapNext]_mapVars, ~ Tracking
  PROVE  /\ UNCHANGED <<map_id, calls>>
         /\ \/ link'.map = link.map /\ travels' = travels
            \/ Travel
<1>1. CASE Travel \/ Walk
  BY <1>1 DEF Travel, Walk, trackerVars, MapTypeOK
<1>2. CASE Tick \/ PrepareKey \/ StartOnMovement \/ PrepareButton
  BY <1>2 DEF Tick, PrepareKey, StartOnMovement, PrepareButton, playerVars, trackerVars
<1>3. CASE Look
  BY <1>3 DEF Look, FrameMoves, playerVars, trackerVars
<1>4. ASSUME NEW a \in Axis, CompareAxis(a) PROVE UNCHANGED <<map_id, calls, link, travels>>
  BY <1>4 DEF CompareAxis, FrameMoves, playerVars, trackerVars
<1>5. ASSUME NEW d \in deferred, DispatchPrepare(d) PROVE UNCHANGED <<map_id, calls, link, travels>>
  BY <1>5 DEF DispatchPrepare, playerVars, trackerVars
<1>6. ASSUME NEW d \in deferred, NEW a \in Axis, ReadAxis(d, a) \/ StoreAxis(d, a)
      PROVE  UNCHANGED <<map_id, calls, link, travels>>
  BY <1>6 DEF ReadAxis, StoreAxis, StoreAndLeave, playerVars, trackerVars
<1>7. CASE UNCHANGED mapVars
  BY <1>7 DEF mapVars, playerVars, trackerVars
<1> QED
  BY <1>1, <1>2, <1>3, <1>4, <1>5, <1>6, <1>7 DEF MapNext, Tracking

(* While the player stays on a map, the steps of the tracker lead towards  *)
(* it, and the handlers of a change that call watch again do so at most    *)
(* once per change of the player.  What TrackerCatchesUp needs beyond that *)
(* is that frames are drawn and requests return.                           *)
(* (maptracker.cpp: watch, get_map_name)                                   *)
THEOREM TrackerComesCloser == MapSpec => []NestedByTravels /\ [][TrackerMovesOn]_mapVars
<1>1. MapInit => NestedByTravels
  BY DEF MapInit, NestedByTravels, Unsettled, Idle
<1>2. MapIInv /\ NestedByTravels /\ [MapNext]_mapVars => NestedByTravels'
  <2> SUFFICES ASSUME MapIInv, NestedByTravels, [MapNext]_mapVars PROVE NestedByTravels'
    OBVIOUS
  <2>1. MapTypeOK /\ Len(calls) \in Nat /\ travels \in Nat
    BY DEF MapIInv, MapTypeOK, MoreTypes
  <2>2. CASE Tracking
    <3>1. /\ UNCHANGED <<link, travels>>
          /\ \/ /\ ~ Unsettled /\ Unsettled' /\ map_id # link.map /\ map_id' = map_id
                /\ Len(calls') = Len(calls) + 1
             \/ Unsettled /\ ~ Unsettled' /\ map_id' = link.map /\ Len(calls') = Len(calls)
             \/ /\ ~ Unsettled /\ ~ Unsettled' /\ map_id' = map_id
                /\ Len(calls') < Len(calls) \/ Len(calls') = Len(calls)
      BY <2>1, <2>2, TrackingSteps DEF MapIInv
    <3>2. Len(calls') \in Nat
      BY <2>1, <2>2, NextMapIInv DEF MapIInv, MapTypeOK
    <3> QED
      BY <2>1, <3>1, <3>2 DEF NestedByTravels
  <2>3. CASE ~ Tracking
    <3>1. /\ UNCHANGED <<map_id, calls>>
          /\ \/ link'.map = link.map /\ travels' = travels
             \/ Travel
      BY <2>1, <2>3, OthersDoNotTrack
    <3>2. Travel => travels' = travels + 1
      BY DEF Travel
    <3>3. (Unsettled <=> Unsettled')
      BY <3>1 DEF Unsettled, Idle, Top
    <3> QED
      BY <2>1, <3>1, <3>2, <3>3 DEF NestedByTravels
  <2> QED
    BY <2>2, <2>3
<1>3. MapIInv /\ [MapNext]_mapVars => [TrackerMovesOn]_mapVars
  <2> SUFFICES ASSUME MapIInv, [MapNext]_mapVars PROVE TrackerMovesOn
    OBVIOUS
  <2>1. MapTypeOK /\ CallsInv
    BY DEF MapIInv
  <2> QED
    BY <2>1, TrackingSteps, OthersDoNotTrack DEF TrackerMovesOn
<1> QED
  BY <1>1, <1>2, <1>3, MapInvariance, PTL DEF MapSpec

-----------------------------------------------------------------------------
(* Settings                                                                *)

(* The handlers have the keys of the settings while the addon is loaded.   *)
KeysInv == HandlersFollowKeys

(* Reading the file would give what the last unload saved.                 *)
KeptInv ==
  file # Torn /\ starts > 0 =>
    \A s \in Setting \ {"time_formatter"} : Load(file)[s] = kept[s]

IInv == TypeOK /\ KeysInv /\ KeptInv

TypeOfSettings(v) == DOMAIN v = Setting /\ \A s \in Setting : v[s] \in Values(s)

-----------------------------------------------------------------------------
(* The names of the settings.                                              *)

LEMMA Kinds ==
  /\ \A s \in FlagSetting : s \in Setting /\ s \notin KeySetting /\ Values(s) = BOOLEAN
  /\ \A s \in TextSetting : s \in Setting /\ s \notin KeySetting /\ Values(s) = Text
  /\ \A s \in KeySetting : s \in Setting /\ Values(s) = Key
  /\ \A s \in ColorSetting : s \in Setting /\ s \notin KeySetting /\ Values(s) = Color
  /\ \A s \in SetSetting : s \in Setting /\ s \notin KeySetting /\ Values(s) = SettingsSet
  /\ "additional_boss_ids" \in Setting /\ "additional_boss_ids" \notin KeySetting
  /\ Values("additional_boss_ids") = SUBSET BossId
BY DEF Setting, FlagSetting, OnByDefault, TextSetting, KeySetting, ColorSetting,
       TimerColor, SegmentColor, SetSetting, Values

LEMMA KindsAreApart ==
  /\ \A s \in TextSetting : s \notin FlagSetting
  /\ \A s \in KeySetting : s \notin FlagSetting /\ s \notin TextSetting
  /\ \A s \in ColorSetting :
       s \notin FlagSetting /\ s \notin TextSetting /\ s \notin KeySetting
  /\ \A s \in SetSetting :
       /\ s \notin FlagSetting /\ s \notin TextSetting /\ s \notin KeySetting
       /\ s \notin ColorSetting
  /\ "additional_boss_ids" \notin FlagSetting /\ "additional_boss_ids" \notin TextSetting
  /\ "additional_boss_ids" \notin KeySetting /\ "additional_boss_ids" \notin ColorSetting
  /\ "additional_boss_ids" \notin SetSetting
BY DEF FlagSetting, OnByDefault, TextSetting, KeySetting, ColorSetting, TimerColor,
       SegmentColor, SetSetting

LEMMA DefaultType == TypeOfSettings(Default)
<1>1. ASSUME NEW s \in Setting PROVE Default[s] \in Values(s)
  <2>1. CASE s \in FlagSetting
    <3>1. Default[s] = (s \in OnByDefault)
      BY <2>1, KindsAreApart DEF Default
    <3>2. (s \in OnByDefault) \in BOOLEAN
      OBVIOUS
    <3> QED
      BY <2>1, <3>1, <3>2, Kinds
  <2>2. CASE s \in TextSetting
    <3>1. Default[s] = NoText
      BY <2>2, KindsAreApart DEF Default
    <3> QED
      BY <2>2, <3>1, Kinds, DefaultsAssumption
  <2>3. CASE s \in KeySetting
    <3>1. Default[s] = NoKey
      BY <2>3, KindsAreApart DEF Default
    <3> QED
      BY <2>3, <3>1, Kinds, DefaultsAssumption
  <2>4. CASE s \in ColorSetting
    <3>1. Default[s] = Grey
      BY <2>4, KindsAreApart DEF Default
    <3> QED
      BY <2>4, <3>1, Kinds, DefaultsAssumption
  <2>5. CASE s \in SetSetting
    <3> DEFINE d == [is_enabled |-> TRUE, auto_prepare |-> s = "dungeon_fractal_settings",
                     auto_stop |-> TRUE, early_gg_threshold |-> 10]
    <3>1. Default[s] = d
      BY <2>5, KindsAreApart DEF Default
    <3>2. (s = "dungeon_fractal_settings") \in BOOLEAN
      OBVIOUS
    <3>3. d \in SettingsSet
      BY <3>2, DefaultsAssumption, Zenon DEF SettingsSet
    <3> QED
      BY <2>5, <3>1, <3>3, Kinds
  <2>6. CASE s = "additional_boss_ids"
    <3>1. Default[s] = {}
      BY <2>6, KindsAreApart DEF Default, Setting
    <3> QED
      BY <2>6, <3>1, Kinds
  <2> QED
    BY <2>1, <2>2, <2>3, <2>4, <2>5, <2>6 DEF Setting
<1> QED
  BY <1>1 DEF TypeOfSettings, Default

LEMMA LoadType == ASSUME NEW f, WellTyped(f) PROVE TypeOfSettings(Load(f))
<1>1. ASSUME NEW s \in Setting PROVE Load(f)[s] \in Values(s)
  BY DefaultType DEF Load, WellTyped, TypeOfSettings
<1> QED
  BY <1>1 DEF TypeOfSettings, Load

(* What is written is read again, but for the one name that differs.       *)
LEMMA SavedIsRead ==
  ASSUME NEW v, TypeOfSettings(v)
  PROVE  /\ WellTyped(Save(v)) /\ Save(v) # Torn /\ Save(v).version \in Nat
         /\ \A s \in Setting \ {"time_formatter"} : Load(Save(v))[s] = v[s]
<1>1. \A s \in Setting, r \in Setting : WrittenAs(s) = WrittenAs(r) => s = r
  <2>1. "timer_formatter" \notin Setting
    BY DEF Setting, FlagSetting, OnByDefault, TextSetting, KeySetting, ColorSetting,
           TimerColor, SegmentColor, SetSetting
  <2> QED
    BY <2>1 DEF WrittenAs
<1>2. /\ Save(v).version = 11
      /\ DOMAIN Save(v).stored = {WrittenAs(s) : s \in Setting}
      /\ \A s \in Setting : Save(v).stored[WrittenAs(s)] = v[s]
  <2>1. ASSUME NEW s \in Setting
        PROVE  (CHOOSE r \in Setting : WrittenAs(r) = WrittenAs(s)) = s
    BY <1>1
  <2> QED
    BY <2>1 DEF Save, CurrentVersion
<1>3. "timer_formatter" \notin Setting
  BY DEF Setting, FlagSetting, OnByDefault, TextSetting, KeySetting, ColorSetting,
         TimerColor, SegmentColor, SetSetting
<1>4. \A s \in Setting \ {"time_formatter"} :
        s \in DOMAIN Save(v).stored /\ Save(v).stored[s] = v[s]
  BY <1>2 DEF WrittenAs
<1>5. \A s \in DOMAIN Save(v).stored \cap Setting : s # "time_formatter"
  BY <1>2, <1>3 DEF WrittenAs
<1> HIDE DEF Save
<1>6. WellTyped(Save(v))
  BY <1>4, <1>5 DEF WellTyped, TypeOfSettings
<1>7. Save(v) # Torn
  BY <1>2 DEF Torn
<1>8. \A s \in Setting \ {"time_formatter"} : Load(Save(v))[s] = v[s]
  BY <1>2, <1>4 DEF Load, Usable, CurrentVersion
<1> QED
  BY <1>2, <1>6, <1>7, <1>8

-----------------------------------------------------------------------------

LEMMA InitIInv == Init => IInv
<1> SUFFICES ASSUME Init PROVE IInv
  OBVIOUS
<1>1. file.version \in Nat /\ WellTyped(file)
  <2>1. CASE file \in Found
    BY <2>1, FoundAssumption
  <2>2. CASE file = NoFile
    BY <2>2 DEF NoFile, WellTyped
  <2> QED
    BY <2>1, <2>2 DEF Init
<1>2. TypeOK
  <2>1. handler_key \in [KeySetting -> Key]
    BY DefaultsAssumption DEF Init
  <2> QED
    BY <1>1, <2>1, DefaultType DEF Init, TypeOK, TypeOfSettings
<1>3. KeysInv /\ KeptInv
  BY DEF Init, KeysInv, HandlersFollowKeys, KeptInv
<1> QED
  BY <1>2, <1>3 DEF IInv

LEMMA StartIInv == ASSUME IInv, Start PROVE IInv'
<1>1. WellTyped(file) /\ file.version \in Nat
  BY DEF IInv, TypeOK, Start
<1>2. TypeOfSettings(settings') /\ settings' = Load(file)
  BY <1>1, LoadType DEF Start
<1>3. TypeOK'
  <2>1. handler_key' \in [KeySetting -> Key]
    BY <1>2, Kinds DEF Start, TypeOfSettings
  <2>2. TypeOfSettings(kept')
    BY <1>2 DEF Start, IInv, TypeOK, TypeOfSettings
  <2>3. file' = file /\ saving' = saving /\ popup' = popup /\ edits' = edits
    BY DEF Start
  <2>4. running' = TRUE /\ boss_id_selected' = -1 /\ starts' = starts + 1
    BY DEF Start
  <2> QED
    BY <1>1, <1>2, <2>1, <2>2, <2>3, <2>4 DEF IInv, TypeOK, TypeOfSettings, WellTyped
<1>4. KeysInv'
  BY Kinds DEF KeysInv, HandlersFollowKeys, Start
<1>5. KeptInv'
  <2>1. file' = file
    BY DEF Start
  <2>2. CASE starts = 0
    BY <1>2, <2>1, <2>2 DEF KeptInv, Start, Load, Usable
  <2>3. CASE starts # 0
    BY <2>1, <2>3 DEF IInv, TypeOK, KeptInv, Start, Load, Usable
  <2> QED
    BY <2>2, <2>3
<1> QED
  BY <1>3, <1>4, <1>5 DEF IInv

LEMMA WriteFileIInv == ASSUME IInv, WriteFile PROVE IInv'
<1>1. TypeOfSettings(settings)
  BY DEF IInv, TypeOK, TypeOfSettings
<1>2. /\ file' = Save(settings) /\ kept' = settings /\ settings' = Default
      /\ running' = FALSE /\ saving' = FALSE /\ popup' = NoPopup
      /\ UNCHANGED <<boss_id_selected, handler_key, starts, edits>>
  BY DEF WriteFile, Stopped
<1>3. TypeOK'
  <2>1. file'.version \in Nat /\ WellTyped(file')
    BY <1>1, <1>2, SavedIsRead
  <2> QED
    BY <1>1, <1>2, <2>1, DefaultType DEF IInv, TypeOK, TypeOfSettings, WellTyped
<1>4. KeysInv'
  BY <1>2 DEF KeysInv, HandlersFollowKeys
<1>5. KeptInv'
  <2>1. \A s \in Setting \ {"time_formatter"} : Load(file')[s] = settings[s]
    BY <1>1, <1>2, SavedIsRead
  <2>2. Load(file)' = Load(file')
    BY DEF Load, Usable
  <2> QED
    BY <1>2, <2>1, <2>2 DEF KeptInv
<1> QED
  BY <1>3, <1>4, <1>5 DEF IInv

LEMMA CrashIInv == ASSUME IInv, Crash PROVE IInv'
<1>1. /\ settings' = Default /\ running' = FALSE /\ saving' = FALSE /\ popup' = NoPopup
      /\ UNCHANGED <<file, boss_id_selected, handler_key, starts, edits, kept>>
  BY DEF Crash, Stopped
<1>2. TypeOK'
  BY <1>1, DefaultType DEF IInv, TypeOK, TypeOfSettings, WellTyped
<1>3. KeysInv' /\ KeptInv'
  BY <1>1 DEF IInv, KeysInv, HandlersFollowKeys, KeptInv, Load, Usable
<1> QED
  BY <1>2, <1>3 DEF IInv

LEMMA OpenFileIInv == ASSUME IInv, OpenFile PROVE IInv'
<1>1. /\ file' = Torn /\ saving' = TRUE /\ popup' = NoPopup
      /\ UNCHANGED <<running, settings, boss_id_selected, handler_key, starts, edits, kept>>
  BY DEF OpenFile
<1>2. TypeOK'
  BY <1>1 DEF IInv, TypeOK
<1>3. KeysInv' /\ KeptInv'
  BY <1>1 DEF IInv, KeysInv, HandlersFollowKeys, KeptInv
<1> QED
  BY <1>2, <1>3 DEF IInv

(* A control changes one setting; a key changes with its handler.          *)
LEMMA SetIInv ==
  ASSUME IInv, NEW s \in Setting, NEW value \in Values(s), Set(s, value),
         UNCHANGED <<file, running, saving, starts, kept>>,
         \/ s \notin KeySetting /\ UNCHANGED handler_key
         \/ s \in KeySetting /\ handler_key' = [handler_key EXCEPT ![s] = value],
         boss_id_selected' \in BossId \cup {-1}, popup' \in ColorSetting \cup {NoPopup},
         edits' \in Nat
  PROVE  IInv'
<1>1. /\ DOMAIN settings' = Setting /\ settings'[s] = value
      /\ \A r \in Setting : r # s => settings'[r] = settings[r]
  BY DEF IInv, TypeOK, Set
<1>2. TypeOK'
  <2>1. handler_key' \in [KeySetting -> Key]
    BY Kinds DEF IInv, TypeOK
  <2>2. \A r \in Setting : settings'[r] \in Values(r)
    BY <1>1 DEF IInv, TypeOK
  <2> QED
    BY <1>1, <2>1, <2>2 DEF IInv, TypeOK, WellTyped
<1>3. KeysInv'
  <2> SUFFICES ASSUME running, NEW r \in KeySetting PROVE handler_key'[r] = settings'[r]
    BY DEF KeysInv, HandlersFollowKeys
  <2>1. handler_key[r] = settings[r] /\ r \in Setting
    BY Kinds DEF IInv, KeysInv, HandlersFollowKeys
  <2> QED
    BY <1>1, <2>1 DEF IInv, TypeOK
<1>4. KeptInv'
  BY DEF IInv, KeptInv, Load, Usable
<1> QED
  BY <1>2, <1>3, <1>4 DEF IInv

LEMMA UsingFacts ==
  ASSUME IInv, Using
  PROVE  edits' \in Nat /\ UNCHANGED <<file, running, saving, starts, kept>>
BY DEF IInv, TypeOK, Using

LEMMA CheckboxIInv == ASSUME IInv, NEW s \in FlagSetting, Checkbox(s) PROVE IInv'
<1>1. s \in Setting /\ s \notin KeySetting /\ Values(s) = BOOLEAN
  BY Kinds
<1>2. (~ settings[s]) \in BOOLEAN
  OBVIOUS
<1>3. (~ settings[s]) \in Values(s)
  BY <1>1, <1>2
<1>4. /\ Set(s, ~ settings[s]) /\ edits' \in Nat
      /\ UNCHANGED <<file, running, saving, starts, kept>>
      /\ UNCHANGED <<boss_id_selected, handler_key, popup>>
  BY UsingFacts DEF Checkbox
<1>5. boss_id_selected' \in BossId \cup {-1} /\ popup' \in ColorSetting \cup {NoPopup}
  BY <1>4 DEF IInv, TypeOK
<1> QED
  BY <1>1, <1>3, <1>4, <1>5, SetIInv

LEMMA InputTextIInv == ASSUME IInv, NEW s \in TextSetting, InputText(s) PROVE IInv'
<1>1. s \in Setting /\ s \notin KeySetting /\ Values(s) = Text
  BY Kinds
<1>2. PICK text \in Text : Set(s, text)
  BY DEF InputText
<1>3. /\ edits' \in Nat /\ UNCHANGED <<file, running, saving, starts, kept>>
      /\ UNCHANGED <<boss_id_selected, handler_key, popup>>
  BY UsingFacts DEF InputText
<1>4. boss_id_selected' \in BossId \cup {-1} /\ popup' \in ColorSetting \cup {NoPopup}
  BY <1>3 DEF IInv, TypeOK
<1> QED
  BY <1>1, <1>2, <1>3, <1>4, SetIInv

LEMMA KeyCodeInputIInv == ASSUME IInv, NEW s \in KeySetting, KeyCodeInput(s) PROVE IInv'
<1>1. s \in Setting /\ Values(s) = Key
  BY Kinds
<1>2. PICK key \in Key : Set(s, key) /\ handler_key' = [handler_key EXCEPT ![s] = key]
  BY DEF KeyCodeInput, UpdateKey
<1>3. /\ edits' \in Nat /\ UNCHANGED <<file, running, saving, starts, kept>>
      /\ UNCHANGED <<boss_id_selected, popup>>
  BY UsingFacts DEF KeyCodeInput
<1>4. boss_id_selected' \in BossId \cup {-1} /\ popup' \in ColorSetting \cup {NoPopup}
  BY <1>3 DEF IInv, TypeOK
<1> QED
  BY <1>1, <1>2, <1>3, <1>4, SetIInv

(* One field of the settings of a kind of content changes.                 *)
LEMMA InputSetFacts ==
  ASSUME IInv, NEW s \in SetSetting, InputSet(s)
  PROVE  \E value \in SettingsSet : Set(s, value)
<1>1. settings[s] \in SettingsSet
  BY Kinds DEF IInv, TypeOK
<1>2. CASE \E flag \in {"is_enabled", "auto_prepare", "auto_stop"} :
             Set(s, [settings[s] EXCEPT ![flag] = ~ @])
  <2>1. PICK flag \in {"is_enabled", "auto_prepare", "auto_stop"} :
          Set(s, [settings[s] EXCEPT ![flag] = ~ settings[s][flag]])
    BY <1>2
  <2>2. (~ settings[s][flag]) \in BOOLEAN
    OBVIOUS
  <2>3. [settings[s] EXCEPT ![flag] = ~ settings[s][flag]] \in SettingsSet
    BY <1>1, <2>1, <2>2 DEF SettingsSet
  <2> QED
    BY <2>1, <2>3
<1>3. CASE \E t \in Threshold : Set(s, [settings[s] EXCEPT !.early_gg_threshold = t])
  <2>1. PICK t \in Threshold : Set(s, [settings[s] EXCEPT !.early_gg_threshold = t])
    BY <1>3
  <2>2. [settings[s] EXCEPT !.early_gg_threshold = t] \in SettingsSet
    BY <1>1 DEF SettingsSet
  <2> QED
    BY <2>1, <2>2
<1> QED
  BY <1>2, <1>3 DEF InputSet

LEMMA InputSetIInv == ASSUME IInv, NEW s \in SetSetting, InputSet(s) PROVE IInv'
<1>1. s \in Setting /\ s \notin KeySetting /\ Values(s) = SettingsSet
  BY Kinds
<1>2. PICK value \in SettingsSet : Set(s, value)
  BY InputSetFacts
<1>3. /\ edits' \in Nat /\ UNCHANGED <<file, running, saving, starts, kept>>
      /\ UNCHANGED <<boss_id_selected, handler_key, popup>>
  BY UsingFacts DEF InputSet
<1>4. boss_id_selected' \in BossId \cup {-1} /\ popup' \in ColorSetting \cup {NoPopup}
  BY <1>3 DEF IInv, TypeOK
<1> QED
  BY <1>1, <1>2, <1>3, <1>4, SetIInv

LEMMA BossIdsIInv ==
  ASSUME IInv, ButtonRemove \/ \E id \in BossId : Selectable(id) \/ ButtonAdd(id)
  PROVE  IInv'
<1>1. /\ "additional_boss_ids" \in Setting /\ "additional_boss_ids" \notin KeySetting
      /\ Values("additional_boss_ids") = SUBSET BossId
      /\ settings["additional_boss_ids"] \subseteq BossId
  BY Kinds DEF IInv, TypeOK
<1>2. ASSUME NEW id \in BossId, Selectable(id) PROVE IInv'
  <2>1. /\ UNCHANGED <<file, running, saving, starts, kept, settings, handler_key, popup>>
        /\ edits' \in Nat /\ boss_id_selected' \in BossId \cup {-1}
    BY <1>2, UsingFacts DEF Selectable
  <2> QED
    BY <2>1 DEF IInv, TypeOK, WellTyped, KeysInv, HandlersFollowKeys, KeptInv, Load, Usable
<1>3. CASE ButtonRemove \/ \E id \in BossId : ButtonAdd(id)
  <2>1. PICK value \in SUBSET BossId : Set("additional_boss_ids", value)
    BY <1>1, <1>3 DEF ButtonAdd, ButtonRemove
  <2>2. /\ edits' \in Nat /\ UNCHANGED <<file, running, saving, starts, kept>>
        /\ UNCHANGED <<boss_id_selected, handler_key, popup>>
    BY <1>3, UsingFacts DEF ButtonAdd, ButtonRemove
  <2>3. boss_id_selected' \in BossId \cup {-1} /\ popup' \in ColorSetting \cup {NoPopup}
    BY <2>2 DEF IInv, TypeOK
  <2> QED
    BY <1>1, <2>1, <2>2, <2>3, SetIInv
<1> QED
  BY <1>2, <1>3

LEMMA PopupIInv ==
  ASSUME IInv,
         \/ \E s \in ColorSetting : OpenPopup(s)
         \/ PopupFrame \/ ClosePopup
         \/ \E color \in Color : PickColor(color)
  PROVE  IInv'
<1>1. CASE ClosePopup \/ \E s \in ColorSetting : OpenPopup(s)
  <2>1. /\ UNCHANGED <<file, running, saving, settings, boss_id_selected, handler_key,
                       starts, edits, kept>>
        /\ popup' \in ColorSetting \cup {NoPopup}
    BY <1>1 DEF ClosePopup, OpenPopup
  <2> QED
    BY <2>1 DEF IInv, TypeOK, WellTyped, KeysInv, HandlersFollowKeys, KeptInv, Load, Usable
<1>2. CASE PopupFrame \/ \E color \in Color : PickColor(color)
  <2>1. popup \in ColorSetting
    BY <1>2 DEF PopupFrame, PickColor, IInv, TypeOK
  <2>2. popup \in Setting /\ popup \notin KeySetting /\ Values(popup) = Color
    BY <2>1, Kinds
  <2>3. settings["start_button_color"] \in Color
    <3>1. "start_button_color" \in ColorSetting
      BY DEF ColorSetting, TimerColor
    <3> QED
      BY <3>1, Kinds DEF IInv, TypeOK
  <2>4. PICK color \in Color : Set(popup, color)
    BY <1>2, <2>3 DEF PopupFrame, PickColor
  <2>5. /\ edits' \in Nat /\ UNCHANGED <<file, running, saving, starts, kept>>
        /\ UNCHANGED <<boss_id_selected, handler_key, popup>>
    BY <1>2, UsingFacts DEF PopupFrame, PickColor, IInv, TypeOK
  <2>6. boss_id_selected' \in BossId \cup {-1} /\ popup' \in ColorSetting \cup {NoPopup}
    BY <2>5 DEF IInv, TypeOK
  <2> QED
    BY <2>2, <2>4, <2>5, <2>6, SetIInv
<1> QED
  BY <1>1, <1>2

LEMMA NextIInv == IInv /\ [Next]_vars => IInv'
<1> SUFFICES ASSUME IInv, [Next]_vars PROVE IInv'
  OBVIOUS
<1>1. CASE Start \/ OpenFile \/ WriteFile \/ Crash
  BY <1>1, StartIInv, OpenFileIInv, WriteFileIInv, CrashIInv
<1>2. CASE \/ \E s \in FlagSetting : Checkbox(s)
           \/ \E s \in TextSetting : InputText(s)
           \/ \E s \in KeySetting : KeyCodeInput(s)
           \/ \E s \in SetSetting : InputSet(s)
  BY <1>2, CheckboxIInv, InputTextIInv, KeyCodeInputIInv, InputSetIInv
<1>3. CASE ButtonRemove \/ \E id \in BossId : Selectable(id) \/ ButtonAdd(id)
  BY <1>3, BossIdsIInv
<1>4. CASE \/ \E s \in ColorSetting : OpenPopup(s)
           \/ PopupFrame \/ ClosePopup
           \/ \E color \in Color : PickColor(color)
  BY <1>4, PopupIInv
<1>5. CASE UNCHANGED vars
  BY <1>5 DEF vars, IInv, TypeOK, WellTyped, KeysInv, HandlersFollowKeys, KeptInv, Load,
              Usable
<1> QED
  BY <1>1, <1>2, <1>3, <1>4, <1>5 DEF Next

THEOREM Invariance == Spec => []IInv
BY InitIInv, NextIInv, PTL DEF Spec

-----------------------------------------------------------------------------

(* Every setting has a value of its own kind, whatever is entered and      *)
(* whichever file an earlier version left.  (settings.cpp)                 *)
THEOREM TypeCorrect == Spec => []TypeOK
<1>1. IInv => TypeOK
  BY DEF IInv
<1> QED
  BY <1>1, Invariance, PTL

(* A handler waits for the key that the settings show, after any starts    *)
(* and changes.  (settings.cpp:174-192, mod.cpp:97-145)                    *)
THEOREM HandlersHaveTheKeys == Spec => []HandlersFollowKeys
<1>1. IInv => HandlersFollowKeys
  BY DEF IInv, KeysInv
<1> QED
  BY <1>1, Invariance, PTL

(* A start finds all settings as the last unload left them, but for the    *)
(* time formatter, for any number of crashes in between.                   *)
(* (settings.cpp:24-68 beside 71-106)                                      *)
THEOREM SettingsAreKept == Spec => SettingsSurvive
<1>1. IInv /\ [Next]_vars =>
        [Start /\ starts > 0 =>
           \A s \in Setting \ {"time_formatter"} : settings'[s] = kept[s]]_vars
  BY DEF IInv, KeptInv, Start
<1> QED
  BY <1>1, Invariance, PTL DEF Spec, SettingsSurvive

-----------------------------------------------------------------------------
(* The type of a map decides which settings are read at it.                *)

LEMMA TypeIsOfTab ==
  ASSUME NEW id
  PROVE  /\ get_instance_type(id) \in {"Dungeon", "Fractal"} =>
              TabOf(id) = "dungeon_fractal_settings"
         /\ get_instance_type(id) = "Raid" => TabOf(id) = "raid_settings"
         /\ get_instance_type(id) = "Strike" => TabOf(id) = "strike_settings"
         /\ get_instance_type(id) \in {"Dungeon", "Fractal", "Raid", "Strike", "Unknown"}
<1>1. /\ id \in Raids => id \notin Fractals /\ id \notin Dungeons /\ id \notin Strikes
      /\ id \in Strikes => id \notin Fractals /\ id \notin Dungeons
      /\ id \in Dungeons => id \notin Fractals
  BY DEF Raids, Fractals, Dungeons, Strikes
<1> QED
  BY <1>1 DEF get_instance_type, TabOf, Nightmare

(* A change of the settings of one kind of content does not matter to the  *)
(* others, for any maps.  (settings.cpp:412-424 beside                     *)
(* maptracker.cpp:72-137)                                                  *)
THEOREM TabsDoNotMix == Spec => TabsAreSeparate
<1>1. ASSUME IInv, NEW s \in SetSetting, InputSet(s), NEW place \in Place,
             TabOf(place.tracked) # s
      PROVE  Decisions(place)' = Decisions(place)
  <2>1. PICK value : settings' = [settings EXCEPT ![s] = value]
    BY <1>1, InputSetFacts DEF Set
  <2>2. \A r \in Setting : r # s => settings'[r] = settings[r]
    BY <2>1 DEF IInv, TypeOK
  <2>3. /\ settings'["disable_outside_instances"] = settings["disable_outside_instances"]
        /\ settings'["disable_in_fractal_lobby"] = settings["disable_in_fractal_lobby"]
        /\ settings'["auto_prepare"] = settings["auto_prepare"]
        /\ settings'["auto_stop"] = settings["auto_stop"]
    BY <2>2, KindsAreApart, Kinds DEF FlagSetting, OnByDefault
  <2>4. HasSet(place) => get_current_set(place)' = get_current_set(place)
    <3>1. {"dungeon_fractal_settings", "raid_settings", "strike_settings"} \subseteq Setting
      BY DEF Setting, SetSetting
    <3> QED
      BY <1>1, <2>2, <3>1, TypeIsOfTab DEF HasSet, get_current_set
  <2>5. /\ is_enabled(place)' = is_enabled(place)
        /\ should_autoprepare(place)' = should_autoprepare(place)
        /\ should_autostop(place)' = should_autostop(place)
        /\ get_early_gg_threshold(place)' = get_early_gg_threshold(place)
    BY <2>3, <2>4 DEF is_enabled, should_autoprepare, should_autostop,
                      get_early_gg_threshold, InDisabledLobby, HasSet
  <2> QED
    BY <2>5 DEF Decisions
<1>2. IInv => [\A s \in SetSetting :
                 InputSet(s) =>
                   \A place \in Place :
                     TabOf(place.tracked) # s => Decisions(place)' = Decisions(place)]_vars
  BY <1>1
<1> QED
  BY <1>2, Invariance, PTL DEF TabsAreSeparate

=============================================================================
