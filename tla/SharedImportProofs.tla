------------------------- MODULE SharedImportProofs -------------------------
(***************************************************************************)
(* When the share sheet and the import take turns, SharedImport implements *)
(* ShareInbox: for any items and any number of process ends, nothing is    *)
(* dropped or imported twice, and the row the user sees is honest.         *)
(***************************************************************************)
EXTENDS SharedImport, FiniteSetTheorems, SequenceTheorems, TLAPS

\* Whoever has read the queue and not written it yet has read what is there.
TurnsInv ==
    /\ \A i \in Item : sheet[i].at = "read" => sheet[i].items = queue
    /\ \A i, j \in Item : sheet[i].at = "read" /\ sheet[j].at = "read" => i = j
    /\ job.at = "decoded" => job.items = queue /\ \A i \in Item : sheet[i].at # "read"

\* An item is in one place: not shared, in the queue, in one closure, or
\* imported once.
OnceInv ==
    /\ \A i \in Item : imported[i] \in {0, 1}
    /\ \A i \in Item : sheet[i].at # "saved" => i \notin Queued \cup InTransit /\ imported[i] = 0
    /\ \A i \in Queued \cup InTransit : imported[i] = 0
    /\ Queued \cap InTransit = {}
    /\ \A m, n \in DOMAIN mainQueue :
          m # n => mainQueue[m].items \cap mainQueue[n].items = {}

\* What the row will show last is no more than what is queued.
RowInv ==
    /\ mainQueue = <<>> => pendingCount <= Len(queue)
    /\ mainQueue # <<>> => mainQueue[Len(mainQueue)].count <= Len(queue)
    /\ \A n \in DOMAIN mainQueue : mainQueue[n].error => mainQueue[n].count > 0
    /\ lastError => pendingCount > 0

Inv == TypeOK /\ TurnsInv /\ OnceInv /\ RowInv

-----------------------------------------------------------------------------
(* Failures.                                                               *)

\* Counting through a set of numbers meets each of them.
LEMMA NthMeetsAll ==
    ASSUME NEW N \in Nat, NEW S \in SUBSET (1..N)
    PROVE  /\ Cardinality(S) \in Nat
           /\ \A k \in 1..Cardinality(S) : Nth(S, k) \in S
           /\ \A n \in S : \E k \in 1..Cardinality(S) : Nth(S, k) = n
<1> DEFINE below(n) == {m \in S : m < n}
<1> DEFINE f == [n \in S |-> Cardinality(below(n))]
<1> DEFINE T == 0..Cardinality(S) - 1
<1>1. IsFiniteSet(S) /\ Cardinality(S) \in Nat
  <2>1. IsFiniteSet(1..N)
    BY FS_Interval
  <2>2. IsFiniteSet(S)
    BY <2>1, FS_Subset
  <2> QED
    BY <2>2, FS_CardinalityType
<1>2. ASSUME NEW n \in S
      PROVE  IsFiniteSet(below(n)) /\ Cardinality(below(n)) \in T
  <2>1. below(n) \in SUBSET S /\ below(n) # S
    OBVIOUS
  <2>2. IsFiniteSet(below(n)) /\ Cardinality(below(n)) \in Nat
    BY <1>1, <2>1, FS_Subset, FS_CardinalityType
  <2>3. Cardinality(below(n)) <= Cardinality(S) /\ Cardinality(below(n)) # Cardinality(S)
    BY <1>1, <2>1, FS_Subset
  <2> QED
    BY <1>1, <2>2, <2>3
<1>3. ASSUME NEW m \in S, NEW n \in S, m < n
      PROVE  f[m] # f[n]
  <2>a. m \in Nat /\ n \in Nat /\ \A x \in S : x \in Nat
    OBVIOUS
  <2>b. ASSUME NEW x \in below(m) PROVE x \in below(n)
    <3>1. x \in S /\ x \in Nat /\ x < m
      BY <2>a
    <3>2. x < n
      BY <1>3, <2>a, <3>1
    <3> QED
      BY <3>1, <3>2
  <2>c. m \in below(n)
    BY <1>3
  <2>d. ~(m < m)
    BY <2>a
  <2>1. below(m) \in SUBSET below(n) /\ m \in below(n) /\ m \notin below(m)
    BY <2>b, <2>c, <2>d
  <2>2. Cardinality(below(m)) # Cardinality(below(n))
    BY <1>2, <2>1, FS_Subset
  <2> QED
    BY <2>2
<1>4. f \in Injection(S, T)
  <2>1. f \in [S -> T]
    BY <1>2
  <2>2. \A m, n \in S : m # n => m < n \/ n < m
    OBVIOUS
  <2>3. IsInjective(f)
    BY <1>3, <2>2 DEF IsInjective
  <2> QED
    BY <2>1, <2>3 DEF Injection
<1>5. IsFiniteSet(T) /\ Cardinality(T) = Cardinality(S)
  BY <1>1, FS_Interval
<1>6. f \in Surjection(S, T)
  BY <1>4, <1>5, FS_Injection
<1>7. ASSUME NEW k \in 1..Cardinality(S) PROVE Nth(S, k) \in S
  <2>1. k - 1 \in T
    BY <1>1
  <2>2. \E n \in S : f[n] = k - 1
    BY <1>6, <2>1 DEF Surjection
  <2> QED
    BY <2>2 DEF Nth
<1>8. ASSUME NEW n \in S PROVE \E k \in 1..Cardinality(S) : Nth(S, k) = n
  <2> DEFINE k == f[n] + 1
  <2>1. k \in 1..Cardinality(S) /\ k - 1 = f[n]
    BY <1>1, <1>2
  <2>2. \A m \in S : f[m] = f[n] => m = n
    BY <1>4 DEF Injection, IsInjective
  <2>3. \A m \in S : Cardinality({x \in S : x < m}) = f[m]
    OBVIOUS
  <2> HIDE DEF f
  <2>4. Nth(S, k) = n
    BY <2>1, <2>2, <2>3 DEF Nth
  <2> QED
    BY <2>1, <2>4
<1> QED
  BY <1>1, <1>7, <1>8

Ids(items) == {items[n].id : n \in DOMAIN items}

\* Retained are the items that cannot be converted, imported are all others.
LEMMA FailuresType ==
    ASSUME NEW items \in Seq(Entry)
    PROVE  /\ Failures(items) \in Seq(Entry)
           /\ Ids(Failures(items)) = Ids(items) \cap Bad
           /\ Ids(items) = Ids(Failures(items)) \cup Conversions(items)
           /\ Ids(Failures(items)) \cap Conversions(items) = {}
<1> DEFINE S == BadAt(items)
<1> DEFINE N == Cardinality(S)
<1>1. Len(items) \in Nat /\ S \in SUBSET (1..Len(items))
  BY LenProperties DEF BadAt
<1>2. N \in Nat /\ (\A k \in 1..N : Nth(S, k) \in S)
      /\ (\A n \in S : \E k \in 1..N : Nth(S, k) = n)
  BY <1>1, NthMeetsAll
<1>3. DOMAIN items = 1..Len(items) /\ \A n \in DOMAIN items : items[n] \in Entry
  BY LenProperties
<1>4. ASSUME NEW k \in 1..N
      PROVE  /\ [items[Nth(S, k)] EXCEPT !.failed = TRUE] \in Entry
             /\ [items[Nth(S, k)] EXCEPT !.failed = TRUE].id = items[Nth(S, k)].id
  <2>1. items[Nth(S, k)] \in Entry
    BY <1>1, <1>2, <1>3
  <2> QED
    BY <2>1 DEF Entry
<1>5. Failures(items) = [k \in 1..N |-> [items[Nth(S, k)] EXCEPT !.failed = TRUE]]
  BY DEF Failures
<1>6. Failures(items) \in Seq(Entry) /\ DOMAIN Failures(items) = 1..N
  BY <1>2, <1>4, <1>5
<1>7. \A k \in 1..N : Failures(items)[k].id = items[Nth(S, k)].id
  BY <1>4, <1>5
<1>8. \A n \in S : n \in DOMAIN items /\ items[n].id \in Bad
  BY DEF BadAt
<1>9. \A n \in DOMAIN items : items[n].id \in Bad => n \in S
  BY DEF BadAt
<1> HIDE DEF S, N
<1>10. Ids(Failures(items)) = Ids(items) \cap Bad
  <2>1. Ids(Failures(items)) \subseteq Ids(items) \cap Bad
    BY <1>2, <1>6, <1>7, <1>8 DEF Ids
  <2>2. ASSUME NEW n \in DOMAIN items, items[n].id \in Bad
        PROVE  items[n].id \in Ids(Failures(items))
    <3>1. PICK k \in 1..N : Nth(S, k) = n
      BY <1>2, <1>9, <2>2
    <3> QED
      BY <1>6, <1>7, <3>1 DEF Ids
  <2> QED
    BY <2>1, <2>2 DEF Ids
<1>11. Conversions(items) = Ids(items) \ Bad
  BY DEF Conversions, Ids
<1> QED
  BY <1>6, <1>10, <1>11

-----------------------------------------------------------------------------
(* The queue and the closures.                                             *)

\* A saved item is appended to the queue.
LEMMA ShareAppends ==
    ASSUME NEW i \in Item, queue \in Seq(Entry),
           queue' = Append(queue, [id |-> i, failed |-> FALSE])
    PROVE  /\ queue' \in Seq(Entry)
           /\ Len(queue') = Len(queue) + 1
           /\ Queued' = Queued \cup {i}
<1> DEFINE e == [id |-> i, failed |-> FALSE]
<1>1. e \in Entry /\ e.id = i
  BY DEF Entry
<1> HIDE DEF e
<1>2. queue' = Append(queue, e)
  BY DEF e
<1>3. queue' \in Seq(Entry)
  BY <1>1, <1>2, AppendProperties
<1>4. Len(queue') = Len(queue) + 1
  BY <1>1, <1>2, AppendProperties
<1>5. \A n \in 1..Len(queue) : queue'[n] = queue[n]
  BY <1>1, <1>2, AppendProperties
<1>6. queue'[Len(queue) + 1] = e
  BY <1>1, <1>2, AppendProperties
<1>7. Len(queue) \in Nat /\ DOMAIN queue = 1..Len(queue) /\ DOMAIN queue' = 1..Len(queue')
  BY <1>3, LenProperties
<1>8. DOMAIN queue' = DOMAIN queue \cup {Len(queue) + 1}
  BY <1>4, <1>7
<1>9. Queued' = Queued \cup {i}
  BY <1>1, <1>5, <1>6, <1>7, <1>8 DEF Queued
<1> QED
  BY <1>3, <1>4, <1>9

\* A closure is appended to the main queue, with its items in transit.
LEMMA DispatchAppends ==
    ASSUME NEW c \in Closure, mainQueue \in Seq(Closure), Dispatch(c)
    PROVE  /\ mainQueue' \in Seq(Closure) /\ mainQueue' # <<>>
           /\ DOMAIN mainQueue' = DOMAIN mainQueue \cup {Len(mainQueue')}
           /\ Len(mainQueue') \notin DOMAIN mainQueue
           /\ mainQueue'[Len(mainQueue')] = c
           /\ \A n \in DOMAIN mainQueue : mainQueue'[n] = mainQueue[n]
           /\ InTransit' = InTransit \cup c.items
<1>0. mainQueue' = Append(mainQueue, c)
  BY DEF Dispatch
<1>1. mainQueue' \in Seq(Closure)
  BY <1>0, AppendProperties
<1>2. Len(mainQueue') = Len(mainQueue) + 1
  BY <1>0, AppendProperties
<1>3. \A n \in 1..Len(mainQueue) : mainQueue'[n] = mainQueue[n]
  BY <1>0, AppendProperties
<1>4. mainQueue'[Len(mainQueue) + 1] = c
  BY <1>0, AppendProperties
<1>5. Len(mainQueue) \in Nat /\ DOMAIN mainQueue = 1..Len(mainQueue)
      /\ DOMAIN mainQueue' = 1..Len(mainQueue')
  BY <1>1, LenProperties
<1>6. DOMAIN mainQueue' = DOMAIN mainQueue \cup {Len(mainQueue')}
  BY <1>2, <1>5
<1>7. Len(mainQueue') \notin DOMAIN mainQueue
  BY <1>2, <1>5
<1>8. \A n \in DOMAIN mainQueue : mainQueue'[n] = mainQueue[n]
  BY <1>3, <1>5
<1>9. mainQueue'[Len(mainQueue')] = c
  BY <1>2, <1>4
<1>10. InTransit' = InTransit \cup c.items
  <2>1. \A x : x \in InTransit <=> \E n \in DOMAIN mainQueue : x \in mainQueue[n].items
    BY DEF InTransit
  <2>2. \A x : x \in InTransit' <=> \E n \in DOMAIN mainQueue' : x \in mainQueue'[n].items
    BY DEF InTransit
  <2> QED
    BY <1>6, <1>8, <1>9, <2>1, <2>2
<1>11. mainQueue' # <<>>
  BY <1>2, <1>5, EmptySeq
<1> QED
  BY <1>1, <1>6, <1>7, <1>8, <1>9, <1>10, <1>11

\* The closure at the head is the only one that holds its items.
LEMMA HeadLeaves ==
    ASSUME mainQueue \in Seq(Closure), mainQueue # <<>>, mainQueue' = Tail(mainQueue), OnceInv
    PROVE  /\ Head(mainQueue) = mainQueue[1] /\ Head(mainQueue) \in Closure
           /\ 1 \in DOMAIN mainQueue
           /\ mainQueue' \in Seq(Closure) /\ Len(mainQueue') = Len(mainQueue) - 1
           /\ \A n \in DOMAIN mainQueue' :
                 n + 1 \in DOMAIN mainQueue /\ mainQueue'[n] = mainQueue[n + 1]
           /\ InTransit = InTransit' \cup Head(mainQueue).items
           /\ InTransit' \cap Head(mainQueue).items = {}
<1> DEFINE h == Head(mainQueue)
<1>1. h \in Closure
  BY HeadTailProperties
<1>2. mainQueue' \in Seq(Closure)
  BY HeadTailProperties
<1>3. Len(mainQueue') = Len(mainQueue) - 1
  BY HeadTailProperties
<1>4. \A n \in 1..Len(mainQueue') : mainQueue'[n] = mainQueue[n + 1]
  BY HeadTailProperties
<1>5. Len(mainQueue) \in Nat \ {0} /\ DOMAIN mainQueue = 1..Len(mainQueue)
      /\ DOMAIN mainQueue' = 1..Len(mainQueue')
  <2>1. Len(mainQueue) \in Nat \ {0}
    BY EmptySeq
  <2> QED
    BY <1>2, <2>1, LenProperties
<1>6. h = mainQueue[1] /\ 1 \in DOMAIN mainQueue
  BY <1>5
<1>7. \A n \in DOMAIN mainQueue' : n + 1 \in DOMAIN mainQueue /\ n + 1 # 1
  BY <1>3, <1>5
<1>8. \A n \in DOMAIN mainQueue' : mainQueue'[n] = mainQueue[n + 1]
  BY <1>4, <1>5
<1>9. \A n \in DOMAIN mainQueue : n = 1 \/ (n - 1 \in DOMAIN mainQueue' /\ n = (n - 1) + 1)
  BY <1>3, <1>5
<1> HIDE DEF h
<1>10. InTransit' \subseteq InTransit
  BY <1>7, <1>8 DEF InTransit
<1>11. h.items \subseteq InTransit
  BY <1>6 DEF InTransit
<1>12. InTransit \subseteq InTransit' \cup h.items
  <2>1. \A x \in InTransit : \E n \in DOMAIN mainQueue : x \in mainQueue[n].items
    BY DEF InTransit
  <2>2. \A n \in DOMAIN mainQueue' : mainQueue'[n].items \subseteq InTransit'
    BY DEF InTransit
  <2>3. \A n \in DOMAIN mainQueue :
           n = 1 \/ \E k \in DOMAIN mainQueue' : n = k + 1
    BY <1>9
  <2> QED
    BY <1>6, <1>8, <2>1, <2>2, <2>3
<1>13. InTransit' \cap h.items = {}
  BY <1>6, <1>7, <1>8 DEF InTransit, OnceInv
<1>14. InTransit = InTransit' \cup h.items
  BY <1>10, <1>11, <1>12
<1> QED
  BY <1>1, <1>2, <1>3, <1>6, <1>7, <1>8, <1>13, <1>14 DEF h

-----------------------------------------------------------------------------
(* Types, however the sheet and the import interleave.                      *)

\* The type is inductive.
LEMMA TypeStep == TypeOK /\ [Next]_vars => TypeOK'
<1> SUFFICES ASSUME TypeOK, [Next]_vars PROVE TypeOK'
  OBVIOUS
<1> USE DEF TypeOK, process, shown
<1>1. ASSUME NEW i \in Item, ReadQueue(i) PROVE TypeOK'
  BY <1>1 DEF ReadQueue
<1>2. ASSUME NEW i \in Item, WriteQueue(i) PROVE TypeOK'
  <2> DEFINE e == [id |-> i, failed |-> FALSE]
  <2>1. e \in Entry /\ sheet[i].items \in Seq(Entry)
    BY DEF Entry
  <2>2. queue' = Append(sheet[i].items, e)
    BY <1>2 DEF WriteQueue
  <2> HIDE DEF e
  <2>3. queue' \in Seq(Entry)
    BY <2>1, <2>2, AppendProperties
  <2>4. sheet' \in [Item -> [at : {"closed", "read", "saved"}, items : Seq(Entry)]]
    BY <1>2 DEF WriteQueue
  <2> QED
    BY <1>2, <2>3, <2>4 DEF WriteQueue
<1>3. CASE Launch
  BY <1>3 DEF Launch
<1>4. CASE Kill
  <2>1. kills' \in 0..MaxKills
    BY <1>4, KillsAssumption DEF Kill
  <2>2. mainQueue' \in Seq(Closure)
    BY <1>4 DEF Kill
  <2>3. NoJob \in [at : {"none", "scheduled", "decoded"}, items : Seq(Entry)]
    BY DEF NoJob
  <2> QED
    BY <1>4, <2>1, <2>2, <2>3 DEF Kill
<1>5. CASE TodosAppear
  BY <1>5 DEF TodosAppear, Schedule
<1>6. CASE Retry
  BY <1>6 DEF Retry, Schedule
<1>7. CASE ResetForNewUser
  BY <1>7 DEF ResetForNewUser
<1>8. CASE ReportStatus
  <2> DEFINE c == [items |-> {}, count |-> Len(queue), finish |-> FALSE,
                   error |-> \E n \in DOMAIN queue : queue[n].failed]
  <2>1. Len(queue) \in Nat
    BY LenProperties
  <2>2. c \in Closure
    BY <2>1 DEF Closure
  <2>3. Dispatch(c)
    BY <1>8 DEF ReportStatus
  <2> HIDE DEF c
  <2>4. mainQueue' \in Seq(Closure)
    BY <2>2, <2>3, DispatchAppends
  <2> QED
    BY <1>8, <2>4 DEF ReportStatus
<1>9. CASE EndsEmpty
  <2> DEFINE c == [items |-> {}, count |-> 0, error |-> FALSE, finish |-> TRUE]
  <2>1. c \in Closure /\ Dispatch(c)
    BY <1>9 DEF EndsEmpty, Closure
  <2> HIDE DEF c
  <2>2. mainQueue' \in Seq(Closure)
    BY <2>1, DispatchAppends
  <2> QED
    BY <1>9, <2>2 DEF EndsEmpty, NoJob
<1>10. CASE Decode
  BY <1>10 DEF Decode
<1>11. CASE Persist
  <2> DEFINE c == [items |-> Conversions(job.items), count |-> Len(Failures(job.items)),
                   error |-> Failures(job.items) # <<>>, finish |-> TRUE]
  <2>1. job.items \in Seq(Entry)
    OBVIOUS
  <2>2. Failures(job.items) \in Seq(Entry)
    BY <2>1, FailuresType
  <2>3. Conversions(job.items) \subseteq Item
    <3>1. \A n \in DOMAIN job.items : job.items[n] \in Entry
      BY <2>1, LenProperties
    <3>2. \A e \in Entry : e.id \in Item
      BY DEF Entry
    <3> QED
      BY <3>1, <3>2 DEF Conversions
  <2>4. Len(Failures(job.items)) \in Nat
    BY <2>2, LenProperties
  <2>5. c \in Closure
    BY <2>3, <2>4 DEF Closure
  <2>6. Dispatch(c)
    BY <1>11 DEF Persist
  <2> HIDE DEF c
  <2>7. mainQueue' \in Seq(Closure)
    BY <2>5, <2>6, DispatchAppends
  <2> QED
    BY <1>11, <2>2, <2>7 DEF Persist, NoJob
<1>12. CASE RunClosure
  <2> DEFINE c == Head(mainQueue)
  <2>1. c \in Closure
    BY <1>12, HeadTailProperties DEF RunClosure
  <2>2. mainQueue' \in Seq(Closure)
    BY <1>12, HeadTailProperties DEF RunClosure
  <2>3. c.count \in Nat /\ c.error \in BOOLEAN /\ c.finish \in BOOLEAN
    BY <2>1 DEF Closure
  <2>4. /\ imported' = [i \in Item |-> imported[i] + IF i \in c.items THEN 1 ELSE 0]
        /\ pendingCount' = c.count /\ lastError' = c.error
        /\ processing' = (processing /\ ~c.finish)
    BY <1>12 DEF RunClosure
  <2> HIDE DEF c
  <2>5. imported' \in [Item -> Nat]
    BY <2>4
  <2>6. pendingCount' \in Nat /\ lastError' \in BOOLEAN /\ processing' \in BOOLEAN
    BY <2>3, <2>4
  <2> QED
    BY <1>12, <2>2, <2>5, <2>6 DEF RunClosure
<1>13. CASE UNCHANGED vars
  BY <1>13 DEF vars
<1> QED
  BY <1>1, <1>2, <1>3, <1>4, <1>5, <1>6, <1>7, <1>8, <1>9, <1>10, <1>11, <1>12, <1>13
  DEF Next, UtilityQueue

\* Sharing starts well typed.
LEMMA StartsTyped == Init => TypeOK
<1> SUFFICES ASSUME Init PROVE TypeOK
  OBVIOUS
<1>1. queue \in Seq(Entry) /\ mainQueue \in Seq(Closure)
  BY DEF Init
<1>2. [at |-> "closed", items |-> <<>>]
         \in [at : {"closed", "read", "saved"}, items : Seq(Entry)]
  OBVIOUS
<1>3. NoJob \in [at : {"none", "scheduled", "decoded"}, items : Seq(Entry)]
  BY DEF NoJob
<1>4. kills \in 0..MaxKills
  BY KillsAssumption DEF Init
<1> QED
  BY <1>1, <1>2, <1>3, <1>4 DEF Init, TypeOK

\* Every variable keeps its type, whatever is shared, fails to convert, or ends
\* the process, and in whatever order the two processes run.
THEOREM ShareTyped == Spec => []TypeOK
BY StartsTyped, TypeStep, PTL DEF Spec

-----------------------------------------------------------------------------
(* Taking turns.                                                           *)

\* Taking turns, whoever writes the queue back has read what is there.
LEMMA TurnsStep ==
    ASSUME ~Overlap, TypeOK, TurnsInv, [Next]_vars
    PROVE  TurnsInv'
<1> USE DEF TurnsInv, TypeOK, process, shown
<1>1. ASSUME NEW i \in Item, ReadQueue(i) PROVE TurnsInv'
  <2>1. job.at # "decoded" /\ \A j \in Item : sheet[j].at # "read"
    BY <1>1 DEF ReadQueue, Reading
  <2>2. /\ sheet'[i] = [at |-> "read", items |-> queue]
        /\ \A j \in Item : j # i => sheet'[j] = sheet[j]
        /\ queue' = queue /\ job' = job
    BY <1>1 DEF ReadQueue
  <2>3. \A j \in Item : sheet'[j].at = "read" => j = i
    BY <2>1, <2>2
  <2>4. sheet'[i].items = queue'
    BY <2>2
  <2>5. job'.at # "decoded"
    BY <2>1, <2>2
  <2> QED
    BY <2>3, <2>4, <2>5
<1>2. ASSUME NEW i \in Item, WriteQueue(i) PROVE TurnsInv'
  <2>1. sheet[i].at = "read" /\ job' = job
    BY <1>2 DEF WriteQueue
  <2>2. sheet'[i].at = "saved" /\ \A j \in Item : j # i => sheet'[j] = sheet[j]
    BY <1>2 DEF WriteQueue
  <2>3. job.at # "decoded" /\ \A j \in Item : sheet'[j].at # "read"
    BY <2>1, <2>2
  <2> QED
    BY <2>1, <2>3
<1>3. CASE Launch \/ Kill \/ ResetForNewUser \/ ReportStatus \/ EndsEmpty \/ RunClosure
  BY <1>3 DEF Launch, Kill, ResetForNewUser, ReportStatus, EndsEmpty, RunClosure, NoJob
<1>4. CASE TodosAppear \/ Retry
  BY <1>4 DEF TodosAppear, Retry, Schedule
<1>5. CASE Decode
  BY <1>5 DEF Decode, Reading
<1>6. CASE Persist
  BY <1>6 DEF Persist, NoJob
<1>7. CASE UNCHANGED vars
  BY <1>7 DEF vars
<1> QED
  BY <1>1, <1>2, <1>3, <1>4, <1>5, <1>6, <1>7 DEF Next, UtilityQueue

-----------------------------------------------------------------------------
(* Each item in one place.                                                 *)

Waiting == Queued \cup InTransit

\* What is queued or in transit are items.
LEMMA PlacesAreItems == TypeOK => Queued \subseteq Item /\ InTransit \subseteq Item
<1> SUFFICES ASSUME TypeOK PROVE Queued \subseteq Item /\ InTransit \subseteq Item
  OBVIOUS
<1>1. \A n \in DOMAIN queue : queue[n] \in Entry
  BY LenProperties DEF TypeOK
<1>2. \A e \in Entry : e.id \in Item
  BY DEF Entry
<1>3. \A n \in DOMAIN mainQueue : mainQueue[n] \in Closure
  BY LenProperties DEF TypeOK
<1>4. \A c \in Closure : c.items \subseteq Item
  BY DEF Closure
<1>5. Queued \subseteq Item
  BY <1>1, <1>2 DEF Queued
<1>6. InTransit \subseteq Item
  BY <1>3, <1>4 DEF InTransit
<1> QED
  BY <1>5, <1>6

\* What a step does to the items: those that move, and where everything is.
LEMMA DispatchOnce ==
    ASSUME NEW c \in Closure, TypeOK, OnceInv, Dispatch(c), UNCHANGED <<sheet, imported>>,
           c.items \subseteq Queued, Queued = Queued' \cup c.items, Queued' \cap c.items = {}
    PROVE  OnceInv' /\ Waiting' = Waiting
<1>1. /\ DOMAIN mainQueue' = DOMAIN mainQueue \cup {Len(mainQueue')}
      /\ Len(mainQueue') \notin DOMAIN mainQueue
      /\ mainQueue'[Len(mainQueue')] = c
      /\ \A n \in DOMAIN mainQueue : mainQueue'[n] = mainQueue[n]
      /\ InTransit' = InTransit \cup c.items
  BY DispatchAppends DEF TypeOK
<1>2. Queued \cap InTransit = {}
  BY DEF OnceInv
<1>3. Waiting' = Waiting
  BY <1>1 DEF Waiting
<1>4. Queued' \cap InTransit' = {}
  BY <1>1, <1>2
<1>5. \A n \in DOMAIN mainQueue : mainQueue[n].items \subseteq InTransit
  BY DEF InTransit
<1>6. ASSUME NEW m \in DOMAIN mainQueue', NEW n \in DOMAIN mainQueue', m # n
      PROVE  mainQueue'[m].items \cap mainQueue'[n].items = {}
  <2>1. CASE m \in DOMAIN mainQueue /\ n \in DOMAIN mainQueue
    BY <1>1, <1>6, <2>1 DEF OnceInv
  <2>2. CASE m \in DOMAIN mainQueue /\ n \notin DOMAIN mainQueue
    BY <1>1, <1>2, <1>5, <2>2
  <2>3. CASE m \notin DOMAIN mainQueue /\ n \in DOMAIN mainQueue
    BY <1>1, <1>2, <1>5, <2>3
  <2> QED
    BY <1>1, <1>6, <2>1, <2>2, <2>3
<1>7. /\ \A i \in Item : imported'[i] \in {0, 1}
      /\ \A i \in Item : sheet'[i].at # "saved" => i \notin Waiting' /\ imported'[i] = 0
      /\ \A i \in Waiting' : imported'[i] = 0
  BY <1>3 DEF OnceInv, Waiting
<1> QED
  BY <1>3, <1>4, <1>6, <1>7 DEF OnceInv, Waiting

\* The write of a share sheet whose read is still what is queued.
LEMMA WriteOnce ==
    ASSUME NEW i \in Item, TypeOK, TurnsInv, OnceInv, WriteQueue(i)
    PROVE  /\ OnceInv'
           /\ Queued' = Queued \cup {i} /\ InTransit' = InTransit
           /\ i \notin Waiting /\ imported[i] = 0 /\ sheet[i].at # "saved"
           /\ \A j \in Item : j # i => sheet'[j] = sheet[j]
           /\ sheet'[i].at = "saved"
           /\ Len(queue') = Len(queue) + 1
<1>1. sheet[i].at = "read" /\ sheet[i].items = queue /\ imported' = imported
      /\ mainQueue' = mainQueue
  BY DEF WriteQueue, TurnsInv, process
<1>2. queue' = Append(queue, [id |-> i, failed |-> FALSE])
  BY <1>1 DEF WriteQueue
<1>3. Queued' = Queued \cup {i}
  BY <1>2, ShareAppends DEF TypeOK
<1>4. Len(queue') = Len(queue) + 1
  BY <1>2, ShareAppends DEF TypeOK
<1>5. InTransit' = InTransit
  BY <1>1 DEF InTransit
<1>6. sheet'[i].at = "saved" /\ \A j \in Item : j # i => sheet'[j] = sheet[j]
  BY DEF WriteQueue, TypeOK
<1>7. i \notin Waiting /\ imported[i] = 0
  BY <1>1 DEF OnceInv, Waiting
<1>8. OnceInv'
  <2>1. \A j \in Item : sheet'[j].at # "saved" =>
           j \notin Queued' \cup InTransit' /\ imported'[j] = 0
    BY <1>1, <1>3, <1>5, <1>6 DEF OnceInv
  <2>2. \A j \in Queued' \cup InTransit' : imported'[j] = 0
    BY <1>1, <1>3, <1>5, <1>7 DEF OnceInv
  <2>3. Queued' \cap InTransit' = {}
    BY <1>3, <1>5, <1>7 DEF OnceInv, Waiting
  <2> QED
    BY <1>1, <2>1, <2>2, <2>3 DEF OnceInv
<1> QED
  BY <1>1, <1>3, <1>4, <1>5, <1>6, <1>7, <1>8

\* The main queue imports what was in the closure, and nothing else.
LEMMA ImportOnce ==
    ASSUME TypeOK, OnceInv, RunClosure
    PROVE  /\ OnceInv'
           /\ Queued' = Queued
           /\ InTransit = InTransit' \cup Head(mainQueue).items
           /\ InTransit' \cap Head(mainQueue).items = {}
           /\ Head(mainQueue).items \subseteq Item
           /\ \A i \in Head(mainQueue).items : imported[i] = 0 /\ imported'[i] = 1
           /\ \A i \in Item \ Head(mainQueue).items : imported'[i] = imported[i]
<1> DEFINE c == Head(mainQueue)
<1>1. mainQueue # <<>> /\ mainQueue' = Tail(mainQueue) /\ mainQueue \in Seq(Closure)
      /\ queue' = queue /\ sheet' = sheet
  BY DEF RunClosure, TypeOK
<1>2. c \in Closure
  BY <1>1, HeadLeaves
<1>3. \A n \in DOMAIN mainQueue' : n + 1 \in DOMAIN mainQueue /\ mainQueue'[n] = mainQueue[n + 1]
  BY <1>1, HeadLeaves
<1>4. InTransit = InTransit' \cup c.items
  BY <1>1, HeadLeaves
<1>5. InTransit' \cap c.items = {}
  BY <1>1, HeadLeaves
<1>6. Queued' = Queued
  BY <1>1 DEF Queued
<1>7. imported' = [i \in Item |-> imported[i] + IF i \in c.items THEN 1 ELSE 0]
  BY DEF RunClosure
<1> HIDE DEF c
<1>8. c.items \subseteq Item
  BY <1>2 DEF Closure
<1>9. \A i \in c.items : imported[i] = 0
  BY <1>4 DEF OnceInv
<1>10. \A i \in c.items : imported'[i] = 1
  BY <1>7, <1>8, <1>9
<1>11. \A i \in Item \ c.items : imported'[i] = imported[i]
  BY <1>7 DEF TypeOK
<1>12. \A i \in Item : imported'[i] \in {0, 1}
  BY <1>10, <1>11 DEF OnceInv
<1>13. \A i \in Item : sheet'[i].at # "saved" =>
          i \notin Queued' \cup InTransit' /\ imported'[i] = 0
  BY <1>1, <1>4, <1>6, <1>11 DEF OnceInv
<1>14. \A i \in Queued' \cup InTransit' : imported'[i] = 0
  <2>1. Queued \subseteq Item
    BY PlacesAreItems
  <2>2. InTransit \subseteq Item
    BY PlacesAreItems
  <2>3. Queued \cap c.items = {}
    BY <1>4 DEF OnceInv
  <2> QED
    BY <1>4, <1>5, <1>6, <1>11, <2>1, <2>2, <2>3 DEF OnceInv
<1>15. Queued' \cap InTransit' = {}
  BY <1>4, <1>6 DEF OnceInv
<1>16. ASSUME NEW m \in DOMAIN mainQueue', NEW n \in DOMAIN mainQueue', m # n
       PROVE  mainQueue'[m].items \cap mainQueue'[n].items = {}
  <2>1. m + 1 # n + 1
    <3>1. mainQueue' \in Seq(Closure)
      BY <1>1, HeadLeaves
    <3>2. m \in Nat /\ n \in Nat
      BY <3>1, LenProperties
    <3> QED
      BY <1>16, <3>2
  <2> QED
    BY <1>3, <2>1 DEF OnceInv
<1>17. OnceInv'
  BY <1>12, <1>13, <1>14, <1>15, <1>16 DEF OnceInv
<1> QED
  BY <1>4, <1>5, <1>6, <1>8, <1>9, <1>10, <1>11, <1>17 DEF c

\* What could not be converted stays in the queue, the rest is on its way.
LEMMA PersistOnce ==
    ASSUME TypeOK, TurnsInv, OnceInv, Persist
    PROVE  OnceInv' /\ Waiting' = Waiting
<1> DEFINE c == [items |-> Conversions(job.items), count |-> Len(Failures(job.items)),
                 error |-> Failures(job.items) # <<>>, finish |-> TRUE]
<1>1. job.items = queue /\ queue \in Seq(Entry)
  BY DEF Persist, TurnsInv, TypeOK
<1>2. Dispatch(c) /\ UNCHANGED <<sheet, imported>> /\ queue' = Failures(queue)
  BY <1>1 DEF Persist
<1>3. c.items = Conversions(queue)
  BY <1>1
<1>4. Ids(queue) = Queued /\ Ids(queue') = Queued'
  BY DEF Ids, Queued
<1>5. /\ Ids(Failures(queue)) \cup Conversions(queue) = Ids(queue)
      /\ Ids(Failures(queue)) \cap Conversions(queue) = {}
      /\ Failures(queue) \in Seq(Entry)
  BY <1>1, FailuresType
<1>6. c \in Closure
  <2>1. Conversions(queue) \in SUBSET Item
    BY <1>4, <1>5, PlacesAreItems
  <2>2. Len(Failures(queue)) \in Nat
    BY <1>5, LenProperties
  <2> QED
    BY <1>1, <2>1, <2>2 DEF Closure
<1> HIDE DEF c
<1>7. c.items \subseteq Queued /\ Queued = Queued' \cup c.items /\ Queued' \cap c.items = {}
  BY <1>2, <1>3, <1>4, <1>5
<1> QED
  BY <1>2, <1>6, <1>7, DispatchOnce

\* A closure that imports nothing moves nothing.
LEMMA ReportOnce ==
    ASSUME NEW c \in Closure, TypeOK, OnceInv, Dispatch(c), c.items = {},
           UNCHANGED <<queue, sheet, imported>>
    PROVE  OnceInv' /\ Waiting' = Waiting
<1>1. Queued' = Queued
  BY DEF Queued
<1> QED
  BY <1>1, DispatchOnce

\* Steps that leave the lists, the queue and the closures where they are.
LEMMA StillOnce ==
    ASSUME OnceInv, UNCHANGED <<queue, imported, mainQueue>>,
           \A i \in Item : (sheet'[i].at = "saved") <=> (sheet[i].at = "saved")
    PROVE  OnceInv' /\ Waiting' = Waiting
<1>1. Queued' = Queued /\ InTransit' = InTransit
  BY DEF Queued, InTransit
<1> QED
  BY <1>1 DEF OnceInv, Waiting

Calm == \/ \E i \in Item : ReadQueue(i)
        \/ Launch \/ TodosAppear \/ Retry \/ ResetForNewUser
        \/ UtilityQueue \/ UNCHANGED vars

\* Reading, scheduling, reporting, decoding and persisting move no item
\* between waiting, imported and lost.
LEMMA CalmStep ==
    ASSUME TypeOK, TurnsInv, OnceInv, Calm
    PROVE  OnceInv' /\ Waiting' = Waiting /\ imported' = imported /\ kills' = kills
           /\ \A i \in Item : (sheet'[i].at = "saved") <=> (sheet[i].at = "saved")
<1> USE DEF process, shown
<1>1. ASSUME NEW i \in Item, ReadQueue(i)
      PROVE  /\ UNCHANGED <<queue, imported, mainQueue, kills>>
             /\ \A j \in Item : (sheet'[j].at = "saved") <=> (sheet[j].at = "saved")
  <2>1. sheet[i].at = "closed" /\ sheet'[i].at = "read"
    BY <1>1 DEF ReadQueue, TypeOK
  <2>2. \A j \in Item : j # i => sheet'[j] = sheet[j]
    BY <1>1 DEF ReadQueue, TypeOK
  <2> QED
    BY <1>1, <2>1, <2>2 DEF ReadQueue
<1>2. CASE Launch \/ ResetForNewUser \/ Decode \/ UNCHANGED vars
  <2>1. UNCHANGED <<queue, imported, mainQueue, kills, sheet>>
    BY <1>2 DEF Launch, ResetForNewUser, Decode, vars
  <2> QED
    BY <2>1, StillOnce
<1>3. CASE TodosAppear \/ Retry
  <2>1. UNCHANGED <<queue, imported, mainQueue, kills, sheet>>
    BY <1>3 DEF TodosAppear, Retry, Schedule
  <2> QED
    BY <2>1, StillOnce
<1>4. CASE ReportStatus
  <2> DEFINE c == [items |-> {}, count |-> Len(queue), finish |-> FALSE,
                   error |-> \E n \in DOMAIN queue : queue[n].failed]
  <2>1. Len(queue) \in Nat
    BY LenProperties DEF TypeOK
  <2>2. c \in Closure /\ c.items = {}
    BY <2>1 DEF Closure
  <2>3. Dispatch(c) /\ UNCHANGED <<queue, sheet, imported, kills>>
    BY <1>4 DEF ReportStatus
  <2> HIDE DEF c
  <2> QED
    BY <2>2, <2>3, ReportOnce
<1>5. CASE EndsEmpty
  <2> DEFINE c == [items |-> {}, count |-> 0, error |-> FALSE, finish |-> TRUE]
  <2>1. c \in Closure /\ c.items = {}
    BY DEF Closure
  <2>2. Dispatch(c) /\ UNCHANGED <<queue, sheet, imported, kills>>
    BY <1>5 DEF EndsEmpty
  <2> HIDE DEF c
  <2> QED
    BY <2>1, <2>2, ReportOnce
<1>6. CASE Persist
  <2>1. UNCHANGED <<sheet, imported, kills>>
    BY <1>6 DEF Persist
  <2> QED
    BY <1>6, <2>1, PersistOnce
<1>7. CASE \E i \in Item : ReadQueue(i)
  <2>1. /\ UNCHANGED <<queue, imported, mainQueue, kills>>
        /\ \A j \in Item : (sheet'[j].at = "saved") <=> (sheet[j].at = "saved")
    BY <1>1, <1>7
  <2> QED
    BY <2>1, StillOnce
<1> QED
  BY <1>2, <1>3, <1>4, <1>5, <1>6, <1>7 DEF Calm, UtilityQueue

\* The process ends with closures it has not run.
LEMMA KillOnce ==
    ASSUME TypeOK, OnceInv, Kill
    PROVE  /\ OnceInv'
           /\ Queued' = Queued /\ InTransit' = {}
           /\ imported' = imported /\ sheet' = sheet
<1>1. UNCHANGED <<queue, sheet, imported>> /\ mainQueue' = <<>>
  BY DEF Kill
<1>2. InTransit' = {} /\ DOMAIN mainQueue' = {}
  BY <1>1 DEF InTransit
<1>3. Queued' = Queued
  BY <1>1 DEF Queued
<1> QED
  BY <1>1, <1>2, <1>3 DEF OnceInv

\* No step puts an item in two places, or imports it twice.
LEMMA OnceStep ==
    ASSUME TypeOK, TurnsInv, OnceInv, [Next]_vars
    PROVE  OnceInv'
<1>1. ASSUME NEW i \in Item, WriteQueue(i) PROVE OnceInv'
  BY <1>1, WriteOnce
<1>2. CASE Kill
  BY <1>2, KillOnce
<1>3. CASE RunClosure
  BY <1>3, ImportOnce
<1>4. CASE Calm
  BY <1>4, CalmStep
<1> QED
  BY <1>1, <1>2, <1>3, <1>4 DEF Next, Calm

-----------------------------------------------------------------------------
(* The row.                                                                *)

\* A closure that counts no more than is queued keeps the row honest.
LEMMA DispatchRow ==
    ASSUME NEW c \in Closure, TypeOK, RowInv, Dispatch(c), UNCHANGED shown,
           c.count <= Len(queue'), c.error => c.count > 0
    PROVE  RowInv'
<1>1. /\ mainQueue' # <<>>
      /\ DOMAIN mainQueue' = DOMAIN mainQueue \cup {Len(mainQueue')}
      /\ mainQueue'[Len(mainQueue')] = c
      /\ \A n \in DOMAIN mainQueue : mainQueue'[n] = mainQueue[n]
  BY DispatchAppends DEF TypeOK
<1>2. lastError' = lastError /\ pendingCount' = pendingCount
  BY DEF shown
<1>3. \A n \in DOMAIN mainQueue' : mainQueue'[n].error => mainQueue'[n].count > 0
  BY <1>1 DEF RowInv
<1> QED
  BY <1>1, <1>2, <1>3 DEF RowInv

\* What a row will show counts no item that is not queued.
LEMMA RowStep ==
    ASSUME TypeOK, TurnsInv, OnceInv, RowInv, [Next]_vars
    PROVE  RowInv'
<1> USE DEF process, shown
<1>1. ASSUME NEW i \in Item, WriteQueue(i) PROVE RowInv'
  <2>1. Len(queue') = Len(queue) + 1
    BY <1>1, WriteOnce
  <2>2. UNCHANGED <<mainQueue, shown>>
    BY <1>1 DEF WriteQueue
  <2>3. Len(queue) \in Nat /\ pendingCount \in Nat
    BY LenProperties DEF TypeOK
  <2>4. mainQueue = <<>> => pendingCount <= Len(queue')
    BY <2>1, <2>3 DEF RowInv
  <2>5. mainQueue # <<>> => mainQueue[Len(mainQueue)].count <= Len(queue')
    <3>1. mainQueue # <<>> => mainQueue[Len(mainQueue)] \in Closure
      BY EmptySeq, ElementOfSeq DEF TypeOK
    <3>2. mainQueue # <<>> => mainQueue[Len(mainQueue)].count \in Nat
      BY <3>1 DEF Closure
    <3> QED
      BY <2>1, <2>3, <3>2 DEF RowInv
  <2> QED
    BY <2>2, <2>4, <2>5 DEF RowInv
<1>2. CASE Kill
  <2>1. pendingCount' = 0 /\ lastError' = FALSE /\ mainQueue' = <<>> /\ queue' = queue
    BY <1>2 DEF Kill
  <2>2. Len(queue) \in Nat /\ DOMAIN mainQueue' = {}
    BY <2>1, LenProperties DEF TypeOK
  <2> QED
    BY <2>1, <2>2 DEF RowInv
<1>3. CASE ResetForNewUser
  <2>1. pendingCount' = 0 /\ lastError' = FALSE /\ mainQueue' = mainQueue /\ queue' = queue
    BY <1>3 DEF ResetForNewUser
  <2>2. Len(queue) \in Nat
    BY LenProperties DEF TypeOK
  <2> QED
    BY <2>1, <2>2 DEF RowInv
<1>4. CASE Launch \/ Decode \/ UNCHANGED vars \/ \E i \in Item : ReadQueue(i)
  <2>1. UNCHANGED <<queue, mainQueue, shown>>
    BY <1>4 DEF Launch, Decode, vars, ReadQueue
  <2> QED
    BY <2>1 DEF RowInv
<1>5. CASE TodosAppear \/ Retry
  <2>1. UNCHANGED <<queue, mainQueue, shown>>
    BY <1>5 DEF TodosAppear, Retry, Schedule
  <2> QED
    BY <2>1 DEF RowInv
<1>6. CASE ReportStatus
  <2> DEFINE c == [items |-> {}, count |-> Len(queue), finish |-> FALSE,
                   error |-> \E n \in DOMAIN queue : queue[n].failed]
  <2>1. Len(queue) \in Nat /\ DOMAIN queue = 1..Len(queue)
    BY LenProperties DEF TypeOK
  <2>2. c \in Closure
    BY <2>1 DEF Closure
  <2>3. Dispatch(c) /\ UNCHANGED <<queue, shown>>
    BY <1>6 DEF ReportStatus
  <2>4. c.count <= Len(queue')
    BY <2>1, <2>3
  <2>5. c.error => c.count > 0
    BY <2>1
  <2> HIDE DEF c
  <2> QED
    BY <2>2, <2>3, <2>4, <2>5, DispatchRow
<1>7. CASE EndsEmpty
  <2> DEFINE c == [items |-> {}, count |-> 0, error |-> FALSE, finish |-> TRUE]
  <2>1. Len(queue) \in Nat
    BY LenProperties DEF TypeOK
  <2>2. c \in Closure
    BY DEF Closure
  <2>3. Dispatch(c) /\ UNCHANGED <<queue, shown>>
    BY <1>7 DEF EndsEmpty
  <2>4. c.count <= Len(queue') /\ ~c.error
    BY <2>1, <2>3
  <2> HIDE DEF c
  <2> QED
    BY <2>2, <2>3, <2>4, DispatchRow
<1>8. CASE Persist
  <2> DEFINE c == [items |-> Conversions(job.items), count |-> Len(Failures(job.items)),
                   error |-> Failures(job.items) # <<>>, finish |-> TRUE]
  <2>1. Failures(job.items) \in Seq(Entry)
    BY FailuresType DEF TypeOK
  <2>2. Len(Failures(job.items)) \in Nat
    BY <2>1, LenProperties
  <2>3. Failures(job.items) # <<>> => Len(Failures(job.items)) > 0
    BY <2>1, EmptySeq
  <2>4. Conversions(job.items) \in SUBSET Item
    <3>1. job.items = queue
      BY <1>8 DEF Persist, TurnsInv
    <3>2. Conversions(queue) \subseteq Queued
      BY DEF Conversions, Queued
    <3> QED
      BY <3>1, <3>2, PlacesAreItems
  <2>5. c \in Closure
    BY <2>2, <2>4 DEF Closure
  <2>6. Dispatch(c) /\ UNCHANGED shown /\ queue' = Failures(job.items)
    BY <1>8 DEF Persist
  <2>7. c.count = Len(Failures(job.items)) /\ (c.error => Failures(job.items) # <<>>)
    OBVIOUS
  <2>8. c.count <= Len(queue') /\ (c.error => c.count > 0)
    BY <2>2, <2>3, <2>6, <2>7
  <2> HIDE DEF c
  <2> QED
    BY <2>5, <2>6, <2>8, DispatchRow
<1>9. CASE RunClosure
  <2> DEFINE c == Head(mainQueue)
  <2>1. /\ mainQueue # <<>> /\ mainQueue' = Tail(mainQueue) /\ queue' = queue
        /\ pendingCount' = c.count /\ lastError' = c.error
    BY <1>9 DEF RunClosure
  <2>2. c = mainQueue[1] /\ 1 \in DOMAIN mainQueue
    BY <2>1, HeadLeaves DEF TypeOK
  <2>3. Len(mainQueue') = Len(mainQueue) - 1
    BY <2>1, HeadLeaves DEF TypeOK
  <2>4. \A n \in DOMAIN mainQueue' :
           n + 1 \in DOMAIN mainQueue /\ mainQueue'[n] = mainQueue[n + 1]
    BY <2>1, HeadLeaves DEF TypeOK
  <2>5. mainQueue' \in Seq(Closure)
    BY <2>1, HeadLeaves DEF TypeOK
  <2> HIDE DEF c
  <2>6. Len(mainQueue') \in Nat /\ DOMAIN mainQueue' = 1..Len(mainQueue')
        /\ Len(mainQueue) \in Nat
    BY <2>5, LenProperties DEF TypeOK
  <2>7. mainQueue' = <<>> => pendingCount' <= Len(queue')
    <3>1. mainQueue' = <<>> => Len(mainQueue) = 1
      BY <2>3, <2>6, EmptySeq
    <3> QED
      BY <2>1, <2>2, <3>1 DEF RowInv
  <2>8. mainQueue' # <<>> => mainQueue'[Len(mainQueue')].count <= Len(queue')
    <3>1. mainQueue' # <<>> => Len(mainQueue') \in DOMAIN mainQueue'
      BY <2>5, <2>6, EmptySeq
    <3>2. Len(mainQueue') + 1 = Len(mainQueue)
      BY <2>3, <2>6
    <3> QED
      BY <2>1, <2>4, <3>1, <3>2 DEF RowInv
  <2>9. \A n \in DOMAIN mainQueue' : mainQueue'[n].error => mainQueue'[n].count > 0
    BY <2>4 DEF RowInv
  <2>10. lastError' => pendingCount' > 0
    BY <2>1, <2>2 DEF RowInv
  <2> QED
    BY <2>7, <2>8, <2>9, <2>10 DEF RowInv
<1> QED
  BY <1>1, <1>2, <1>3, <1>4, <1>5, <1>6, <1>7, <1>8, <1>9 DEF Next, UtilityQueue

\* All of it holds at first.
LEMMA Starts == Init => Inv
<1> SUFFICES ASSUME Init PROVE Inv
  OBVIOUS
<1>1. TypeOK
  BY StartsTyped
<1>2. TurnsInv
  BY DEF Init, TurnsInv, NoJob
<1>3. Queued = {} /\ InTransit = {}
  BY DEF Init, Queued, InTransit
<1>4. OnceInv
  BY <1>3 DEF Init, OnceInv
<1>5. RowInv
  BY EmptySeq DEF Init, RowInv
<1> QED
  BY <1>1, <1>2, <1>4, <1>5 DEF Inv

\* All of it together is inductive.
LEMMA InvStep ==
    ASSUME ~Overlap, Inv, [Next]_vars
    PROVE  Inv'
BY TypeStep, TurnsStep, OnceStep, RowStep DEF Inv

\* So it holds in every state.
LEMMA InvHolds ==
    ASSUME ~Overlap
    PROVE  Spec => []Inv
<1>1. Inv /\ [Next]_vars => Inv'
  BY InvStep
<1> QED
  BY <1>1, Starts, PTL DEF Spec

\* With nothing under way the row counts no item that is not queued, and an
\* error never stands without the row that shows it: for any items and any
\* number of process ends, when the sheet and the import take turns.
THEOREM RowStaysHonest ==
    ASSUME ~Overlap
    PROVE  Spec => []RowIsHonest
<1>1. Inv => RowIsHonest
  BY DEF Inv, RowInv, RowIsHonest, Quiet
<1> QED
  BY <1>1, InvHolds, PTL

-----------------------------------------------------------------------------
(* The inbox.                                                              *)

\* Where the refinement mapping sees an item, by its only place.
LEMMA StageIs ==
    ASSUME OnceInv, NEW i \in Item
    PROVE  Stage(i) = IF imported[i] = 1 THEN "imported"
                      ELSE IF i \in Waiting THEN "waiting"
                      ELSE IF sheet[i].at # "saved" THEN "unshared"
                      ELSE "lost"
<1>1. ~(imported[i] > 1)
  <2>1. imported[i] \in {0, 1}
    BY DEF OnceInv
  <2> QED
    BY <2>1
<1> QED
  BY <1>1 DEF Stage, Waiting

\* The same after a step.
LEMMA StageBecomes ==
    ASSUME OnceInv', NEW i \in Item
    PROVE  Stage(i)' = IF imported'[i] = 1 THEN "imported"
                       ELSE IF i \in Waiting' THEN "waiting"
                       ELSE IF sheet'[i].at # "saved" THEN "unshared"
                       ELSE "lost"
<1>1. ~(imported'[i] > 1)
  <2>1. imported'[i] \in {0, 1}
    BY DEF OnceInv
  <2> QED
    BY <2>1
<1> QED
  BY <1>1 DEF Stage, Waiting

\* Steps that move no item are not seen.
LEMMA CalmStutters ==
    ASSUME Inv, Calm
    PROVE  UNCHANGED Inbox!vars
<1>1. /\ OnceInv' /\ Waiting' = Waiting /\ imported' = imported /\ kills' = kills
      /\ \A i \in Item : (sheet'[i].at = "saved") <=> (sheet[i].at = "saved")
  BY CalmStep DEF Inv
<1>2. \A i \in Item : Stage(i)' = Stage(i)
  BY <1>1, StageIs, StageBecomes DEF Inv
<1> QED
  BY <1>1, <1>2 DEF Inbox!vars

\* Writing the queue back with an item shares it.
LEMMA WriteShares ==
    ASSUME Inv, NEW i \in Item, WriteQueue(i)
    PROVE  Inbox!Share(i)
<1>1. /\ OnceInv'
      /\ Queued' = Queued \cup {i} /\ InTransit' = InTransit
      /\ i \notin Waiting /\ imported[i] = 0 /\ sheet[i].at # "saved"
      /\ \A j \in Item : j # i => sheet'[j] = sheet[j]
  BY WriteOnce DEF Inv
<1>2. imported' = imported /\ kills' = kills
  BY DEF WriteQueue
<1>3. Waiting' = Waiting \cup {i}
  BY <1>1 DEF Waiting
<1>4. Stage(i) = "unshared"
  BY <1>1, StageIs DEF Inv
<1>5. Stage(i)' = "waiting"
  BY <1>1, <1>2, <1>3, StageBecomes
<1>6. \A j \in Item : j # i => Stage(j)' = Stage(j)
  BY <1>1, <1>2, <1>3, StageIs, StageBecomes DEF Inv
<1> QED
  BY <1>2, <1>4, <1>5, <1>6 DEF Inbox!Share, Inbox!In, Inbox!Become

\* Running a closure imports its items, or is not seen when it has none.
LEMMA ClosureImports ==
    ASSUME Inv, RunClosure
    PROVE  Inbox!Next \/ UNCHANGED Inbox!vars
<1> DEFINE items == Head(mainQueue).items
<1>1. /\ OnceInv' /\ Queued' = Queued
      /\ InTransit = InTransit' \cup items /\ InTransit' \cap items = {}
      /\ items \subseteq Item
      /\ \A i \in items : imported[i] = 0 /\ imported'[i] = 1
      /\ \A i \in Item \ items : imported'[i] = imported[i]
  BY ImportOnce DEF Inv
<1>2. sheet' = sheet /\ kills' = kills
  BY DEF RunClosure
<1> HIDE DEF items
<1>3. Waiting = Waiting' \cup items
  BY <1>1 DEF Waiting
<1>4. \A i \in items : Stage(i) = "waiting"
  BY <1>1, <1>3, StageIs DEF Inv
<1>5. \A i \in items : Stage(i)' = "imported"
  BY <1>1, StageBecomes
<1>6. \A i \in Item \ items : Stage(i)' = Stage(i)
  BY <1>1, <1>2, <1>3, StageIs, StageBecomes DEF Inv
<1>7. CASE items = {}
  BY <1>2, <1>6, <1>7 DEF Inbox!vars
<1>8. CASE items # {}
  <2>1. items \in SUBSET Inbox!In("waiting")
    BY <1>1, <1>4 DEF Inbox!In
  <2>2. Inbox!Become(items, "imported")
    BY <1>5, <1>6 DEF Inbox!Become
  <2>3. Inbox!Import(items)
    BY <1>2, <1>8, <2>2 DEF Inbox!Import
  <2> QED
    BY <2>1, <2>3 DEF Inbox!Next
<1> QED
  BY <1>7, <1>8

\* The end of the process loses what is in transit, and nothing else.
LEMMA KillCrashes ==
    ASSUME Inv, Kill
    PROVE  Inbox!Next
<1>1. /\ OnceInv' /\ Queued' = Queued /\ InTransit' = {}
      /\ imported' = imported /\ sheet' = sheet
  BY KillOnce DEF Inv
<1>2. InTransit \subseteq Item /\ Queued \cap InTransit = {}
  BY PlacesAreItems DEF Inv, OnceInv
<1>3. Waiting' = Queued /\ Waiting = Queued \cup InTransit
  BY <1>1 DEF Waiting
<1>4. \A i \in InTransit : imported[i] = 0 /\ sheet[i].at = "saved"
  BY <1>2 DEF Inv, OnceInv
<1>5. \A i \in InTransit : Stage(i) = "waiting"
  BY <1>2, <1>3, <1>4, StageIs DEF Inv
<1>6. \A i \in InTransit : Stage(i)' = "lost"
  BY <1>1, <1>2, <1>3, <1>4, StageBecomes
<1>7. \A i \in Item \ InTransit : Stage(i)' = Stage(i)
  BY <1>1, <1>2, <1>3, StageIs, StageBecomes DEF Inv
<1>8. InTransit \in SUBSET Inbox!In("waiting")
  BY <1>2, <1>5 DEF Inbox!In
<1>9. Inbox!Become(InTransit, "lost")
  BY <1>6, <1>7 DEF Inbox!Become
<1>10. Inbox!Crash(InTransit)
  BY <1>9 DEF Inbox!Crash, Kill
<1> QED
  BY <1>8, <1>10 DEF Inbox!Next

\* Sharing keeps its promise: what a sheet saved waits until it is imported,
\* once, and is lost only in a closure the process ends before running.  For any
\* items, any that fail to convert, and any number of process ends, when the
\* sheet and the import take turns.
THEOREM ShareImplementsInbox ==
    ASSUME ~Overlap
    PROVE  Spec => ImplementsInbox
<1>1. Init => Inbox!Init
  <2> SUFFICES ASSUME Init PROVE Inbox!Init
    OBVIOUS
  <2>1. OnceInv /\ Waiting = {}
    BY Starts DEF Init, Inv, Waiting, Queued, InTransit
  <2>2. \A i \in Item : Stage(i) = "unshared"
    BY <2>1, StageIs DEF Init
  <2> QED
    BY <2>2 DEF Init, Inbox!Init
<1>2. Inv /\ [Next]_vars => [Inbox!Next]_Inbox!vars
  <2> SUFFICES ASSUME Inv, [Next]_vars PROVE [Inbox!Next]_Inbox!vars
    OBVIOUS
  <2>1. ASSUME NEW i \in Item, WriteQueue(i) PROVE Inbox!Next
    BY <2>1, WriteShares DEF Inbox!Next
  <2>2. CASE Kill
    BY <2>2, KillCrashes
  <2>3. CASE RunClosure
    BY <2>3, ClosureImports
  <2>4. CASE Calm
    BY <2>4, CalmStutters
  <2> QED
    BY <2>1, <2>2, <2>3, <2>4 DEF Next, Calm
<1> QED
  BY <1>1, <1>2, InvHolds, PTL DEF Spec, ImplementsInbox, Inbox!Spec

=============================================================================
