------------------------- MODULE ReminderFlowProofs -------------------------
(***************************************************************************)
(* Notifications and rows agree for a user who waits for what is under way *)
(* (~Overlap), with any number of tasks, reminders and process ends: what  *)
(* a suspended call or a chore wrote down is then still what the list      *)
(* says when it goes on.                                                   *)
(***************************************************************************)
EXTENDS ReminderFlow, FiniteSetTheorems, SequenceTheorems,
        WellFoundedInduction, TLAPS

\* A task is in the list once; a deleted one that may come back is not in it.
IdsInv ==
    /\ \A m, n \in DOMAIN tasks : tasks[m].id = tasks[n].id => m = n
    /\ Len(undo) <= 1
    /\ \A u \in DOMAIN undo, n \in DOMAIN tasks : undo[u].id # tasks[n].id

\* What a call holds is in the list, unchanged, where the call holds it; a task
\* has one call at a time.
CallsInv ==
    /\ \A c \in calls : c.index \in DOMAIN tasks /\ tasks[c.index] = c.task
    /\ \A c, d \in calls : c.task.id = d.task.id => c = d

\* The rows to be renewed are rows of the list, and of no call.
ChoresInv ==
    \A c \in chores : c.op = "schedule" =>
        \A r \in DOMAIN c.rows :
            /\ \E n \in DOMAIN tasks : tasks[n] = c.rows[r]
            /\ \A d \in calls : d.task.id # c.rows[r].id

\* Ids are handed out in order.
MadeInv ==
    /\ \A n \in DOMAIN tasks : tasks[n].nag <= nags
    /\ \A u \in DOMAIN undo : undo[u].nag <= nags
    /\ \A c \in calls : c.nag <= nags
    /\ \A c \in chores : c.op = "cancel" => c.nag <= nags
    /\ \A m \in centre \cup past : m <= nags

\* A notification has one holder: a row, the row that may come back, a call, or
\* a cancellation (which may share that of the row that may come back).
HolderInv ==
    /\ \A m, n \in DOMAIN tasks : tasks[m].nag = tasks[n].nag => m = n \/ tasks[m].nag = NoNag
    /\ \A u \in DOMAIN undo, n \in DOMAIN tasks : undo[u].nag = tasks[n].nag => undo[u].nag = NoNag
    /\ \A c \in calls :
          /\ \A n \in DOMAIN tasks : tasks[n].nag # c.nag
          /\ \A u \in DOMAIN undo : undo[u].nag # c.nag
          /\ \A d \in calls : c.nag = d.nag => c = d
    /\ \A c \in chores : c.op = "cancel" =>
          /\ \A n \in DOMAIN tasks : tasks[n].nag # c.nag
          /\ \A d \in calls : d.nag # c.nag

\* A pending notification is the reminder of a row, or about to be, or about
\* to be cancelled.  What a call replaces is not pending.
CentreInv ==
    /\ centre \cap past = {}
    /\ \A c \in calls : c.task.nag \notin centre
    /\ \A m \in centre :
          \/ \E n \in DOMAIN tasks : tasks[n].nag = m
          \/ \E c \in calls : c.added /\ c.nag = m
          \/ \E c \in chores : c.op = "cancel" /\ c.nag = m

\* A reminder to come that a row shows is pending, whether or not the task is
\* done, unless it is being replaced or excused.
ShownInv ==
    /\ \A c \in calls : c.added => c.nag \in centre \cup past
    /\ \A n \in DOMAIN tasks :
          Future(tasks[n]) /\ tasks[n].id \notin excused =>
              tasks[n].nag \in centre \/ \E c \in calls : c.task.id = tasks[n].id

CalmInv == IdsInv /\ CallsInv /\ ChoresInv /\ MadeInv /\ HolderInv /\ CentreInv /\ ShownInv

-----------------------------------------------------------------------------
(* Sequences of rows.                                                      *)

\* Every non-empty set of naturals has a least one.
LEMMA NatLeast ==
    ASSUME NEW S \in SUBSET Nat, S # {}
    PROVE  \E n \in S : \A m \in S : n <= m
<1>1. PICK n \in S : \A m \in S : ~ (<<m, n>> \in OpToRel(<, Nat))
  BY WFMin, NatLessThanWellFounded, Zenon
<1>2. \A m \in S : ~(m < n)
  BY <1>1 DEF OpToRel
<1> QED
  BY <1>2

\* A task of the list has a first index.
LEMMA IndexOfListed ==
    ASSUME tasks \in Seq(Row), NEW id \in Listed
    PROVE  /\ IndexOf(id) \in DOMAIN tasks /\ TheRow(id).id = id
           /\ TheRow(id) = tasks[IndexOf(id)] /\ TheRow(id) \in Row
<1> DEFINE S == {n \in DOMAIN tasks : tasks[n].id = id}
<1>1. S \in SUBSET Nat /\ S # {} /\ DOMAIN tasks = 1..Len(tasks) /\ Len(tasks) \in Nat
  BY DEF Listed
<1> HIDE DEF S
<1>2. PICK n \in S : \A m \in S : n <= m
  BY <1>1, NatLeast
<1>3. n \in DOMAIN tasks /\ tasks[n].id = id /\ \A m \in 1..(n - 1) : tasks[m].id # id
  <2>1. ASSUME NEW m \in 1..(n - 1), tasks[m].id = id PROVE FALSE
    <3>1. n \in 1..Len(tasks)
      BY <1>1 DEF S
    <3>2. m \in S /\ ~(n <= m)
      BY <1>1, <2>1, <3>1 DEF S
    <3> QED
      BY <1>2, <3>2
  <2> QED
    BY <2>1 DEF S
<1>4. IndexOf(id) \in DOMAIN tasks /\ tasks[IndexOf(id)].id = id
  BY <1>3 DEF IndexOf
<1> QED
  BY <1>1, <1>4, ElementOfSeq DEF TheRow

\* A list with one row replaced.
LEMMA RowReplaced ==
    ASSUME NEW s \in Seq(Row), NEW k \in DOMAIN s, NEW r \in Row
    PROVE  LET t == [s EXCEPT ![k] = r]
           IN  /\ t \in Seq(Row) /\ DOMAIN t = DOMAIN s /\ t[k] = r
               /\ \A n \in DOMAIN s : n # k => t[n] = s[n]
  BY ExceptSeq

\* An injection into a finite set of its own size is onto.
LEMMA SeqsOfSet ==
    ASSUME NEW S, IsFiniteSet(S), NEW f \in SetToSeqs(S)
    PROVE  /\ f \in Seq(S) /\ DOMAIN f = 1..Len(f)
           /\ \A m, n \in DOMAIN f : f[m] = f[n] => m = n
           /\ \A x \in S : \E n \in DOMAIN f : f[n] = x
<1> DEFINE D == 1..Cardinality(S)
<1>1. Cardinality(S) \in Nat
  BY FS_CardinalityType
<1>2. f \in [D -> S] /\ \A m, n \in D : f[m] = f[n] => m = n
  BY DEF SetToSeqs
<1>3. f \in Injection(D, S)
  BY <1>2 DEF Injection, IsInjective
<1>4. Cardinality(D) = Cardinality(S)
  BY <1>1, FS_Interval
<1>5. f \in Surjection(D, S)
  BY <1>3, <1>4, FS_Injection
<1>6. \A x \in S : \E n \in D : f[n] = x
  BY <1>5 DEF Surjection
<1>7. f \in Seq(S) /\ DOMAIN f = D
  BY <1>1, <1>2
<1> QED
  BY <1>2, <1>6, <1>7

\* The rows at `kept`, each once.
LEMMA RearrangedRows ==
    ASSUME tasks \in Seq(Row), NEW kept \in SUBSET DOMAIN tasks, NEW rank,
           Rearranged(kept, rank)
    PROVE  /\ tasks' \in Seq(Row)
           /\ \A n \in DOMAIN tasks' : \E k \in kept : tasks'[n] = tasks[k]
           /\ \A k \in kept : \E n \in DOMAIN tasks' : tasks'[n] = tasks[k]
           /\ IdsInv => \A m, n \in DOMAIN tasks' : tasks'[m].id = tasks'[n].id => m = n
<1>1. PICK f \in SetToSeqs(kept) : tasks' = [n \in DOMAIN f |-> tasks[f[n]]]
  BY DEF Rearranged
<1>2. IsFiniteSet(kept)
  BY FS_Interval, FS_Subset
<1>3. /\ f \in Seq(kept) /\ DOMAIN f = 1..Len(f)
      /\ \A m, n \in DOMAIN f : f[m] = f[n] => m = n
      /\ \A k \in kept : \E n \in DOMAIN f : f[n] = k
  BY <1>2, SeqsOfSet
<1>4. \A n \in DOMAIN f : f[n] \in kept /\ f[n] \in DOMAIN tasks /\ tasks[f[n]] \in Row
  BY <1>3, ElementOfSeq
<1>5. tasks' \in Seq(Row) /\ DOMAIN tasks' = DOMAIN f
  BY <1>1, <1>3, <1>4
<1>6. \A k \in kept : \E n \in DOMAIN tasks' : tasks'[n] = tasks[k]
  BY <1>1, <1>3, <1>5
<1>7. ASSUME IdsInv, NEW m \in DOMAIN tasks', NEW n \in DOMAIN tasks', tasks'[m].id = tasks'[n].id
      PROVE  m = n
  <2>1. f[m] = f[n]
    BY <1>1, <1>4, <1>5, <1>7 DEF IdsInv
  <2> QED
    BY <1>3, <1>5, <2>1
<1> QED
  BY <1>1, <1>4, <1>5, <1>6, <1>7

-----------------------------------------------------------------------------
(* Types, whether or not the user waits.                                   *)

USE DEF NoNag

\* The cancellation of a reminder, if there is one to cancel.
LEMMA CancelOfType ==
    ASSUME NEW n \in Nag \cup {NoNag}
    PROVE  CancelOf(n) \in SUBSET Chore
  BY DEF CancelOf, Chore

\* Reminders start well typed.
LEMMA InitTyped == Init => TypeOK
<1> SUFFICES ASSUME Init PROVE TypeOK
  OBVIOUS
<1>1. PICK order \in SetToSeqs(Tasks) : tasks = [n \in DOMAIN order |-> Fresh(order[n])]
  BY DEF Init
<1>2. order \in Seq(Tasks) /\ DOMAIN order = 1..Len(order)
  BY TasksAssumption, SeqsOfSet
<1>3. \A n \in DOMAIN order : Fresh(order[n]) \in Row
  BY <1>2, ElementOfSeq DEF Fresh, Row
<1>4. tasks \in Seq(Row)
  BY <1>1, <1>2, <1>3
<1> QED
  BY <1>4, BoundsAssumption DEF Init, TypeOK

\* A call of setReminder up to its await ...
LEMMA SetReminderTyped ==
    ASSUME TypeOK, NEW id \in Tasks, SetReminder(id)
    PROVE  TypeOK'
<1>1. IndexOf(id) \in Nat /\ TheRow(id) \in Row
  BY IndexOfListed DEF TypeOK, SetReminder
<1>2. nags + 1 \in Nag /\ nags' \in 0..MaxNags
  BY BoundsAssumption DEF TypeOK, SetReminder, Nag
<1>3. [index |-> IndexOf(id), task |-> TheRow(id), nag |-> nags + 1, added |-> FALSE] \in Call
  BY <1>1, <1>2 DEF Call
<1> QED
  BY <1>2, <1>3 DEF TypeOK, SetReminder

\* One row changes, and one chore at most is spawned.
LEMMA RowSetTyped ==
    ASSUME TypeOK, NEW id \in Listed, NEW row \in Row, SetRow(id, row),
           chores' \in SUBSET Chore,
           UNCHANGED <<nags, past, calls, undo, excused, kills>>, centre' \subseteq centre
    PROVE  TypeOK'
<1>1. IndexOf(id) \in DOMAIN tasks
  BY IndexOfListed DEF TypeOK
<1>2. tasks' \in Seq(Row)
  BY <1>1, RowReplaced DEF TypeOK, SetRow
<1> QED
  BY <1>2 DEF TypeOK

\* ... the operations on one row ...
LEMMA RowActionTyped ==
    ASSUME TypeOK, NEW id \in Tasks,
           RemoveReminder(id) \/ Complete(id) \/ Restore(id) \/ ReconcileProject(id)
    PROVE  TypeOK'
<1> USE DEF memory
<1>0. id \in Listed
  BY DEF RemoveReminder, Complete, Restore, ReconcileProject
<1>1. TheRow(id) \in Row
  BY <1>0, IndexOfListed DEF TypeOK
<1>2. CASE RemoveReminder(id)
  <2>1. [TheRow(id) EXCEPT !.nag = NoNag] \in Row
    BY <1>1 DEF Row
  <2>2. UNCHANGED <<calls, chores, undo>>
    BY <1>2 DEF RemoveReminder
  <2>3. chores' \in SUBSET Chore
    BY <2>2 DEF TypeOK
  <2> QED
    BY <1>0, <1>2, <2>1, <2>2, <2>3, RowSetTyped DEF RemoveReminder
<1>3. CASE Complete(id)
  <2>1. [TheRow(id) EXCEPT !.done = TRUE, !.nag = NoNag] \in Row
    BY <1>1 DEF Row
  <2>2. CancelOf(TheRow(id).nag) \in SUBSET Chore
    BY <1>1, CancelOfType DEF Row
  <2>3. chores' \in SUBSET Chore
    BY <1>3, <2>2 DEF Complete, Spawn, TypeOK
  <2> QED
    BY <1>0, <1>3, <2>1, <2>3, RowSetTyped DEF Complete
<1>4. CASE Restore(id)
  <2> DEFINE row == [TheRow(id) EXCEPT !.done = FALSE, !.nag = IF @ \in past THEN NoNag ELSE @]
  <2> DEFINE cs == IF Future(row) THEN {[op |-> "schedule", rows |-> <<row>>]} ELSE {}
  <2>1. row \in Row
    BY <1>1 DEF Row
  <2>2. SetRow(id, row) /\ chores' = chores \cup cs
    BY <1>4 DEF Restore, Spawn
  <2> HIDE DEF row
  <2>3. cs \in SUBSET Chore
    BY <2>1 DEF Chore
  <2> HIDE DEF cs
  <2>4. chores' \in SUBSET Chore
    BY <2>2, <2>3 DEF TypeOK
  <2> QED
    BY <1>0, <1>4, <2>1, <2>2, <2>4, RowSetTyped DEF Restore
<1>5. CASE ReconcileProject(id)
  <2>1. [TheRow(id) EXCEPT !.done = ~@] \in Row
    BY <1>1 DEF Row
  <2>2. UNCHANGED <<calls, chores, undo>>
    BY <1>5 DEF ReconcileProject
  <2>3. chores' \in SUBSET Chore
    BY <2>2 DEF TypeOK
  <2> QED
    BY <1>0, <1>5, <2>1, <2>2, <2>3, RowSetTyped DEF ReconcileProject
<1> QED
  BY <1>2, <1>3, <1>4, <1>5

\* ... a deletion ...
LEMMA DeleteTyped ==
    ASSUME TypeOK, NEW id \in Tasks, Delete(id)
    PROVE  TypeOK'
<1>1. TheRow(id) \in Row
  BY IndexOfListed DEF TypeOK, Delete
<1>2. tasks' \in Seq(Row)
  BY RearrangedRows DEF TypeOK, Delete, Without
<1>3. CancelOf(TheRow(id).nag) \in SUBSET Chore
  BY <1>1, CancelOfType DEF Row
<1>4. undo' \in Seq(Row)
  BY <1>1 DEF Delete
<1> QED
  BY <1>2, <1>3, <1>4 DEF TypeOK, Delete, Spawn

\* ... the answers to a suspended call, and its end ...
LEMMA CallTyped ==
    ASSUME TypeOK, NEW c \in calls, AddSucceeds(c) \/ AddFails(c) \/ FinishSetReminder(c)
    PROVE  TypeOK'
<1>1. c \in Call /\ c.nag \in Nag /\ c.task \in Row /\ c.task.id \in Tasks
  BY DEF TypeOK, Call, Row
<1>2. CASE AddSucceeds(c)
  <2>1. [c EXCEPT !.added = TRUE] \in Call
    BY <1>1 DEF Call
  <2> QED
    BY <1>1, <1>2, <2>1 DEF AddSucceeds, TypeOK
<1>3. CASE AddFails(c)
  BY <1>1, <1>3 DEF AddFails, TypeOK
<1>4. CASE FinishSetReminder(c) /\ c.index \in DOMAIN tasks
  <2>1. [c.task EXCEPT !.nag = c.nag] \in Row
    BY <1>1 DEF Row
  <2>2. tasks' \in Seq(Row)
    BY <1>4, <2>1, RowReplaced DEF FinishSetReminder, TypeOK
  <2> QED
    BY <1>4, <2>2 DEF FinishSetReminder, TypeOK
<1>5. CASE FinishSetReminder(c) /\ c.index \notin DOMAIN tasks
  BY <1>5 DEF FinishSetReminder, TypeOK
<1> QED
  BY <1>2, <1>3, <1>4, <1>5

\* ... an undo ...
LEMMA UndoTyped ==
    ASSUME TypeOK, UndoDelete
    PROVE  TypeOK'
<1>1. ASSUME NEW u \in DOMAIN undo PROVE undo[u].id \in Tasks
  <2>1. undo[u] \in Row
    BY DEF TypeOK
  <2> QED
    BY <2>1 DEF Row
<1>2. tasks' \in Seq(Row) /\ undo' \in Seq(Row)
  BY DEF TypeOK, UndoDelete
<1> QED
  BY <1>1, <1>2 DEF TypeOK, UndoDelete

\* ... a snapshot that reorders the list ...
LEMMA EchoTyped ==
    ASSUME TypeOK, ApplyEcho
    PROVE  TypeOK'
<1>1. tasks' \in Seq(Row) /\ \A k \in DOMAIN tasks : \E n \in DOMAIN tasks' : tasks'[n] = tasks[k]
  BY RearrangedRows DEF TypeOK, ApplyEcho
<1>2. CASE tasks = <<>>
  BY <1>1, <1>2 DEF TypeOK, ApplyEcho, Spawn
<1>3. CASE tasks # <<>>
  <2>1. 1 \in DOMAIN tasks
    BY <1>3 DEF TypeOK
  <2>2. tasks' # <<>>
    BY <1>1, <2>1
  <2>3. [op |-> "schedule", rows |-> tasks'] \in Chore
    BY <1>1, <2>2 DEF Chore
  <2> QED
    BY <1>1, <2>3 DEF TypeOK, ApplyEcho, Spawn
<1> QED
  BY <1>2, <1>3

\* The next row of a renewal, and what is left of it.
LEMMA ScheduleRows ==
    ASSUME NEW c \in Chore, c.op = "schedule"
    PROVE  /\ c.rows \in Seq(Row) /\ Len(c.rows) \in Nat /\ 1 \in DOMAIN c.rows
           /\ Head(c.rows) = c.rows[1] /\ Head(c.rows) \in Row
           /\ Len(c.rows) # 1 =>
                /\ [c EXCEPT !.rows = Tail(@)] \in Chore
                /\ [c EXCEPT !.rows = Tail(@)].op = "schedule"
                /\ [c EXCEPT !.rows = Tail(@)].rows = Tail(c.rows)
                /\ \A r \in DOMAIN Tail(c.rows) :
                      r + 1 \in DOMAIN c.rows /\ Tail(c.rows)[r] = c.rows[r + 1]
<1>1. c.rows \in Seq(Row) /\ c.rows # <<>> /\ c = [op |-> "schedule", rows |-> c.rows]
  BY DEF Chore
<1>2. Len(c.rows) \in Nat /\ 1 \in DOMAIN c.rows /\ Head(c.rows) = c.rows[1] /\ Head(c.rows) \in Row
  BY <1>1
<1>3. ASSUME Len(c.rows) # 1
      PROVE  /\ Tail(c.rows) \in Seq(Row) \ {<<>>}
             /\ \A r \in DOMAIN Tail(c.rows) :
                   r + 1 \in DOMAIN c.rows /\ Tail(c.rows)[r] = c.rows[r + 1]
  <2> DEFINE s == c.rows
  <2>0. s \in Seq(Row) /\ s # <<>> /\ Len(s) \in Nat /\ Len(s) # 1 /\ Len(s) # 0
    BY <1>1, <1>2, <1>3, EmptySeq
  <2> HIDE DEF s
  <2>1. Tail(s) \in Seq(Row) /\ Len(Tail(s)) = Len(s) - 1 /\ Len(s) >= 2
    <3>1. Tail(s) \in Seq(Row) /\ Len(Tail(s)) = Len(s) - 1
      BY <2>0, HeadTailProperties
    <3>2. \A k \in Nat : k # 0 /\ k # 1 => k >= 2
      OBVIOUS
    <3>3. Len(s) >= 2
      BY <2>0, <3>2, Zenon
    <3> QED
      BY <3>1, <3>3
  <2>2. DOMAIN Tail(s) = 1..Len(s) - 1 /\ DOMAIN s = 1..Len(s)
    BY <2>0, <2>1
  <2>3. \A r \in 1..Len(s) - 1 : Tail(s)[r] = s[r + 1]
    BY <2>0, HeadTailProperties
  <2>4. Tail(s) # <<>>
    <3>1. Len(Tail(s)) # 0
      BY <2>0, <2>1
    <3> QED
      BY <3>1, EmptySeq
  <2> QED
    BY <2>1, <2>2, <2>3, <2>4 DEF s
<1> QED
  BY <1>1, <1>2, <1>3 DEF Chore

\* ... a chore ...
LEMMA ChoreTyped ==
    ASSUME TypeOK, RunChore
    PROVE  TypeOK'
<1>1. PICK c \in chores : Cancel(c) \/ Schedule(c)
  BY DEF RunChore
<1>2. UNCHANGED <<tasks, nags, past, calls, undo, kills>>
  BY DEF RunChore
<1>3. CASE Cancel(c)
  BY <1>2, <1>3 DEF Cancel, TypeOK
<1>4. CASE Schedule(c)
  <2> DEFINE row  == Head(c.rows)
             rest == IF Len(c.rows) = 1 THEN {} ELSE {[c EXCEPT !.rows = Tail(@)]}
  <2>1. row \in Row /\ rest \in SUBSET Chore
    BY <1>4, ScheduleRows DEF Schedule, TypeOK
  <2>2. /\ chores' = (chores \ {c}) \cup rest
        /\ \/ row.nag # NoNag /\ centre' = centre \cup {row.nag} /\ UNCHANGED excused
           \/ excused' = excused \cup {row.id} /\ UNCHANGED centre
           \/ UNCHANGED <<centre, excused>>
    BY <1>4 DEF Schedule, Future
  <2> HIDE DEF row, rest
  <2>3. row.id \in Tasks /\ (row.nag # NoNag => row.nag \in Nag)
    BY <2>1 DEF Row
  <2> QED
    BY <1>2, <2>1, <2>2, <2>3 DEF TypeOK
<1> QED
  BY <1>1, <1>3, <1>4

\* ... the end of the process and the passing of a date keep the type.
LEMMA AroundTyped ==
    ASSUME TypeOK, Kill \/ (\E n \in Nag : DatePasses(n)) \/ UNCHANGED vars
    PROVE  TypeOK'
<1> USE DEF memory
<1>1. CASE Kill
  BY <1>1, BoundsAssumption DEF Kill, TypeOK
<1>2. ASSUME NEW n \in Nag, DatePasses(n) PROVE TypeOK'
  BY <1>2 DEF DatePasses, TypeOK
<1>3. CASE UNCHANGED vars
  BY <1>3 DEF vars, TypeOK
<1> QED
  BY <1>1, <1>2, <1>3

\* The type is inductive.
LEMMA StepTyped == TypeOK /\ [Next]_vars => TypeOK'
<1> SUFFICES ASSUME TypeOK, [Next]_vars PROVE TypeOK'
  OBVIOUS
<1> QED
  BY SetReminderTyped, RowActionTyped, DeleteTyped, CallTyped, UndoTyped, EchoTyped,
     ChoreTyped, AroundTyped DEF Next

\* Every variable keeps its type, also when the user acts on what is under way.
THEOREM ReminderTyped == Spec => []TypeOK
  BY InitTyped, StepTyped, PTL DEF Spec

-----------------------------------------------------------------------------
(* The invariant of a user who waits, action by action.                    *)

\* Notification ids are numbers, and NoNag is none that is held.
LEMMA NagsAreNat ==
    ASSUME TypeOK
    PROVE  /\ nags \in Nat
           /\ \A n \in DOMAIN tasks : tasks[n].nag \in Nat
           /\ \A u \in DOMAIN undo : undo[u].nag \in Nat
           /\ \A c \in calls : c.nag \in Nat /\ c.nag # NoNag
           /\ \A c \in chores : c.op = "cancel" => c.nag \in Nat /\ c.nag # NoNag
<1>1. Nag \subseteq Nat \ {NoNag}
  BY DEF Nag
<1>2. \A n \in DOMAIN tasks : tasks[n] \in Row
  BY DEF TypeOK
<1>3. \A u \in DOMAIN undo : undo[u] \in Row
  BY DEF TypeOK
<1>4. ASSUME NEW c \in chores, c.op = "cancel" PROVE c.nag \in Nag
  BY <1>4 DEF TypeOK, Chore
<1>5. nags \in Nat
  BY BoundsAssumption DEF TypeOK
<1>6. \A c \in calls : c.nag \in Nag
  BY DEF TypeOK, Call
<1>7. \A r \in Row : r.nag \in Nat
  <2>1. \A r \in Row : r.nag \in Nag \cup {NoNag}
    BY DEF Row
  <2>2. NoNag \in Nat
    OBVIOUS
  <2> QED
    BY <1>1, <2>1, <2>2
<1> QED
  BY <1>1, <1>2, <1>3, <1>4, <1>5, <1>6, <1>7

\* What waiting means for a task of the list.
LEMMA IdleMeans ==
    ASSUME TypeOK, ~Overlap, NEW id \in Listed, Idle(id)
    PROVE  /\ \A c \in calls : c.task.id # id
           /\ \A c \in chores : c.op = "schedule" => \A r \in DOMAIN c.rows : c.rows[r].id # id
  BY DEF Idle, ChoresFor

\* At first the list is in the order of the documents, and no reminder is set.
LEMMA InitCalm == Init => CalmInv
<1> SUFFICES ASSUME Init PROVE CalmInv
  OBVIOUS
<1>1. PICK order \in SetToSeqs(Tasks) : tasks = [n \in DOMAIN order |-> Fresh(order[n])]
  BY DEF Init
<1>2. /\ order \in Seq(Tasks)
      /\ \A m, n \in DOMAIN order : order[m] = order[n] => m = n
  BY TasksAssumption, SeqsOfSet
<1>3. \A n \in DOMAIN tasks : tasks[n].id = order[n] /\ tasks[n].nag = NoNag
  BY <1>1 DEF Fresh
<1>4. IdsInv
  BY <1>1, <1>2, <1>3 DEF Init, IdsInv
<1>5. CallsInv /\ ChoresInv
  BY DEF Init, CallsInv, ChoresInv
<1>6. MadeInv /\ HolderInv
  BY <1>3 DEF Init, MadeInv, HolderInv
<1>7. CentreInv /\ ShownInv
  BY <1>3 DEF Init, CentreInv, ShownInv, Future
<1> QED
  BY <1>4, <1>5, <1>6, <1>7 DEF CalmInv

\* A call notes a row that no other call holds, and takes a new id.
LEMMA SetReminderCalm ==
    ASSUME TypeOK, CalmInv, ~Overlap, NEW id \in Tasks, SetReminder(id)
    PROVE  CalmInv'
<1> DEFINE k == IndexOf(id)
           new == [index |-> k, task |-> TheRow(id), nag |-> nags + 1, added |-> FALSE]
<1>1. id \in Listed /\ k \in DOMAIN tasks /\ TheRow(id) = tasks[k] /\ tasks[k].id = id
  BY IndexOfListed DEF TypeOK, SetReminder
<1>2. /\ \A c \in calls : c.task.id # id
      /\ \A c \in chores : c.op = "schedule" => \A r \in DOMAIN c.rows : c.rows[r].id # id
  BY <1>1, IdleMeans DEF SetReminder
<1>3. /\ new.index = k /\ new.task = tasks[k] /\ new.nag = nags + 1 /\ new.added = FALSE
      /\ calls' = calls \cup {new} /\ nags' = nags + 1 /\ centre' = centre \ {tasks[k].nag}
      /\ UNCHANGED <<tasks, past, chores, undo, excused>>
  BY <1>1 DEF SetReminder
<1> HIDE DEF k, new
<1>4. IdsInv'
  BY <1>3 DEF CalmInv, IdsInv
<1>5. CallsInv'
  BY <1>1, <1>2, <1>3 DEF CalmInv, CallsInv
<1>6. ChoresInv'
  BY <1>1, <1>2, <1>3 DEF CalmInv, ChoresInv
<1>7. MadeInv' /\ HolderInv'
  <2>1. nags \in Nat /\ (\A n \in DOMAIN tasks : tasks[n].nag \in Nat)
        /\ (\A u \in DOMAIN undo : undo[u].nag \in Nat)
        /\ (\A c \in calls : c.nag \in Nat)
        /\ (\A c \in chores : c.op = "cancel" => c.nag \in Nat)
    BY NagsAreNat
  <2>2. MadeInv /\ HolderInv
    BY DEF CalmInv
  <2>3. nags <= nags + 1 /\ ~(nags + 1 <= nags) /\ \A x \in Nat : x <= nags => x <= nags + 1
    BY <2>1
  <2>4. \A m \in centre \cup past : m \in Nat
    BY DEF TypeOK, Nag
  <2>5. MadeInv'
    BY <1>3, <2>1, <2>2, <2>3, <2>4 DEF MadeInv
  <2>6. /\ \A n \in DOMAIN tasks : tasks[n].nag # nags + 1
        /\ \A u \in DOMAIN undo : undo[u].nag # nags + 1
        /\ \A c \in calls : c.nag # nags + 1
        /\ \A c \in chores : c.op = "cancel" => c.nag # nags + 1
    BY <2>2, <2>3 DEF MadeInv
  <2>7. HolderInv'
    BY <1>3, <2>2, <2>6 DEF HolderInv
  <2> QED
    BY <2>5, <2>7
<1>8. CentreInv'
  BY <1>3 DEF CalmInv, CentreInv
<1>9. ShownInv'
  BY <1>1, <1>3 DEF CalmInv, ShownInv, HolderInv, Future
<1> QED
  BY <1>4, <1>5, <1>6, <1>7, <1>8, <1>9 DEF CalmInv

\* One row changes, whose notification is at most given up: it is then not
\* pending any more, or about to be cancelled.
LEMMA RowSetCalm ==
    ASSUME TypeOK, CalmInv, ~Overlap, NEW id \in Listed, Idle(id),
           NEW row \in Row, row.id = id, SetRow(id, row),
           row.nag \in {TheRow(id).nag, NoNag},
           NEW cs, chores' = chores \cup cs,
           \A c \in cs :
              \/ c.op = "cancel" /\ c.nag # NoNag /\ c.nag = TheRow(id).nag /\ row.nag = NoNag
              \/ c.op = "schedule" /\ c.rows = <<row>>,
           centre' \in SUBSET centre, centre \ centre' \subseteq {TheRow(id).nag},
           TheRow(id).nag \in centre' =>
              row.nag # NoNag \/ \E c \in cs : c.op = "cancel" /\ c.nag = TheRow(id).nag,
           Future(row) => centre' = centre,
           UNCHANGED <<nags, past, calls, undo, excused>>
    PROVE  CalmInv'
<1> DEFINE k == IndexOf(id)
<1>1. k \in DOMAIN tasks /\ TheRow(id) = tasks[k] /\ tasks[k].id = id
  BY IndexOfListed DEF TypeOK
<1>2. /\ \A c \in calls : c.task.id # id
      /\ \A c \in chores : c.op = "schedule" => \A r \in DOMAIN c.rows : c.rows[r].id # id
  BY IdleMeans
<1>3. /\ DOMAIN tasks' = DOMAIN tasks /\ tasks'[k] = row
      /\ \A n \in DOMAIN tasks : n # k => tasks'[n] = tasks[n]
  BY <1>1, RowReplaced DEF SetRow, TypeOK
<1> HIDE DEF k
<1>4. IdsInv'
  BY <1>1, <1>3 DEF CalmInv, IdsInv
<1>5. CallsInv'
  BY <1>1, <1>2, <1>3 DEF CalmInv, CallsInv
<1>6. ChoresInv'
  <2>1. ASSUME NEW c \in chores, c.op = "schedule", NEW r \in DOMAIN c.rows
        PROVE  (\E n \in DOMAIN tasks' : tasks'[n] = c.rows[r]) /\ \A d \in calls : d.task.id # c.rows[r].id
    BY <1>1, <1>2, <1>3, <2>1 DEF CalmInv, ChoresInv
  <2>2. ASSUME NEW c \in cs, c.op = "schedule", NEW r \in DOMAIN c.rows
        PROVE  (\E n \in DOMAIN tasks' : tasks'[n] = c.rows[r]) /\ \A d \in calls : d.task.id # c.rows[r].id
    <3>1. c.rows[r] = row
      BY <2>2
    <3> QED
      BY <1>1, <1>2, <1>3, <3>1
  <2> QED
    BY <2>1, <2>2 DEF ChoresInv
<1>7. MadeInv'
  BY <1>1, <1>3, NagsAreNat DEF CalmInv, MadeInv
<1>8. HolderInv'
  <2>1. HolderInv /\ \A c \in calls : c.nag # NoNag
    BY NagsAreNat DEF CalmInv
  <2>2. \A c \in chores : c.op = "cancel" => c.nag # NoNag
    BY NagsAreNat
  <2>3. \A m, n \in DOMAIN tasks' : tasks'[m].nag = tasks'[n].nag => m = n \/ tasks'[m].nag = NoNag
    BY <1>1, <1>3, <2>1 DEF HolderInv
  <2>4. \A u \in DOMAIN undo, n \in DOMAIN tasks' : undo[u].nag = tasks'[n].nag => undo[u].nag = NoNag
    BY <1>1, <1>3, <2>1 DEF HolderInv
  <2>5. \A c \in calls, n \in DOMAIN tasks' : tasks'[n].nag # c.nag
    BY <1>1, <1>3, <2>1 DEF HolderInv
  <2>6. \A c \in chores' : c.op = "cancel" =>
          /\ \A n \in DOMAIN tasks' : tasks'[n].nag # c.nag
          /\ \A d \in calls : d.nag # c.nag
    BY <1>1, <1>3, <2>1, <2>2 DEF HolderInv
  <2> QED
    BY <2>1, <2>3, <2>4, <2>5, <2>6 DEF HolderInv
<1>9. CentreInv'
  BY <1>1, <1>3 DEF CalmInv, CentreInv
<1>10. ShownInv'
  <2>1. ASSUME NEW n \in DOMAIN tasks, Future(tasks'[n]), tasks'[n].id \notin excused
        PROVE  tasks'[n].nag \in centre' \/ \E c \in calls : c.task.id = tasks'[n].id
    BY <1>1, <1>3, <2>1 DEF CalmInv, ShownInv, HolderInv, Future
  <2>2. \A c \in calls : c.added => c.nag \in centre' \cup past
    BY <1>1 DEF CalmInv, ShownInv, HolderInv
  <2> QED
    BY <1>3, <2>1, <2>2 DEF ShownInv, Future
<1> QED
  BY <1>4, <1>5, <1>6, <1>7, <1>8, <1>9, <1>10 DEF CalmInv

\* Operations on one row, which no call holds, that cancel or renew its reminder.
LEMMA RowActionCalm ==
    ASSUME TypeOK, CalmInv, ~Overlap, NEW id \in Tasks,
           RemoveReminder(id) \/ Complete(id) \/ Restore(id) \/ ReconcileProject(id)
    PROVE  CalmInv'
<1> USE DEF memory
<1>0. id \in Listed /\ Idle(id)
  BY DEF RemoveReminder, Complete, Restore, ReconcileProject
<1>1. TheRow(id) \in Row /\ TheRow(id).id = id
  BY <1>0, IndexOfListed DEF TypeOK
<1>2. NoNag \notin centre /\ centre \cap past = {}
  BY DEF TypeOK, Nag, CalmInv, CentreInv
<1>3. CASE RemoveReminder(id)
  <2> DEFINE row == [TheRow(id) EXCEPT !.nag = NoNag]
             cs == {}
  <2>1. row \in Row /\ row.id = id /\ row.nag = NoNag
    BY <1>1 DEF Row
  <2>2. SetRow(id, row) /\ centre' = centre \ {TheRow(id).nag}
        /\ UNCHANGED <<nags, past, calls, chores, undo, excused>>
    BY <1>3 DEF RemoveReminder
  <2>3. chores' = chores \cup cs
    BY <2>2
  <2>4. ~Future(row)
    BY <2>1 DEF Future
  <2> HIDE DEF row
  <2>5. \A c \in cs : FALSE
    OBVIOUS
  <2> HIDE DEF cs
  <2> QED
    BY <1>0, <2>1, <2>2, <2>3, <2>4, <2>5, RowSetCalm
<1>4. CASE Complete(id)
  <2> DEFINE row == [TheRow(id) EXCEPT !.done = TRUE, !.nag = NoNag]
             cs == CancelOf(TheRow(id).nag)
  <2>1. row \in Row /\ row.id = id /\ row.nag = NoNag
    BY <1>1 DEF Row
  <2>2. SetRow(id, row) /\ centre' = centre /\ chores' = chores \cup cs
        /\ UNCHANGED <<nags, past, calls, undo, excused>>
    BY <1>4 DEF Complete, Spawn
  <2>3. \A c \in cs : c.op = "cancel" /\ c.nag # NoNag /\ c.nag = TheRow(id).nag
    BY DEF CancelOf
  <2>4. TheRow(id).nag \in centre => \E c \in cs : c.op = "cancel" /\ c.nag = TheRow(id).nag
    BY <1>2 DEF CancelOf
  <2>5. ~Future(row)
    BY <2>1 DEF Future
  <2> HIDE DEF row, cs
  <2> QED
    BY <1>0, <2>1, <2>2, <2>3, <2>4, <2>5, RowSetCalm
<1>5. CASE Restore(id)
  <2> DEFINE row == [TheRow(id) EXCEPT !.done = FALSE, !.nag = IF @ \in past THEN NoNag ELSE @]
             cs == IF Future(row) THEN {[op |-> "schedule", rows |-> <<row>>]} ELSE {}
  <2>1. /\ row \in Row /\ row.id = id
        /\ row.nag = IF TheRow(id).nag \in past THEN NoNag ELSE TheRow(id).nag
    BY <1>1 DEF Row
  <2>2. SetRow(id, row) /\ chores' = chores \cup cs
        /\ UNCHANGED <<nags, centre, past, calls, undo, excused>>
    BY <1>5 DEF Restore, Spawn
  <2> HIDE DEF row
  <2>3. \A c \in cs : c.op = "schedule" /\ c.rows = <<row>>
    OBVIOUS
  <2> HIDE DEF cs
  <2>4. TheRow(id).nag \in centre => row.nag # NoNag
    BY <1>2, <2>1
  <2> QED
    BY <1>0, <2>1, <2>2, <2>3, <2>4, RowSetCalm
<1>6. CASE ReconcileProject(id)
  <2> DEFINE row == [TheRow(id) EXCEPT !.done = ~@]
             cs == {}
  <2>1. row \in Row /\ row.id = id /\ row.nag = TheRow(id).nag
    BY <1>1 DEF Row
  <2>2. SetRow(id, row) /\ UNCHANGED <<nags, centre, past, calls, chores, undo, excused>>
    BY <1>6 DEF ReconcileProject
  <2>3. chores' = chores \cup cs
    BY <2>2
  <2> HIDE DEF row
  <2>4. \A c \in cs : FALSE
    OBVIOUS
  <2> HIDE DEF cs
  <2>5. TheRow(id).nag \in centre => row.nag # NoNag
    BY <1>2, <2>1
  <2> QED
    BY <1>0, <2>1, <2>2, <2>3, <2>4, <2>5, RowSetCalm
<1> QED
  BY <1>3, <1>4, <1>5, <1>6

\* A deletion, made while nothing is suspended, spawns the cancellation.
LEMMA DeleteCalm ==
    ASSUME TypeOK, CalmInv, ~Overlap, NEW id \in Tasks, Delete(id)
    PROVE  CalmInv'
<1> DEFINE row == TheRow(id)
           kept == {n \in DOMAIN tasks : tasks[n].id # id}
           cs == CancelOf(row.nag)
<1>1. /\ id \in Listed /\ Idle(id) /\ calls = {}
      /\ chores' = chores \cup cs /\ undo' = <<row>>
      /\ UNCHANGED <<nags, centre, past, calls, excused>>
  BY DEF Delete, MayReshape, Spawn
<1>2. PICK k \in DOMAIN tasks : row = tasks[k] /\ tasks[k].id = id
  BY <1>1, IndexOfListed DEF TypeOK
<1>3. \A c \in chores : c.op = "schedule" => \A r \in DOMAIN c.rows : c.rows[r].id # id
  BY <1>1, IdleMeans
<1>4. /\ tasks' \in Seq(Row)
      /\ \A n \in DOMAIN tasks' : \E m \in kept : tasks'[n] = tasks[m]
      /\ \A m \in kept : \E n \in DOMAIN tasks' : tasks'[n] = tasks[m]
      /\ \A m, n \in DOMAIN tasks' : tasks'[m].id = tasks'[n].id => m = n
  BY RearrangedRows DEF Delete, Without, TypeOK, CalmInv
<1>5. /\ kept \in SUBSET DOMAIN tasks /\ k \notin kept
      /\ \A m \in DOMAIN tasks : m \in kept <=> m # k
  BY <1>2 DEF CalmInv, IdsInv
<1>6. /\ \A c \in cs : c.op = "cancel" /\ c.nag = row.nag /\ row.nag # NoNag
      /\ row.nag # NoNag => \E c \in cs : c.op = "cancel" /\ c.nag = row.nag
  <2> DEFINE w == [op |-> "cancel", nag |-> row.nag]
  <2>1. w.op = "cancel" /\ w.nag = row.nag /\ cs = IF row.nag = NoNag THEN {} ELSE {w}
    BY DEF CancelOf
  <2> HIDE DEF w, cs, row
  <2> QED
    BY <2>1
<1>7. /\ Len(undo') = 1 /\ DOMAIN undo' = {1} /\ undo'[1] = row
  BY <1>1
<1> HIDE DEF row, kept, cs
<1>8. IdsInv'
  BY <1>2, <1>4, <1>5, <1>7 DEF CalmInv, IdsInv
<1>9. CallsInv' /\ ShownInv'
  BY <1>1, <1>4, <1>5 DEF CalmInv, CallsInv, ShownInv, Future
<1>10. ChoresInv'
  <2>1. ASSUME NEW c \in chores, c.op = "schedule", NEW r \in DOMAIN c.rows
        PROVE  \E n \in DOMAIN tasks' : tasks'[n] = c.rows[r]
    <3>1. PICK m \in DOMAIN tasks : tasks[m] = c.rows[r]
      BY <2>1 DEF CalmInv, ChoresInv
    <3>2. m \in kept
      BY <1>2, <1>3, <1>5, <2>1, <3>1
    <3> QED
      BY <1>4, <3>1, <3>2
  <2> QED
    BY <1>1, <1>6, <2>1 DEF ChoresInv
<1>11. MadeInv'
  BY <1>1, <1>2, <1>4, <1>5, <1>6, <1>7 DEF CalmInv, MadeInv
<1>12. HolderInv'
  <2>0. HolderInv
    BY DEF CalmInv
  <2>1. \A m, n \in DOMAIN tasks' : tasks'[m].nag = tasks'[n].nag => m = n \/ tasks'[m].nag = NoNag
    BY <1>4, <1>5, <2>0 DEF HolderInv
  <2>2. \A n \in DOMAIN tasks' : row.nag = tasks'[n].nag => row.nag = NoNag
    BY <1>2, <1>4, <1>5, <2>0 DEF HolderInv
  <2>3. \A c \in chores' : c.op = "cancel" => \A n \in DOMAIN tasks' : tasks'[n].nag # c.nag
    BY <1>1, <1>4, <1>5, <1>6, <2>0, <2>2 DEF HolderInv
  <2> QED
    BY <1>1, <1>7, <2>1, <2>2, <2>3 DEF HolderInv
<1>13. CentreInv'
  <2>1. ASSUME NEW m \in centre
        PROVE  \/ \E n \in DOMAIN tasks' : tasks'[n].nag = m
               \/ \E c \in chores' : c.op = "cancel" /\ c.nag = m
    <3>1. m # NoNag
      BY DEF TypeOK, Nag
    <3>2. CASE \E n \in DOMAIN tasks : tasks[n].nag = m
      BY <1>1, <1>2, <1>4, <1>5, <1>6, <3>1, <3>2
    <3>3. CASE \E c \in chores : c.op = "cancel" /\ c.nag = m
      BY <1>1, <3>3
    <3> QED
      BY <1>1, <3>2, <3>3 DEF CalmInv, CentreInv
  <2> QED
    BY <1>1, <2>1 DEF CalmInv, CentreInv
<1> QED
  BY <1>8, <1>9, <1>10, <1>11, <1>12, <1>13 DEF CalmInv

\* The answer of the notification centre concerns the new id only.
LEMMA AddCalm ==
    ASSUME TypeOK, CalmInv, NEW c \in calls, AddSucceeds(c) \/ AddFails(c)
    PROVE  CalmInv'
<1>0. c \in Call
  BY DEF TypeOK
<1>1. CASE AddSucceeds(c)
  <2> DEFINE d == [c EXCEPT !.added = TRUE]
  <2>1. d.index = c.index /\ d.task = c.task /\ d.nag = c.nag /\ d.added = TRUE
    BY <1>0 DEF Call
  <2>2. /\ calls' = (calls \ {c}) \cup {d} /\ centre' = centre \cup ({c.nag} \ past)
        /\ UNCHANGED <<tasks, nags, past, chores, undo, excused>>
    BY <1>1 DEF AddSucceeds
  <2> HIDE DEF d
  <2>3. IdsInv' /\ CallsInv' /\ ChoresInv'
    BY <2>1, <2>2 DEF CalmInv, IdsInv, CallsInv, ChoresInv
  <2>4. MadeInv'
    BY <2>1, <2>2 DEF CalmInv, MadeInv
  <2>5. HolderInv'
    BY <2>1, <2>2 DEF CalmInv, HolderInv
  <2>6. \A e \in calls : e.task.nag # c.nag
    BY DEF CalmInv, CallsInv, HolderInv
  <2>7. CentreInv'
    BY <2>1, <2>2, <2>6 DEF CalmInv, CentreInv
  <2>8. ShownInv'
    BY <2>1, <2>2 DEF CalmInv, ShownInv, Future
  <2> QED
    BY <2>3, <2>4, <2>5, <2>7, <2>8 DEF CalmInv
<1>2. CASE AddFails(c)
  <2>1. /\ ~c.added /\ calls' = calls \ {c} /\ excused' = excused \cup {c.task.id}
        /\ UNCHANGED <<tasks, nags, centre, past, chores, undo>>
    BY <1>2 DEF AddFails
  <2>2. IdsInv' /\ CallsInv' /\ ChoresInv' /\ MadeInv'
    BY <2>1 DEF CalmInv, IdsInv, CallsInv, ChoresInv, MadeInv
  <2>3. HolderInv' /\ CentreInv'
    BY <2>1 DEF CalmInv, HolderInv, CentreInv
  <2>4. ShownInv'
    BY <2>1 DEF CalmInv, ShownInv, Future
  <2> QED
    BY <2>2, <2>3, <2>4 DEF CalmInv
<1> QED
  BY <1>1, <1>2

\* The call writes where its task still is.
LEMMA FinishRows ==
    ASSUME TypeOK, CalmInv, NEW c \in calls, FinishSetReminder(c)
    PROVE  /\ c.added /\ c.index \in DOMAIN tasks /\ tasks[c.index] = c.task
           /\ tasks' = [tasks EXCEPT ![c.index] = [c.task EXCEPT !.nag = c.nag]]
           /\ calls' = calls \ {c} /\ excused' = excused \ {c.task.id}
           /\ UNCHANGED <<nags, centre, past, chores, undo>>
           /\ DOMAIN tasks' = DOMAIN tasks
           /\ tasks'[c.index].id = c.task.id /\ tasks'[c.index].nag = c.nag
           /\ tasks'[c.index].done = c.task.done
           /\ \A n \in DOMAIN tasks : n # c.index => tasks'[n] = tasks[n]
<1>1. c.index \in DOMAIN tasks /\ tasks[c.index] = c.task
  BY DEF CalmInv, CallsInv
<1>2. c.task \in Row /\ c.nag \in Nag
  BY DEF TypeOK, Call
<1> DEFINE row == [c.task EXCEPT !.nag = c.nag]
<1>3. row \in Row /\ row.id = c.task.id /\ row.nag = c.nag /\ row.done = c.task.done
  BY <1>2 DEF Row
<1>4. /\ c.added /\ tasks' = [tasks EXCEPT ![c.index] = row]
      /\ calls' = calls \ {c} /\ excused' = excused \ {c.task.id}
      /\ UNCHANGED <<nags, centre, past, chores, undo>>
  BY <1>1 DEF FinishSetReminder
<1> HIDE DEF row
<1>5. /\ DOMAIN tasks' = DOMAIN tasks /\ tasks'[c.index] = row
      /\ \A n \in DOMAIN tasks : n # c.index => tasks'[n] = tasks[n]
  BY <1>1, <1>3, <1>4, RowReplaced DEF TypeOK
<1> QED
  BY <1>1, <1>3, <1>4, <1>5 DEF row

\* The row at the noted index is still the row that was noted.
LEMMA FinishCalm ==
    ASSUME TypeOK, CalmInv, NEW c \in calls, FinishSetReminder(c)
    PROVE  CalmInv'
<1> DEFINE k == c.index
<1>1. /\ c.added /\ k \in DOMAIN tasks /\ tasks[k] = c.task
      /\ calls' = calls \ {c} /\ excused' = excused \ {c.task.id}
      /\ UNCHANGED <<nags, centre, past, chores, undo>>
      /\ DOMAIN tasks' = DOMAIN tasks /\ tasks'[k].id = c.task.id /\ tasks'[k].nag = c.nag
      /\ \A n \in DOMAIN tasks : n # k => tasks'[n] = tasks[n]
  BY FinishRows
<1>2. \A d \in calls : d # c => d.index # k /\ d.task.id # c.task.id
  BY <1>1 DEF CalmInv, CallsInv
<1> HIDE DEF k
<1>3. IdsInv'
  BY <1>1 DEF CalmInv, IdsInv
<1>4. CallsInv'
  BY <1>1, <1>2 DEF CalmInv, CallsInv
<1>5. ChoresInv'
  BY <1>1 DEF CalmInv, ChoresInv
<1>6. MadeInv'
  BY <1>1 DEF CalmInv, MadeInv
<1>7. HolderInv'
  <2>0. HolderInv
    BY DEF CalmInv
  <2>1. \A m, n \in DOMAIN tasks' : tasks'[m].nag = tasks'[n].nag => m = n \/ tasks'[m].nag = NoNag
    BY <1>1, <2>0 DEF HolderInv
  <2>2. \A u \in DOMAIN undo, n \in DOMAIN tasks' : undo[u].nag = tasks'[n].nag => undo[u].nag = NoNag
    BY <1>1, <2>0 DEF HolderInv
  <2>3. \A d \in calls', n \in DOMAIN tasks' : tasks'[n].nag # d.nag
    BY <1>1, <2>0 DEF HolderInv
  <2>4. \A d \in chores : d.op = "cancel" => \A n \in DOMAIN tasks' : tasks'[n].nag # d.nag
    BY <1>1, <2>0 DEF HolderInv
  <2> QED
    BY <1>1, <2>0, <2>1, <2>2, <2>3, <2>4 DEF HolderInv
<1>8. CentreInv'
  <2>1. ASSUME NEW m \in centre
        PROVE  \/ \E n \in DOMAIN tasks' : tasks'[n].nag = m
               \/ \E d \in calls' : d.added /\ d.nag = m
               \/ \E d \in chores' : d.op = "cancel" /\ d.nag = m
    BY <1>1 DEF CalmInv, CentreInv
  <2> QED
    BY <1>1, <2>1 DEF CalmInv, CentreInv
<1>9. ShownInv'
  BY <1>1, <1>2 DEF CalmInv, ShownInv, IdsInv, Future
<1> QED
  BY <1>3, <1>4, <1>5, <1>6, <1>7, <1>8, <1>9 DEF CalmInv

\* A row brought back is excused until its reminder is set again.
LEMMA UndoCalm ==
    ASSUME TypeOK, CalmInv, ~Overlap, UndoDelete
    PROVE  CalmInv'
<1> DEFINE k == Len(tasks) + 1
<1>1. /\ chores = {} /\ undo # <<>> /\ undo' = <<>> /\ tasks' = tasks \o undo
      /\ excused' = excused \cup {undo[n].id : n \in DOMAIN undo}
      /\ UNCHANGED <<nags, centre, past, calls, chores>>
  BY DEF UndoDelete
<1>2. Len(undo) = 1 /\ DOMAIN undo = {1}
  <2>1. undo \in Seq(Row) /\ Len(undo) \in Nat /\ Len(undo) <= 1 /\ DOMAIN undo = 1..Len(undo)
    BY DEF TypeOK, CalmInv, IdsInv
  <2>2. Len(undo) # 0
    BY <1>1, <2>1, EmptySeq
  <2>3. \A m \in Nat : m <= 1 /\ m # 0 => m = 1 /\ 1..m = {1}
    OBVIOUS
  <2>4. Len(undo) = 1 /\ 1..Len(undo) = {1}
    BY <2>1, <2>2, <2>3, Zenon
  <2> QED
    BY <2>1, <2>4
<1>3. /\ DOMAIN tasks' = DOMAIN tasks \cup {k} /\ k \notin DOMAIN tasks
      /\ tasks'[k] = undo[1]
      /\ \A n \in DOMAIN tasks : tasks'[n] = tasks[n]
  <2>1. tasks \in Seq(Row) /\ undo \in Seq(Row) /\ Len(tasks) \in Nat
    BY DEF TypeOK
  <2>2. /\ tasks' \in Seq(Row) /\ Len(tasks') = Len(tasks) + Len(undo)
        /\ \A n \in 1..(Len(tasks) + Len(undo)) :
              tasks'[n] = IF n <= Len(tasks) THEN tasks[n] ELSE undo[n - Len(tasks)]
    BY <1>1, <2>1, ConcatProperties
  <2>3. DOMAIN tasks = 1..Len(tasks) /\ DOMAIN tasks' = 1..k
    BY <1>2, <2>1, <2>2
  <2>4. \A m \in Nat : 1..(m + 1) = (1..m) \cup {m + 1} /\ m + 1 \notin 1..m /\ ~(m + 1 <= m)
                      /\ (m + 1) - m = 1
    OBVIOUS
  <2>5. k \in 1..(Len(tasks) + Len(undo)) /\ ~(k <= Len(tasks)) /\ k - Len(tasks) = 1
    BY <1>2, <2>1
  <2>6. \A n \in 1..Len(tasks) : n \in 1..(Len(tasks) + Len(undo)) /\ n <= Len(tasks)
    BY <1>2, <2>1
  <2> QED
    BY <2>1, <2>2, <2>3, <2>4, <2>5, <2>6
<1>4. excused' = excused \cup {undo[1].id} /\ \A u \in DOMAIN undo' : FALSE
  BY <1>1, <1>2
<1> HIDE DEF k
<1>5. IdsInv'
  BY <1>1, <1>2, <1>3 DEF CalmInv, IdsInv
<1>6. CallsInv' /\ ChoresInv'
  BY <1>1, <1>3 DEF CalmInv, CallsInv, ChoresInv
<1>7. MadeInv'
  BY <1>1, <1>2, <1>3, <1>4 DEF CalmInv, MadeInv
<1>8. HolderInv'
  BY <1>1, <1>2, <1>3, <1>4 DEF CalmInv, HolderInv
<1>9. CentreInv'
  BY <1>1, <1>3 DEF CalmInv, CentreInv
<1>10. ShownInv'
  BY <1>1, <1>3, <1>4 DEF CalmInv, ShownInv, Future
<1> QED
  BY <1>5, <1>6, <1>7, <1>8, <1>9, <1>10 DEF CalmInv

\* A snapshot moves rows, made while nothing is suspended, and renews reminders.
LEMMA EchoCalm ==
    ASSUME TypeOK, CalmInv, ~Overlap, ApplyEcho
    PROVE  CalmInv'
<1> DEFINE cs == IF tasks = <<>> THEN {} ELSE {[op |-> "schedule", rows |-> tasks']}
<1>1. /\ calls = {} /\ (\A c \in chores : c.op # "schedule") /\ chores' = chores \cup cs
      /\ UNCHANGED <<nags, centre, past, calls, undo, excused>>
  BY DEF ApplyEcho, MayReshape, Spawn
<1>2. /\ tasks' \in Seq(Row)
      /\ \A n \in DOMAIN tasks' : \E m \in DOMAIN tasks : tasks'[n] = tasks[m]
      /\ \A m \in DOMAIN tasks : \E n \in DOMAIN tasks' : tasks'[n] = tasks[m]
      /\ \A m, n \in DOMAIN tasks' : tasks'[m].id = tasks'[n].id => m = n
  BY RearrangedRows DEF ApplyEcho, TypeOK, CalmInv
<1>3. \A c \in cs : c.op = "schedule" /\ c.rows = tasks'
  OBVIOUS
<1> HIDE DEF cs
<1>4. IdsInv'
  BY <1>1, <1>2 DEF CalmInv, IdsInv
<1>5. CallsInv' /\ ChoresInv' /\ ShownInv'
  BY <1>1, <1>2, <1>3 DEF CalmInv, CallsInv, ChoresInv, ShownInv, Future
<1>6. MadeInv'
  BY <1>1, <1>2, <1>3 DEF CalmInv, MadeInv
<1>7. HolderInv'
  BY <1>1, <1>2, <1>3 DEF CalmInv, HolderInv, IdsInv
<1>8. CentreInv'
  BY <1>1, <1>2 DEF CalmInv, CentreInv
<1> QED
  BY <1>4, <1>5, <1>6, <1>7, <1>8 DEF CalmInv

\* A chore cancels what no row shows, or renews what a row still shows.
LEMMA ChoreCalm ==
    ASSUME TypeOK, CalmInv, RunChore
    PROVE  CalmInv'
<1>1. PICK c \in chores : Cancel(c) \/ Schedule(c)
  BY DEF RunChore
<1>2. UNCHANGED <<tasks, nags, past, calls, undo>>
  BY DEF RunChore
<1>3. CASE Cancel(c)
  <2>1. /\ c.op = "cancel" /\ centre' = centre \ {c.nag} /\ chores' = chores \ {c}
        /\ UNCHANGED excused
    BY <1>3 DEF Cancel
  <2>2. IdsInv' /\ CallsInv' /\ ChoresInv'
    BY <1>2, <2>1 DEF CalmInv, IdsInv, CallsInv, ChoresInv
  <2>3. MadeInv' /\ HolderInv'
    BY <1>2, <2>1 DEF CalmInv, MadeInv, HolderInv
  <2>4. CentreInv'
    BY <1>2, <2>1 DEF CalmInv, CentreInv
  <2>5. ShownInv'
    BY <1>2, <2>1 DEF CalmInv, HolderInv, ShownInv, Future
  <2> QED
    BY <2>2, <2>3, <2>4, <2>5 DEF CalmInv
<1>4. CASE Schedule(c)
  <2> DEFINE row  == Head(c.rows)
             rest == IF Len(c.rows) = 1 THEN {} ELSE {[c EXCEPT !.rows = Tail(@)]}
  <2>0. c \in Chore /\ c.op = "schedule"
    BY <1>4 DEF TypeOK, Schedule
  <2>1. /\ 1 \in DOMAIN c.rows /\ row = c.rows[1]
        /\ \A d \in rest : d.op = "schedule" /\ \A r \in DOMAIN d.rows :
              \E s \in DOMAIN c.rows : d.rows[r] = c.rows[s]
    <3> DEFINE e == [c EXCEPT !.rows = Tail(@)]
    <3>1. /\ 1 \in DOMAIN c.rows /\ row = c.rows[1]
          /\ Len(c.rows) # 1 => e.op = "schedule" /\ e.rows = Tail(c.rows)
                /\ \A r \in DOMAIN Tail(c.rows) :
                      r + 1 \in DOMAIN c.rows /\ Tail(c.rows)[r] = c.rows[r + 1]
      BY <2>0, ScheduleRows
    <3>2. \A d \in rest : d = e /\ Len(c.rows) # 1
      OBVIOUS
    <3> HIDE DEF e, rest
    <3> QED
      BY <3>1, <3>2
  <2>2. /\ chores' = (chores \ {c}) \cup rest
        /\ \/ Future(row) /\ centre' = centre \cup {row.nag} /\ UNCHANGED excused
           \/ excused' = excused \cup {row.id} /\ UNCHANGED centre
           \/ UNCHANGED <<centre, excused>>
    BY <1>4 DEF Schedule
  <2> HIDE DEF row, rest
  <2>3. PICK k \in DOMAIN tasks : tasks[k] = row
    BY <2>0, <2>1 DEF CalmInv, ChoresInv
  <2>4. \A d \in calls : d.task.id # row.id
    BY <2>0, <2>1 DEF CalmInv, ChoresInv
  <2>5. IdsInv' /\ CallsInv'
    BY <1>2 DEF CalmInv, IdsInv, CallsInv
  <2>6. ChoresInv'
    BY <1>2, <2>0, <2>1, <2>2 DEF CalmInv, ChoresInv
  <2>7. MadeInv'
    BY <1>2, <2>0, <2>1, <2>2, <2>3 DEF CalmInv, MadeInv
  <2>8. HolderInv'
    BY <1>2, <2>0, <2>1, <2>2 DEF CalmInv, HolderInv
  <2>9. CentreInv'
    <3>1. CentreInv /\ \A d \in chores : d.op = "cancel" => d \in chores'
      BY <2>0, <2>2 DEF CalmInv
    <3>2. \A d \in calls : row.nag # NoNag => d.task.nag # row.nag
      BY <2>3, <2>4 DEF CalmInv, CallsInv, HolderInv
    <3> QED
      BY <1>2, <2>2, <2>3, <3>1, <3>2 DEF CentreInv, Future
  <2>10. ShownInv'
    BY <1>2, <2>2 DEF CalmInv, ShownInv, Future
  <2> QED
    BY <2>5, <2>6, <2>7, <2>8, <2>9, <2>10 DEF CalmInv
<1> QED
  BY <1>1, <1>3, <1>4

\* A process ends with nothing under way; a notification whose date passes rings.
LEMMA AroundCalm ==
    ASSUME TypeOK, CalmInv, ~Overlap, Kill \/ (\E n \in Nag : DatePasses(n)) \/ UNCHANGED vars
    PROVE  CalmInv'
<1>1. CASE Kill
  <2>1. /\ calls = {} /\ chores = {} /\ undo' = <<>> /\ calls' = {} /\ chores' = {}
        /\ UNCHANGED <<tasks, nags, centre, past, excused>>
    BY <1>1 DEF Kill
  <2>2. Len(undo') = 0 /\ \A u \in DOMAIN undo' : FALSE
    BY <2>1
  <2>3. IdsInv' /\ CallsInv' /\ ChoresInv'
    BY <2>1, <2>2 DEF CalmInv, IdsInv, CallsInv, ChoresInv
  <2>4. MadeInv' /\ HolderInv'
    BY <2>1, <2>2 DEF CalmInv, MadeInv, HolderInv
  <2>5. CentreInv' /\ ShownInv'
    BY <2>1 DEF CalmInv, CentreInv, ShownInv, Future
  <2> QED
    BY <2>3, <2>4, <2>5 DEF CalmInv
<1>2. ASSUME NEW n \in Nag, DatePasses(n) PROVE CalmInv'
  <2>1. n \in 1..nags /\ past' = past \cup {n} /\ centre' = centre \ {n}
    BY <1>2 DEF DatePasses
  <2>2. UNCHANGED <<tasks, nags, calls, chores, undo, excused>>
    BY <1>2 DEF DatePasses, memory
  <2>3. n <= nags
    BY <2>1, NagsAreNat
  <2>4. IdsInv' /\ CallsInv' /\ ChoresInv'
    BY <2>2 DEF CalmInv, IdsInv, CallsInv, ChoresInv
  <2>5. MadeInv' /\ HolderInv'
    BY <2>1, <2>2, <2>3 DEF CalmInv, MadeInv, HolderInv
  <2>6. CentreInv'
    BY <2>1, <2>2 DEF CalmInv, CentreInv
  <2>7. ShownInv'
    BY <2>1, <2>2 DEF CalmInv, ShownInv, Future
  <2> QED
    BY <2>4, <2>5, <2>6, <2>7 DEF CalmInv
<1>3. CASE UNCHANGED vars
  <2>1. UNCHANGED <<tasks, nags, centre, past, calls, chores, undo, excused>>
    BY <1>3 DEF vars, memory
  <2> QED
    BY <2>1 DEF CalmInv, IdsInv, CallsInv, ChoresInv, MadeInv, HolderInv, CentreInv, ShownInv, Future
<1> QED
  BY <1>1, <1>2, <1>3

\* For a user who waits, the invariant is inductive.
LEMMA StepCalm == ~Overlap /\ TypeOK /\ CalmInv /\ [Next]_vars => CalmInv'
<1> SUFFICES ASSUME ~Overlap, TypeOK, CalmInv, [Next]_vars PROVE CalmInv'
  OBVIOUS
<1> QED
  BY SetReminderCalm, RowActionCalm, DeleteCalm, AddCalm, FinishCalm, UndoCalm, EchoCalm,
     ChoreCalm, AroundCalm DEF Next

-----------------------------------------------------------------------------
(* What the calm invariant gives.                                          *)

\* For a user who waits, what suspended calls and spawned chores wrote down stays
\* true of the list, and every notification has one holder.
THEOREM CalmReached == ASSUME ~Overlap PROVE Spec => [](TypeOK /\ CalmInv)
<1>1. Init => TypeOK /\ CalmInv
  BY InitTyped, InitCalm
<1>2. (TypeOK /\ CalmInv) /\ [Next]_vars => (TypeOK /\ CalmInv)'
  BY StepTyped, StepCalm
<1> QED
  BY <1>1, <1>2, PTL DEF Spec

\* The changelog's "Smart Cancellation": for a user who waits, a notification
\* that is still pending when nothing is under way is the reminder of a row.
THEOREM NotificationsOnTheirTasks ==
    ASSUME ~Overlap PROVE Spec => []NagIsOnItsTask
<1>1. CalmInv => NagIsOnItsTask
  BY DEF CalmInv, CentreInv, NagIsOnItsTask, Quiet
<1> QED
  BY <1>1, CalmReached, PTL

\* ... and a reminder to come that an open task shows will ring, unless the
\* notification centre refused it or the task came back by an undo.
THEOREM ShownRemindersRing ==
    ASSUME ~Overlap PROVE Spec => []ShownNagRings
<1>1. CalmInv => ShownNagRings
  BY DEF CalmInv, ShownInv, ShownNagRings, Quiet
<1> QED
  BY <1>1, CalmReached, PTL

\* setReminder's write after its await changes the reminder of its task and
\* nothing else, for a user who waits.
THEOREM RemindersUpdateTheirTask ==
    ASSUME ~Overlap PROVE Spec => UpdatesItsTask
<1> DEFINE Step == \A c \in calls : FinishSetReminder(c) =>
                      tasks' = [n \in DOMAIN tasks |->
                                   IF tasks[n].id = c.task.id THEN [tasks[n] EXCEPT !.nag = c.nag]
                                   ELSE tasks[n]]
<1>1. TypeOK /\ CalmInv /\ [Next]_vars => [Step]_vars
  <2> SUFFICES ASSUME TypeOK, CalmInv, NEW c \in calls, FinishSetReminder(c)
               PROVE  tasks' = [n \in DOMAIN tasks |->
                                   IF tasks[n].id = c.task.id THEN [tasks[n] EXCEPT !.nag = c.nag]
                                   ELSE tasks[n]]
    OBVIOUS
  <2>1. /\ c.index \in DOMAIN tasks /\ tasks[c.index] = c.task
        /\ tasks' = [tasks EXCEPT ![c.index] = [c.task EXCEPT !.nag = c.nag]]
    BY FinishRows
  <2>2. \A n \in DOMAIN tasks : tasks[n].id = c.task.id <=> n = c.index
    BY <2>1 DEF CalmInv, IdsInv
  <2>3. tasks = [n \in DOMAIN tasks |-> tasks[n]]
    BY DEF TypeOK
  <2> QED
    BY <2>1, <2>2, <2>3
<1> QED
  BY <1>1, CalmReached, PTL DEF Spec, UpdatesItsTask

=============================================================================
