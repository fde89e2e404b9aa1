------------------------ MODULE TaskHierarchyProofs ------------------------
(***************************************************************************)
(* Theorems about TaskHierarchy for every set of ids, every undo depth and *)
(* every set of snapshots.  What the operations do to a table comes from   *)
(* TaskTableProofs; what is left is one step per action.                   *)
(***************************************************************************)
EXTENDS TaskHierarchy, TaskTableProofs, SequenceTheorems

-----------------------------------------------------------------------------
(* Stacks as sequences.                                                    *)

\* A stack of entries, as a sequence.
LEMMA StackLength ==
    ASSUME NEW s \in Seq(Entry)
    PROVE  /\ Len(s) \in Nat
           /\ DOMAIN s = 1..Len(s)
           /\ \A i \in 1..Len(s) : s[i] \in Entry
           /\ s # <<>> => Len(s) # 0
BY LenProperties, ElementOfSeq, EmptySeq

\* The last entry of a stack and what is left without it.
LEMMA LastAndFront ==
    ASSUME NEW s \in Seq(Entry), s # <<>>
    PROVE  /\ Last(s) \in Entry
           /\ Last(s) = s[Len(s)] /\ Len(s) \in 1..Len(s)
           /\ Front(s) \in Seq(Entry)
           /\ Len(Front(s)) = Len(s) - 1
           /\ \A i \in 1..(Len(s) - 1) : Front(s)[i] = s[i]
<1>1. /\ Len(s) \in Nat /\ Len(s) # 0
      /\ \A i \in 1..Len(s) : s[i] \in Entry
  BY StackLength
<1>2. PICK m \in Nat : Len(s) = m + 1
  <2>1. Len(s) - 1 \in Nat /\ Len(s) = (Len(s) - 1) + 1
    BY <1>1
  <2> QED
    BY <2>1
<1>3. \A i \in 1..m : s[i] \in Entry
  BY <1>1, <1>2
<1>4. /\ SubSeq(s, 1, m) \in Seq(Entry)
      /\ Len(SubSeq(s, 1, m)) = IF 1 <= m THEN m - 1 + 1 ELSE 0
      /\ \A i \in 1..(m - 1 + 1) : SubSeq(s, 1, m)[i] = s[1 + i - 1]
  <2>1. 1 \in Int /\ m \in Int
    OBVIOUS
  <2> QED
    BY <1>3, <2>1, SubSeqProperties
<1>5. Len(SubSeq(s, 1, m)) = m
  BY <1>4
<1>6. \A i \in 1..m : SubSeq(s, 1, m)[i] = s[i]
  <2>1. \A i \in 1..m : i \in 1..(m - 1 + 1) /\ 1 + i - 1 = i
    OBVIOUS
  <2> QED
    BY <1>4, <2>1
<1>7. Front(s) = SubSeq(s, 1, m) /\ Last(s) = s[Len(s)] /\ Len(s) \in 1..Len(s)
  <2>1. Len(s) - 1 = m
    BY <1>2
  <2> QED
    BY <1>2, <2>1 DEF Front, Last
<1> QED
  <2>1. Len(s) - 1 = m
    BY <1>2
  <2> QED
    BY <1>1, <1>4, <1>5, <1>6, <1>7, <2>1

\* A stack with one more entry.
LEMMA AppendEntry ==
    ASSUME NEW s \in Seq(Entry), NEW e \in Entry
    PROVE  /\ Append(s, e) \in Seq(Entry)
           /\ Len(Append(s, e)) = Len(s) + 1
           /\ \A i \in 1..Len(s) : Append(s, e)[i] = s[i]
           /\ Append(s, e)[Len(s) + 1] = e
BY AppendProperties

\* Every entry of a pushed stack is the new one or one of the old ones.
LEMMA PushedStack ==
    ASSUME NEW s \in Seq(Entry), NEW e \in Entry
    PROVE  Pushed(s, e) \in Seq(Entry)
<1>1. CASE Len(s) < UndoLevels
  BY <1>1, AppendEntry DEF Pushed
<1>2. CASE ~(Len(s) < UndoLevels) /\ UndoLevels = 0
  BY <1>2 DEF Pushed
<1>3. CASE ~(Len(s) < UndoLevels) /\ UndoLevels # 0
  <2>1. s # <<>>
    BY <1>3, UndoLevelsAssumption, EmptySeq
  <2>2. Tail(s) \in Seq(Entry)
    BY <2>1, HeadTailProperties
  <2> QED
    BY <1>3, <2>2, AppendEntry DEF Pushed
<1> QED
  BY <1>1, <1>2, <1>3

-----------------------------------------------------------------------------
(* Type correctness.                                                       *)

\* The empty list is a table and one-level.
LEMMA EmptyTableFacts ==
    EmptyTable \in Table /\ DOMAIN EmptyTable = {} /\ OneLevel(EmptyTable)
<1>1. EmptyTable \in [{} -> Task] /\ {} \in SUBSET TaskId
  BY DEF EmptyTable
<1>2. EmptyTable \in Table /\ DOMAIN EmptyTable = {}
  BY <1>1, TableIntro
<1> QED
  BY <1>2 DEF OneLevel

\* The row NewTask and NewSubtask add is a row.
LEMMA NewRows ==
    ASSUME NEW p \in TaskId \cup {NoTask}
    PROVE  [parent |-> p, done |-> FALSE, reopened |-> FALSE] \in Task
BY DEF Task

\* The initial states are of the type.
LEMMA InitTypeOK == Init => TypeOK
BY EmptyTableFacts, EmptySeq DEF Init, TypeOK

\* Every action keeps the type.
LEMMA NextTypeOK == TypeOK /\ [Next]_vars => TypeOK'
<1> SUFFICES ASSUME TypeOK, [Next]_vars PROVE TypeOK'
  OBVIOUS
<1> USE DEF TypeOK
<1>1. ASSUME NEW id \in TaskId, NewTask(id) PROVE TypeOK'
  BY <1>1, NewRows, AddTaskKeeps DEF NewTask, Fresh
<1>2. ASSUME NEW id \in TaskId, NEW p \in TaskId, NewSubtask(id, p) PROVE TypeOK'
  BY <1>2, NewRows, AddTaskKeeps DEF NewSubtask, Fresh
<1>3. ASSUME NEW id \in TaskId, NEW p \in TaskId \cup {NoTask}, MoveTask(id, p) PROVE TypeOK'
  BY <1>3, SetParentKeeps DEF MoveTask
<1>4. ASSUME NEW id \in TaskId, Complete(id) PROVE TypeOK'
  BY <1>4, CompleteTaskKeeps DEF Complete
<1>5. ASSUME NEW id \in TaskId, Restore(id) PROVE TypeOK'
  BY <1>5, RestoreTaskKeeps DEF Restore
<1>6. ASSUME NEW id \in TaskId, Delete(id) PROVE TypeOK'
  <2>1. [id |-> id, task |-> tasks[id]] \in Entry
    BY <1>6, TableElim DEF Delete, Entry
  <2>2. undoStack' \in Seq(Entry)
    BY <1>6, <2>1, PushedStack DEF Delete
  <2>3. redoStack' \in Seq(Entry)
    BY <1>6, EmptySeq DEF Delete
  <2> QED
    BY <1>6, <2>2, <2>3, DeleteTaskKeeps DEF Delete
<1>7. ASSUME NEW id \in TaskId, DeleteParent(id) PROVE TypeOK'
  BY <1>7, DeleteSubtasksKeeps, DetachSubtasksKeeps DEF DeleteParent
<1>8. CASE UndoDeletion
  <2>1. Last(undoStack) \in Entry /\ Front(undoStack) \in Seq(Entry)
    BY <1>8, LastAndFront DEF UndoDeletion
  <2>2. Last(undoStack).id \in TaskId /\ Last(undoStack).task \in Task
    BY <2>1 DEF Entry
  <2>3. redoStack' \in Seq(Entry) /\ undoStack' \in Seq(Entry)
    BY <1>8, <2>1, AppendEntry DEF UndoDeletion
  <2>4. twice' \in SUBSET TaskId
    BY <1>8, <2>2 DEF UndoDeletion
  <2>5. tasks' \in Table
    <3>1. CASE Last(undoStack).id \in DOMAIN tasks
      BY <1>8, <3>1 DEF UndoDeletion
    <3>2. CASE Last(undoStack).id \notin DOMAIN tasks
      <4>1. tasks' = AddTask(tasks, Last(undoStack).id, Last(undoStack).task)
        BY <1>8, <3>2 DEF UndoDeletion
      <4> QED
        BY <2>2, <3>2, <4>1, AddTaskKeeps
    <3> QED
      BY <3>1, <3>2
  <2> QED
    BY <1>8, <2>3, <2>4, <2>5 DEF UndoDeletion
<1>9. CASE RedoDeletion
  <2>1. Last(redoStack) \in Entry /\ Front(redoStack) \in Seq(Entry)
    BY <1>9, LastAndFront DEF RedoDeletion
  <2>2. redoStack' \in Seq(Entry) /\ undoStack' \in Seq(Entry)
    BY <1>9, <2>1, AppendEntry DEF RedoDeletion
  <2> QED
    BY <1>9, <2>2, DeleteTaskKeeps DEF RedoDeletion
<1>10. ASSUME NEW on \in ExperimentalModes, SetExperimental(on) PROVE TypeOK'
  BY <1>10 DEF SetExperimental
<1>11. ASSUME NEW remote \in Snapshots, ApplyRemoteTasks(remote) PROVE TypeOK'
  BY <1>11, SnapshotsAssumption, SanitizeMakesOneLevel DEF ApplyRemoteTasks
<1>12. CASE Relaunch
  BY <1>12, EmptySeq DEF Relaunch
<1>13. CASE MigrateIfNeeded
  BY <1>13, SanitizeMakesOneLevel DEF MigrateIfNeeded
<1>14. CASE UNCHANGED vars
  BY <1>14 DEF vars
<1> QED
  BY <1>1, <1>2, <1>3, <1>4, <1>5, <1>6, <1>7, <1>8, <1>9, <1>10, <1>11, <1>12, <1>13,
     <1>14 DEF Next

\* Every variable keeps its type: addTask, setParent, the undo closures and the
\* snapshots only ever build rows a Task value can have.
THEOREM TypeCorrect == Spec => []TypeOK
<1> QED
  BY InitTypeOK, NextTypeOK, PTL DEF Spec

-----------------------------------------------------------------------------
(* What an action does to the shape of the list.  Only the undo of a       *)
(* deletion adds a task that others may refer to.                          *)

\* Every action keeps a list acyclic, and all but the undo keep it one-level.
LEMMA NextShape ==
    ASSUME TypeOK, [Next]_vars
    PROVE  /\ Acyclic(tasks) => Acyclic(tasks')
           /\ OneLevel(tasks) /\ ~UndoDeletion => OneLevel(tasks')
<1> USE DEF TypeOK
<1> DEFINE Kept == /\ Acyclic(tasks) => Acyclic(tasks')
                   /\ OneLevel(tasks) => OneLevel(tasks')
<1>1. ASSUME NEW id \in TaskId, NewTask(id) PROVE Kept
  BY <1>1, NewRows, AddTaskKeeps DEF NewTask, Fresh
<1>2. ASSUME NEW id \in TaskId, NEW p \in TaskId, NewSubtask(id, p) PROVE Kept
  BY <1>2, NewRows, AddTaskKeeps DEF NewSubtask, Fresh
<1>3. ASSUME NEW id \in TaskId, NEW p \in TaskId \cup {NoTask}, MoveTask(id, p) PROVE Kept
  BY <1>3, SetParentKeeps DEF MoveTask
<1>4. ASSUME NEW id \in TaskId, Complete(id) PROVE Kept
  BY <1>4, CompleteTaskKeeps DEF Complete
<1>5. ASSUME NEW id \in TaskId, Restore(id) PROVE Kept
  BY <1>5, RestoreTaskKeeps DEF Restore
<1>6. ASSUME NEW id \in TaskId, Delete(id) PROVE Kept
  BY <1>6, DeleteTaskKeeps DEF Delete
<1>7. ASSUME NEW id \in TaskId, DeleteParent(id) PROVE Kept
  BY <1>7, DeleteSubtasksKeeps, DetachSubtasksKeeps DEF DeleteParent
<1>8. CASE UndoDeletion
  <2> DEFINE e == Last(undoStack)
  <2>1. e \in Entry
    BY <1>8, LastAndFront DEF UndoDeletion
  <2>2. e.id \in TaskId /\ e.task \in Task
    BY <2>1 DEF Entry
  <2>3. \/ tasks' = tasks
        \/ e.id \notin DOMAIN tasks /\ tasks' = AddTask(tasks, e.id, e.task)
    BY <1>8 DEF UndoDeletion
  <2> HIDE DEF e
  <2>4. Acyclic(tasks) => Acyclic(tasks')
    <3>1. CASE tasks' = tasks
      BY <3>1
    <3>2. CASE e.id \notin DOMAIN tasks /\ tasks' = AddTask(tasks, e.id, e.task)
      BY <2>2, <3>2, AddTaskKeeps
    <3> QED
      BY <2>3, <3>1, <3>2
  <2> QED
    BY <1>8, <2>4
<1>9. CASE RedoDeletion
  BY <1>9, DeleteTaskKeeps DEF RedoDeletion
<1>10. ASSUME NEW on \in ExperimentalModes, SetExperimental(on) PROVE Kept
  BY <1>10 DEF SetExperimental
<1>11. ASSUME NEW remote \in Snapshots, ApplyRemoteTasks(remote) PROVE Kept
  BY <1>11, SnapshotsAssumption, SanitizeMakesOneLevel DEF ApplyRemoteTasks
<1>12. CASE Relaunch
  BY <1>12 DEF Relaunch
<1>13. CASE MigrateIfNeeded
  BY <1>13, SanitizeMakesOneLevel DEF MigrateIfNeeded
<1>14. CASE UNCHANGED vars
  BY <1>14 DEF vars
<1> QED
  BY <1>1, <1>2, <1>3, <1>4, <1>5, <1>6, <1>7, <1>8, <1>9, <1>10, <1>11, <1>12, <1>13,
     <1>14 DEF Next

\* Whatever is deleted, undone, redone and synced, no chain of parents closes.
THEOREM NeverCyclic == Spec => []NoCycles
<1>1. Init => NoCycles
  BY EmptyTableFacts, OneLevelIsAcyclic DEF Init, NoCycles
<1>2. TypeOK /\ NoCycles /\ [Next]_vars => NoCycles'
  BY NextShape DEF NoCycles
<1> QED
  BY <1>1, <1>2, TypeCorrect, PTL DEF Spec

\* addTask of an undo is the only step that can nest a subtask.
THEOREM OnlyUndoNests == Spec => NestingOnlyByUndo
<1>1. TypeOK /\ [Next]_vars => [NoNesting /\ ~NoNesting' => UndoDeletion]_vars
  BY NextShape DEF NoNesting
<1> QED
  BY <1>1, TypeCorrect, PTL DEF Spec, NestingOnlyByUndo

-----------------------------------------------------------------------------
(* Without an undo manager the list stays one-level.                       *)

NothingToUndo == undoStack = <<>> /\ redoStack = <<>>

\* With no undo level, no deletion is ever remembered.
LEMMA StacksStayEmpty ==
    ASSUME UndoLevels = 0, NothingToUndo, [Next]_vars
    PROVE  NothingToUndo'
<1>1. \A e : Pushed(undoStack, e) = <<>>
  BY DEF Pushed, NothingToUndo
<1> QED
  BY <1>1
     DEF NothingToUndo, Next, vars, NewTask, NewSubtask, MoveTask, Complete, Restore,
         Delete, DeleteParent, UndoDeletion, RedoDeletion, SetExperimental,
         ApplyRemoteTasks, Relaunch, MigrateIfNeeded

\* A list whose deletions are never undone is one-level after every operation,
\* every snapshot and every relaunch.
THEOREM OneLevelWithoutUndo ==
    ASSUME UndoLevels = 0
    PROVE  Spec => []NoNesting
<1> DEFINE Inv == NoNesting /\ NothingToUndo
<1>1. Init => Inv
  BY EmptyTableFacts DEF Init, NoNesting, NothingToUndo
<1>2. TypeOK /\ Inv /\ [Next]_vars => Inv'
  <2> SUFFICES ASSUME TypeOK, Inv, [Next]_vars PROVE Inv'
    OBVIOUS
  <2>1. ~UndoDeletion
    BY DEF NothingToUndo, UndoDeletion
  <2>2. NoNesting'
    BY <2>1, NextShape DEF NoNesting
  <2> QED
    BY <2>2, StacksStayEmpty
<1>3. Inv => NoNesting
  OBVIOUS
<1> QED
  BY <1>1, <1>2, <1>3, TypeCorrect, PTL DEF Spec

-----------------------------------------------------------------------------
(* Undo and redo never duplicate a task on a device that no snapshot       *)
(* reaches.  The invariant: the two stacks name every id at most once, and *)
(* no id the undo stack names is in the list.                              *)

Distinct(s) == \A i, j \in 1..Len(s) : s[i].id = s[j].id => i = j

Apart(s, r) == \A i \in 1..Len(s), j \in 1..Len(r) : s[i].id # r[j].id

Gone(s, ts) == \A i \in 1..Len(s) : s[i].id \notin DOMAIN ts

UndoInv ==
    /\ UniqueIds
    /\ Distinct(undoStack)
    /\ Distinct(redoStack)
    /\ Apart(undoStack, redoStack)
    /\ Gone(undoStack, tasks)

\* The three ways a stack changes, on the ids it names.
LEMMA AppendIds ==
    ASSUME NEW s \in Seq(Entry), NEW e \in Entry,
           Distinct(s), \A i \in 1..Len(s) : s[i].id # e.id
    PROVE  /\ Distinct(Append(s, e))
           /\ \A i \in 1..Len(Append(s, e)) :
                 \/ Append(s, e)[i].id = e.id
                 \/ \E j \in 1..Len(s) : Append(s, e)[i].id = s[j].id
<1>1. /\ Len(s) \in Nat
      /\ Len(Append(s, e)) = Len(s) + 1
      /\ \A i \in 1..Len(s) : Append(s, e)[i] = s[i]
      /\ Append(s, e)[Len(s) + 1] = e
  BY AppendEntry, StackLength
<1>2. \A i \in 1..Len(Append(s, e)) : i \in 1..Len(s) \/ i = Len(s) + 1
  BY <1>1
<1> QED
  BY <1>1, <1>2 DEF Distinct

\* Taking the last entry off a stack that names every id once.
LEMMA FrontIds ==
    ASSUME NEW s \in Seq(Entry), s # <<>>, Distinct(s)
    PROVE  /\ Distinct(Front(s))
           /\ \A i \in 1..Len(Front(s)) :
                 /\ Front(s)[i].id # Last(s).id
                 /\ \E j \in 1..Len(s) : Front(s)[i].id = s[j].id
<1>1. /\ Last(s) = s[Len(s)] /\ Len(s) \in 1..Len(s)
      /\ Len(Front(s)) = Len(s) - 1
      /\ \A i \in 1..(Len(s) - 1) : Front(s)[i] = s[i]
  BY LastAndFront
<1>2. \A i \in 1..(Len(s) - 1) : i \in 1..Len(s) /\ i # Len(s)
  BY StackLength
<1> QED
  BY <1>1, <1>2 DEF Distinct

\* Forgetting the oldest one.
LEMMA TailIds ==
    ASSUME NEW s \in Seq(Entry), s # <<>>, Distinct(s)
    PROVE  /\ Tail(s) \in Seq(Entry)
           /\ Distinct(Tail(s))
           /\ \A i \in 1..Len(Tail(s)) : \E j \in 1..Len(s) : Tail(s)[i].id = s[j].id
<1>1. /\ Tail(s) \in Seq(Entry)
      /\ Len(Tail(s)) = Len(s) - 1
      /\ \A i \in 1..Len(Tail(s)) : Tail(s)[i] = s[i + 1]
  BY HeadTailProperties
<1>2. \A i \in 1..Len(Tail(s)) : i \in Int /\ i + 1 \in 1..Len(s)
  BY <1>1, StackLength
<1>3. \A i, j \in 1..Len(Tail(s)) : i + 1 = j + 1 => i = j
  BY <1>2
<1> QED
  BY <1>1, <1>2, <1>3 DEF Distinct

\* Pushing an entry with a new id, which may forget the oldest one.
LEMMA PushedIds ==
    ASSUME NEW s \in Seq(Entry), NEW e \in Entry,
           Distinct(s), \A i \in 1..Len(s) : s[i].id # e.id
    PROVE  /\ Distinct(Pushed(s, e))
           /\ \A i \in 1..Len(Pushed(s, e)) :
                 \/ Pushed(s, e)[i].id = e.id
                 \/ \E j \in 1..Len(s) : Pushed(s, e)[i].id = s[j].id
<1>1. CASE Len(s) < UndoLevels
  BY <1>1, AppendIds DEF Pushed
<1>2. CASE ~(Len(s) < UndoLevels) /\ UndoLevels = 0
  BY <1>2 DEF Pushed
<1>3. CASE ~(Len(s) < UndoLevels) /\ UndoLevels # 0
  <2>1. s # <<>>
    BY <1>3, UndoLevelsAssumption, EmptySeq
  <2> DEFINE r == Tail(s)
  <2>2. /\ r \in Seq(Entry)
        /\ Distinct(r)
        /\ \A i \in 1..Len(r) : \E j \in 1..Len(s) : r[i].id = s[j].id
    BY <2>1, TailIds
  <2>3. Pushed(s, e) = Append(r, e)
    BY <1>3 DEF Pushed
  <2> HIDE DEF r
  <2>4. \A i \in 1..Len(r) : r[i].id # e.id
    BY <2>2
  <2>5. /\ Distinct(Append(r, e))
        /\ \A i \in 1..Len(Append(r, e)) :
              \/ Append(r, e)[i].id = e.id
              \/ \E j \in 1..Len(r) : Append(r, e)[i].id = r[j].id
    BY <2>2, <2>4, AppendIds
  <2> QED
    BY <2>2, <2>3, <2>5
<1> QED
  BY <1>1, <1>2, <1>3

\* Empty stacks satisfy everything asked of stacks.
LEMMA EmptyStackIds ==
    /\ Len(<<>>) = 0
    /\ Distinct(<<>>)
    /\ \A s : Apart(<<>>, s) /\ Apart(s, <<>>)
    /\ \A ts : Gone(<<>>, ts)
<1>1. Len(<<>>) = 0 /\ 1..0 = {}
  BY EmptySeq
<1> QED
  BY <1>1 DEF Distinct, Apart, Gone

\* An operation that leaves the stacks alone and adds none of their ids.
LEMMA SameStacks ==
    ASSUME TypeOK, UndoInv,
           UNCHANGED <<twice, undoStack, redoStack>>,
           \A i \in 1..Len(undoStack) :
              undoStack[i].id \in DOMAIN tasks' => undoStack[i].id \in DOMAIN tasks
    PROVE  UndoInv'
BY DEF UndoInv, UniqueIds, Distinct, Apart, Gone

\* A new UUID is not the id of a remembered deletion.
LEMMA NewIdIsInNoStack ==
    ASSUME TypeOK, NEW id, Fresh(id)
    PROVE  \A i \in 1..Len(undoStack) : undoStack[i].id # id
BY StackLength DEF TypeOK, Fresh, IdsIn

\* The invariant is inductive, the undo and the redo moving one id between the
\* list and the stacks.
LEMMA UndoInvNext ==
    ASSUME Snapshots = {}, TypeOK, UndoInv, [Next]_vars
    PROVE  UndoInv'
<1> USE DEF TypeOK
<1>1. ASSUME NEW id \in TaskId, NewTask(id) PROVE UndoInv'
  <2>1. DOMAIN tasks' = DOMAIN tasks \cup {id}
    BY <1>1, NewRows, AddTaskKeeps DEF NewTask, Fresh
  <2>2. \A i \in 1..Len(undoStack) : undoStack[i].id # id
    BY <1>1, NewIdIsInNoStack DEF NewTask
  <2> QED
    BY <1>1, <2>1, <2>2, SameStacks DEF NewTask
<1>2. ASSUME NEW id \in TaskId, NEW p \in TaskId, NewSubtask(id, p) PROVE UndoInv'
  <2>1. DOMAIN tasks' = DOMAIN tasks \cup {id}
    BY <1>2, NewRows, AddTaskKeeps DEF NewSubtask, Fresh
  <2>2. \A i \in 1..Len(undoStack) : undoStack[i].id # id
    BY <1>2, NewIdIsInNoStack DEF NewSubtask
  <2> QED
    BY <1>2, <2>1, <2>2, SameStacks DEF NewSubtask
<1>3. ASSUME NEW id \in TaskId, NEW p \in TaskId \cup {NoTask}, MoveTask(id, p) PROVE UndoInv'
  BY <1>3, SetParentKeeps, SameStacks DEF MoveTask
<1>4. ASSUME NEW id \in TaskId, Complete(id) PROVE UndoInv'
  BY <1>4, CompleteTaskKeeps, SameStacks DEF Complete
<1>5. ASSUME NEW id \in TaskId, Restore(id) PROVE UndoInv'
  BY <1>5, RestoreTaskKeeps, SameStacks DEF Restore
<1>6. ASSUME NEW id \in TaskId, Delete(id) PROVE UndoInv'
  <2> DEFINE e == [id |-> id, task |-> tasks[id]]
             s == Pushed(undoStack, e)
  <2>1. e \in Entry /\ e.id = id /\ id \in DOMAIN tasks
    BY <1>6, TableElim DEF Delete, Entry
  <2>2. Distinct(undoStack) /\ \A i \in 1..Len(undoStack) : undoStack[i].id # e.id
    BY <2>1 DEF UndoInv, Gone
  <2>3. undoStack' = s /\ redoStack' = <<>> /\ twice' = twice
    BY <1>6 DEF Delete
  <2> HIDE DEF e
  <2>4. /\ Distinct(s)
        /\ \A i \in 1..Len(s) :
              s[i].id = id \/ \E j \in 1..Len(undoStack) : s[i].id = undoStack[j].id
    BY <2>1, <2>2, PushedIds
  <2>5. DOMAIN tasks' = DOMAIN tasks \ {id}
    BY <1>6, DeleteTaskKeeps DEF Delete
  <2> HIDE DEF s
  <2>6. Gone(s, tasks')
    BY <2>4, <2>5 DEF UndoInv, Gone
  <2> QED
    BY <2>3, <2>4, <2>6, EmptyStackIds DEF UndoInv, UniqueIds
<1>7. ASSUME NEW id \in TaskId, DeleteParent(id) PROVE UndoInv'
  BY <1>7, DeleteSubtasksKeeps, DetachSubtasksKeeps, SameStacks DEF DeleteParent
<1>8. CASE UndoDeletion
  <2> DEFINE e == Last(undoStack)
             s == Front(undoStack)
             r == Append(redoStack, e)
  <2>1. undoStack # <<>> /\ undoStack' = s /\ redoStack' = r
    BY <1>8 DEF UndoDeletion
  <2>2. e \in Entry /\ \E k \in 1..Len(undoStack) : e = undoStack[k]
    BY <2>1, LastAndFront
  <2>3. e.id \notin DOMAIN tasks /\ e.id \in TaskId /\ e.task \in Task
    BY <2>2 DEF UndoInv, Gone, Entry
  <2>4. \A i \in 1..Len(redoStack) : redoStack[i].id # e.id
    BY <2>2 DEF UndoInv, Apart
  <2>5. twice' = twice /\ tasks' = AddTask(tasks, e.id, e.task)
    BY <1>8, <2>3 DEF UndoDeletion
  <2>6. /\ Distinct(s)
        /\ \A i \in 1..Len(s) :
              s[i].id # e.id /\ \E j \in 1..Len(undoStack) : s[i].id = undoStack[j].id
    BY <2>1, FrontIds DEF UndoInv
  <2> HIDE DEF e
  <2>7. /\ Distinct(r)
        /\ \A i \in 1..Len(r) :
              r[i].id = e.id \/ \E j \in 1..Len(redoStack) : r[i].id = redoStack[j].id
    BY <2>2, <2>4, AppendIds DEF UndoInv
  <2>8. DOMAIN tasks' = DOMAIN tasks \cup {e.id}
    BY <2>3, <2>5, AddTaskKeeps
  <2> HIDE DEF s, r
  <2>9. Gone(s, tasks') /\ Apart(s, r)
    <3>1. Gone(undoStack, tasks) /\ Apart(undoStack, redoStack)
      BY DEF UndoInv
    <3>2. Gone(s, tasks')
      BY <2>6, <2>8, <3>1 DEF Gone
    <3>3. Apart(s, r)
      BY <2>6, <2>7, <3>1 DEF Apart
    <3> QED
      BY <3>2, <3>3
  <2> QED
    BY <2>1, <2>5, <2>6, <2>7, <2>9 DEF UndoInv, UniqueIds
<1>9. CASE RedoDeletion
  <2> DEFINE e == Last(redoStack)
             s == Append(undoStack, e)
             r == Front(redoStack)
  <2>1. /\ redoStack # <<>> /\ undoStack' = s /\ redoStack' = r /\ twice' = twice
        /\ tasks' = DeleteTask(tasks, e.id)
    BY <1>9 DEF RedoDeletion
  <2>2. e \in Entry /\ \E k \in 1..Len(redoStack) : e = redoStack[k]
    BY <2>1, LastAndFront
  <2>3. \A i \in 1..Len(undoStack) : undoStack[i].id # e.id
    BY <2>2 DEF UndoInv, Apart
  <2>4. /\ Distinct(r)
        /\ \A i \in 1..Len(r) :
              r[i].id # e.id /\ \E j \in 1..Len(redoStack) : r[i].id = redoStack[j].id
    BY <2>1, FrontIds DEF UndoInv
  <2> HIDE DEF e
  <2>5. /\ Distinct(s)
        /\ \A i \in 1..Len(s) :
              s[i].id = e.id \/ \E j \in 1..Len(undoStack) : s[i].id = undoStack[j].id
    BY <2>2, <2>3, AppendIds DEF UndoInv
  <2>6. DOMAIN tasks' = DOMAIN tasks \ {e.id}
    BY <2>1, DeleteTaskKeeps
  <2> HIDE DEF s, r
  <2>7. Gone(s, tasks') /\ Apart(s, r)
    <3>1. Gone(undoStack, tasks) /\ Apart(undoStack, redoStack)
      BY DEF UndoInv
    <3>2. Gone(s, tasks')
      BY <2>5, <2>6, <3>1 DEF Gone
    <3>3. Apart(s, r)
      BY <2>4, <2>5, <3>1 DEF Apart
    <3> QED
      BY <3>2, <3>3
  <2> QED
    BY <2>1, <2>4, <2>5, <2>7 DEF UndoInv, UniqueIds
<1>10. ASSUME NEW on \in ExperimentalModes, SetExperimental(on) PROVE UndoInv'
  BY <1>10, SameStacks DEF SetExperimental
<1>11. CASE Relaunch
  BY <1>11, EmptyStackIds DEF Relaunch, UndoInv, UniqueIds
<1>12. CASE MigrateIfNeeded
  BY <1>12, SanitizeMakesOneLevel, SameStacks DEF MigrateIfNeeded
<1>13. CASE UNCHANGED vars
  BY <1>13, SameStacks DEF vars
<1> QED
  BY <1>1, <1>2, <1>3, <1>4, <1>5, <1>6, <1>7, <1>8, <1>9, <1>10, <1>11, <1>12, <1>13
     DEF Next

\* On a device that is signed out, an undo never appends a task that the list
\* still holds, however deletions, undos, redos and new tasks interleave.
THEOREM UniqueIdsLocally ==
    ASSUME Snapshots = {}
    PROVE  Spec => []UniqueIds
<1>1. Init => UndoInv
  BY EmptyStackIds, EmptyTableFacts DEF Init, UndoInv, UniqueIds
<1>2. TypeOK /\ UndoInv /\ [Next]_vars => UndoInv'
  BY UndoInvNext
<1>3. UndoInv => UniqueIds
  BY DEF UndoInv
<1> QED
  BY <1>1, <1>2, <1>3, TypeCorrect, PTL DEF Spec

-----------------------------------------------------------------------------
(* The "reopened by hand" override stays with top-level tasks, whatever is  *)
(* moved, detached, completed, restored and synced, as long as no deletion  *)
(* is undone.  restoreTask sets it on a task that has subtasks: that the    *)
(* list is one-level is what makes such a task top-level.                   *)

\* OverrideOnlyOnTopLevel of any table.
Honest(ts) == \A id \in DOMAIN ts : ts[id].reopened => ts[id].parent = NoTask

\* reconcileParentCompletion writes the row of a top-level task only.
LEMMA ReconcileHonest ==
    ASSUME NEW ts \in Table, NEW p, NEW reset \in BOOLEAN, Honest(ts)
    PROVE  Honest(ReconcileIfAny(ts, p, reset))
<1>1. CASE p # NoTask /\ IsTopLevel(ts, p)
  <2> DEFINE t == ReconciledParent(ts[p], {ts[c].done : c \in Children(ts, p)}, reset)
  <2>1. p \in DOMAIN ts /\ ts[p] \in Task /\ ts[p].parent = NoTask
    BY <1>1, TableElim DEF IsTopLevel
  <2>2. t.parent = NoTask
    BY <2>1, ReconciledParentIsTask
  <2>3. ReconcileIfAny(ts, p, reset) = [ts EXCEPT ![p] = t]
    BY <1>1 DEF ReconcileIfAny, ReconcileParentCompletion
  <2> HIDE DEF t
  <2> QED
    BY <2>1, <2>2, <2>3 DEF Honest
<1>2. CASE ~(p # NoTask /\ IsTopLevel(ts, p))
  BY <1>2 DEF ReconcileIfAny, ReconcileParentCompletion
<1> QED
  BY <1>1, <1>2

\* A new row carries no override.
LEMMA AddTaskHonest ==
    ASSUME NEW ts \in Table, NEW id \in TaskId, NEW t \in Task, ~t.reopened, Honest(ts)
    PROVE  Honest(AddTask(ts, id, t))
<1> DEFINE a  == Adopted(ts, t)
           vs == Put(ts, id, a)
<1>1. a \in Task
  BY AdoptedIsTask
<1>2. ~a.reopened
  BY DEF Adopted, Task
<1>3. AddTask(ts, id, t) = ReconcileIfAny(vs, a.parent, TRUE)
  BY DEF AddTask
<1> HIDE DEF a
<1>4. vs \in Table
  BY <1>1, PutIsTable
<1>5. Honest(vs)
  BY <1>2 DEF Put, Honest
<1> HIDE DEF vs
<1> QED
  BY <1>3, <1>4, <1>5, ReconcileHonest

\* setParent drops the override of a task that becomes a subtask.
LEMMA SetParentHonest ==
    ASSUME NEW ts \in Table, NEW id, NEW p \in TaskId \cup {NoTask}, Honest(ts)
    PROVE  Honest(SetParent(ts, id, p))
<1>1. CASE ~MayMove(ts, id, p)
  BY <1>1 DEF SetParent
<1>2. CASE MayMove(ts, id, p)
  <2> DEFINE vs == Moved(ts, id, p)
             ws == ReconcileIfAny(vs, ts[id].parent, TRUE)
  <2>1. id \in DOMAIN ts /\ ts[id] \in Task
    BY <1>2, TableElim DEF MayMove
  <2>2. vs \in Table /\ DOMAIN vs = DOMAIN ts /\ \A i \in DOMAIN ts : i # id => vs[i] = ts[i]
    BY <2>1, MovedIsTable
  <2>3. vs[id].reopened => vs[id].parent = NoTask
    BY <2>1 DEF Moved, Task
  <2>4. SetParent(ts, id, p) = ReconcileIfAny(ws, p, TRUE)
    BY <1>2 DEF SetParent
  <2> HIDE DEF vs
  <2>5. Honest(vs)
    BY <2>1, <2>2, <2>3 DEF Honest
  <2>6. ws \in Table /\ Honest(ws)
    BY <2>2, <2>5, ReconcileKeeps, ReconcileHonest
  <2> HIDE DEF ws
  <2> QED
    BY <2>4, <2>6, ReconcileHonest
<1> QED
  BY <1>1, <1>2

\* Rows that stay keep their fields.
LEMMA DropHonest ==
    ASSUME NEW ts \in Table, NEW ids, Honest(ts)
    PROVE  Honest(Drop(ts, ids))
BY DEF Drop, Honest

\* deleteTask only reconciles.
LEMMA DeleteTaskHonest ==
    ASSUME NEW ts \in Table, NEW id, Honest(ts)
    PROVE  Honest(DeleteTask(ts, id))
<1> DEFINE vs == Drop(ts, {id})
           p  == IF id \in DOMAIN ts THEN ts[id].parent ELSE NoTask
<1>1. vs \in Table /\ Honest(vs)
  BY DropKeeps, DropHonest
<1>2. DeleteTask(ts, id) = ReconcileIfAny(vs, p, TRUE)
  BY DEF DeleteTask
<1> HIDE DEF vs, p
<1> QED
  BY <1>1, <1>2, ReconcileHonest

\* Both answers of the "Delete Project Task" dialog.
LEMMA DeleteParentHonest ==
    ASSUME NEW ts \in Table, NEW id, Honest(ts)
    PROVE  Honest(DeleteSubtasks(ts, id)) /\ Honest(DetachSubtasks(ts, id))
<1>1. Honest(DeleteSubtasks(ts, id))
  <2> DEFINE vs == Drop(ts, Children(ts, id))
  <2>1. vs \in Table /\ Honest(vs)
    BY DropKeeps, DropHonest
  <2>2. DeleteSubtasks(ts, id) = DeleteTask(vs, id)
    BY DEF DeleteSubtasks
  <2> HIDE DEF vs
  <2> QED
    BY <2>1, <2>2, DeleteTaskHonest
<1>2. Honest(DetachSubtasks(ts, id))
  <2> DEFINE vs == [i \in DOMAIN ts |->
                      IF ts[i].parent = id THEN [ts[i] EXCEPT !.parent = NoTask] ELSE ts[i]]
  <2>1. \A i \in DOMAIN ts : /\ vs[i] \in Task
                             /\ vs[i].reopened = ts[i].reopened
                             /\ vs[i].parent \in {ts[i].parent, NoTask}
    BY TableElim DEF Task
  <2>2. vs \in [DOMAIN ts -> Task] /\ DOMAIN ts \in SUBSET TaskId
    BY <2>1, TableElim
  <2>3. DetachSubtasks(ts, id) = DeleteTask(vs, id)
    BY DEF DetachSubtasks
  <2> HIDE DEF vs
  <2>4. vs \in Table /\ DOMAIN vs = DOMAIN ts
    BY <2>2, TableIntro
  <2>5. Honest(vs)
    BY <2>1, <2>4 DEF Honest
  <2> QED
    BY <2>3, <2>4, <2>5, DeleteTaskHonest
<1> QED
  BY <1>1, <1>2

\* completeTask clears the override, restoreTask sets it on a task that has
\* subtasks, which is top-level in a one-level list.
LEMMA CompletionHonest ==
    ASSUME NEW ts \in Table, NEW id, Honest(ts), OneLevel(ts)
    PROVE  Honest(CompleteTask(ts, id)) /\ Honest(RestoreTask(ts, id))
<1>1. CASE id \notin DOMAIN ts
  BY <1>1 DEF CompleteTask, RestoreTask
<1>2. CASE id \in DOMAIN ts
  <2> DEFINE off == [ts[id] EXCEPT !.done = TRUE, !.reopened = FALSE]
             on  == [ts[id] EXCEPT !.done = FALSE, !.reopened = @ \/ Children(ts, id) # {}]
  <2>1. ts[id] \in Task /\ ts \in [DOMAIN ts -> Task] /\ DOMAIN ts \in SUBSET TaskId
    BY <1>2, TableElim
  <2>2. off \in Task /\ ~off.reopened
    BY <2>1 DEF Task
  <2>3. on \in Task /\ on.parent = ts[id].parent
        /\ (on.reopened => ts[id].reopened \/ Children(ts, id) # {})
    BY <2>1 DEF Task
  <2>4. Children(ts, id) # {} => ts[id].parent = NoTask
    BY <1>2 DEF Children, OneLevel, IsTopLevel
  <2>5. on.reopened => on.parent = NoTask
    BY <1>2, <2>3, <2>4 DEF Honest
  <2>6. /\ CompleteTask(ts, id) = ReconcileIfAny([ts EXCEPT ![id] = off], ts[id].parent, FALSE)
        /\ RestoreTask(ts, id) = ReconcileIfAny([ts EXCEPT ![id] = on], ts[id].parent, TRUE)
    BY <1>2, <2>1 DEF CompleteTask, RestoreTask
  <2> HIDE DEF off, on
  <2>7. [ts EXCEPT ![id] = off] \in Table /\ [ts EXCEPT ![id] = on] \in Table
    BY <2>1, <2>2, <2>3 DEF Table
  <2>8. Honest([ts EXCEPT ![id] = off]) /\ Honest([ts EXCEPT ![id] = on])
    BY <1>2, <2>2, <2>5 DEF Honest
  <2> QED
    BY <2>6, <2>7, <2>8, ReconcileHonest
<1> QED
  BY <1>1, <1>2

\* sanitizeHierarchy drops the override of every row it leaves a subtask,
\* whatever the snapshot said.
LEMMA SanitizeHonest ==
    ASSUME NEW ts \in Table
    PROVE  Honest(SanitizeHierarchy(ts))
BY SanitizedRowIsTask DEF SanitizeHierarchy, Honest

-----------------------------------------------------------------------------

\* One step of a device that remembers no deletion.
LEMMA NextHonest ==
    ASSUME TypeOK, NoNesting, OverrideOnlyOnTopLevel, ~UndoDeletion, [Next]_vars
    PROVE  OverrideOnlyOnTopLevel'
<1> USE DEF TypeOK
<1>1. Honest(tasks)
  BY DEF Honest, OverrideOnlyOnTopLevel
<1> SUFFICES Honest(tasks')
  BY DEF Honest, OverrideOnlyOnTopLevel
<1>2. ASSUME NEW id \in TaskId, NewTask(id) PROVE Honest(tasks')
  BY <1>1, <1>2, NewRows, AddTaskHonest DEF NewTask
<1>3. ASSUME NEW id \in TaskId, NEW p \in TaskId, NewSubtask(id, p) PROVE Honest(tasks')
  BY <1>1, <1>3, NewRows, AddTaskHonest DEF NewSubtask
<1>4. ASSUME NEW id \in TaskId, NEW p \in TaskId \cup {NoTask}, MoveTask(id, p)
      PROVE  Honest(tasks')
  BY <1>1, <1>4, SetParentHonest DEF MoveTask
<1>5. ASSUME NEW id \in TaskId, Complete(id) PROVE Honest(tasks')
  BY <1>1, <1>5, CompletionHonest DEF Complete, NoNesting
<1>6. ASSUME NEW id \in TaskId, Restore(id) PROVE Honest(tasks')
  BY <1>1, <1>6, CompletionHonest DEF Restore, NoNesting
<1>7. ASSUME NEW id \in TaskId, Delete(id) PROVE Honest(tasks')
  BY <1>1, <1>7, DeleteTaskHonest DEF Delete
<1>8. ASSUME NEW id \in TaskId, DeleteParent(id) PROVE Honest(tasks')
  BY <1>1, <1>8, DeleteParentHonest DEF DeleteParent
<1>9. CASE RedoDeletion
  BY <1>1, <1>9, DeleteTaskHonest DEF RedoDeletion
<1>10. ASSUME NEW on \in ExperimentalModes, SetExperimental(on) PROVE Honest(tasks')
  BY <1>1, <1>10 DEF SetExperimental
<1>11. ASSUME NEW remote \in Snapshots, ApplyRemoteTasks(remote) PROVE Honest(tasks')
  BY <1>11, SnapshotsAssumption, SanitizeHonest DEF ApplyRemoteTasks
<1>12. CASE Relaunch
  BY <1>1, <1>12 DEF Relaunch
<1>13. CASE MigrateIfNeeded
  BY <1>13, SanitizeHonest DEF MigrateIfNeeded
<1>14. CASE UNCHANGED vars
  BY <1>1, <1>14 DEF vars
<1> QED
  BY <1>2, <1>3, <1>4, <1>5, <1>6, <1>7, <1>8, <1>9, <1>10, <1>11, <1>12, <1>13, <1>14
     DEF Next

\* Only a top-level task is ever marked "reopened by hand" on a device whose
\* deletions are not undone, whatever the snapshots hold: the invariant is that
\* the list is one-level too, on which restoreTask relies.
THEOREM OverrideStaysOnTop ==
    ASSUME UndoLevels = 0
    PROVE  Spec => []OverrideOnlyOnTopLevel
<1> DEFINE Inv == NoNesting /\ NothingToUndo /\ OverrideOnlyOnTopLevel
<1>1. Init => Inv
  BY EmptyTableFacts DEF Init, NoNesting, NothingToUndo, OverrideOnlyOnTopLevel
<1>2. TypeOK /\ Inv /\ [Next]_vars => Inv'
  <2> SUFFICES ASSUME TypeOK, Inv, [Next]_vars PROVE Inv'
    OBVIOUS
  <2>1. ~UndoDeletion
    BY DEF NothingToUndo, UndoDeletion
  <2>2. NoNesting'
    BY <2>1, NextShape DEF NoNesting
  <2> QED
    BY <2>1, <2>2, StacksStayEmpty, NextHonest
<1>3. Inv => OverrideOnlyOnTopLevel
  OBVIOUS
<1> QED
  BY <1>1, <1>2, <1>3, TypeCorrect, PTL DEF Spec

-----------------------------------------------------------------------------
(* Completion along the hierarchy.  Every operation first changes rows and *)
(* then reconciles the projects whose subtasks it touched, one or two of    *)
(* them: the sets of projects that a change of rows may leave wrong are     *)
(* what the following lemmas keep account of.                               *)

\* The completion flags of the subtasks of p, as reconcileParentCompletion
\* collects them.
Flags(ts, p) == {ts[c].done : c \in Children(ts, p)}

\* What reconciling p does to a table.
LEMMA ReconciledRows ==
    ASSUME NEW ts \in Table, NEW p, NEW reset \in BOOLEAN,
           NEW us, us = ReconcileIfAny(ts, p, reset)
    PROVE  /\ us \in Table /\ DOMAIN us = DOMAIN ts
           /\ \A i \in DOMAIN ts : i # p => us[i] = ts[i]
           /\ ~IsTopLevel(ts, p) => us = ts
           /\ \A i \in DOMAIN ts : us[i].parent = ts[i].parent
           /\ \A i : Children(us, i) = Children(ts, i)
           /\ \A i : IsTopLevel(us, i) <=> IsTopLevel(ts, i)
           /\ IsTopLevel(ts, p) =>
                 /\ \A c \in Children(ts, p) : us[c] = ts[c]
                 /\ us[p] = ReconciledParent(ts[p], Flags(ts, p), reset)
<1>1. us \in Table /\ SameShape(ts, us)
  BY ReconcileShape
<1>2. DOMAIN us = DOMAIN ts /\ \A i \in DOMAIN ts : us[i].parent = ts[i].parent
  BY <1>1 DEF SameShape
<1>3. \A i : Children(us, i) = Children(ts, i)
  BY <1>1, SameShapeKeeps
<1>4. \A i : IsTopLevel(us, i) <=> IsTopLevel(ts, i)
  BY <1>2 DEF IsTopLevel
<1>5. NoTask \notin DOMAIN ts
  BY TableElim, NoTaskAssumption
<1>6. CASE IsTopLevel(ts, p)
  <2> DEFINE t == ReconciledParent(ts[p], Flags(ts, p), reset)
  <2>1. p \in DOMAIN ts /\ ts[p].parent = NoTask /\ p # NoTask
    BY <1>5, <1>6 DEF IsTopLevel
  <2>2. us = [ts EXCEPT ![p] = t]
    BY <1>6, <2>1 DEF ReconcileIfAny, ReconcileParentCompletion, Flags
  <2> HIDE DEF t
  <2>3. us[p] = t /\ \A i \in DOMAIN ts : i # p => us[i] = ts[i]
    BY <2>1, <2>2
  <2>4. \A c \in Children(ts, p) : c \in DOMAIN ts /\ c # p
    BY <2>1 DEF Children
  <2> QED
    BY <1>1, <1>2, <1>3, <1>4, <1>6, <2>3, <2>4 DEF t
<1>7. CASE ~IsTopLevel(ts, p)
  <2>1. us = ts
    BY <1>7 DEF ReconcileIfAny, ReconcileParentCompletion
  <2> QED
    BY <1>1, <1>7, <2>1
<1> QED
  BY <1>6, <1>7

\* The completion fields of a reconciled project.
LEMMA ReconciledFields ==
    ASSUME NEW t \in Task, NEW flags \in SUBSET BOOLEAN, NEW reset \in BOOLEAN,
           NEW u \in {ReconciledParent(t, flags, reset)}
    PROVE  /\ u \in Task
           /\ flags = {} => ~u.reopened /\ u.done = t.done
           /\ FALSE \in flags => ~u.done /\ ~u.reopened
           /\ flags # {} /\ FALSE \notin flags =>
                 /\ u.done \/ u.reopened
                 /\ u.reopened => t.reopened /\ ~reset
                 /\ u.reopened /\ ~t.done => ~u.done
<1>1. t.done \in BOOLEAN /\ t.reopened \in BOOLEAN
  BY DEF Task
<1>2. u \in Task
  BY ReconciledParentIsTask
<1> QED
  BY <1>1, <1>2 DEF ReconciledParent, Task

\* The completion flags of some rows.
LEMMA FlagsOf ==
    ASSUME NEW ts \in Table, NEW p
    PROVE  /\ Flags(ts, p) \subseteq BOOLEAN
           /\ Flags(ts, p) = {} <=> Children(ts, p) = {}
           /\ FALSE \in Flags(ts, p) <=> \E c \in Children(ts, p) : ~ts[c].done
<1>1. \A c \in Children(ts, p) : c \in DOMAIN ts /\ ts[c].done \in BOOLEAN
  BY TableElim DEF Children, Task
<1> QED
  BY <1>1 DEF Flags

-----------------------------------------------------------------------------
(* A task is completed behind the user's back only if it is earned.        *)

\* Every task outside of xs that is open in ts and complete in us has subtasks
\* there, all of them complete.
Earned(ts, us, xs) ==
    \A i \in (DOMAIN ts \cap DOMAIN us) \ xs :
        ~ts[i].done /\ us[i].done =>
            Children(us, i) # {} /\ \A c \in Children(us, i) : us[c].done

\* Reconciling completes a project only if all its subtasks are complete.
LEMMA ReconcileEarned ==
    ASSUME NEW ts \in Table, NEW vs \in Table, NEW xs, NEW p, NEW reset \in BOOLEAN,
           Earned(ts, vs, xs)
    PROVE  Earned(ts, ReconcileIfAny(vs, p, reset), xs)
<1> DEFINE us == ReconcileIfAny(vs, p, reset)
<1>1. /\ us \in Table /\ DOMAIN us = DOMAIN vs
      /\ \A i \in DOMAIN vs : i # p => us[i] = vs[i]
      /\ ~IsTopLevel(vs, p) => us = vs
      /\ \A i : Children(us, i) = Children(vs, i)
      /\ IsTopLevel(vs, p) =>
            /\ \A c \in Children(vs, p) : us[c] = vs[c]
            /\ us[p] = ReconciledParent(vs[p], Flags(vs, p), reset)
  BY ReconciledRows
<1> HIDE DEF us
<1>2. CASE ~IsTopLevel(vs, p)
  BY <1>1, <1>2 DEF us
<1>3. CASE IsTopLevel(vs, p)
  <2> SUFFICES ASSUME NEW i \in (DOMAIN ts \cap DOMAIN us) \ xs, ~ts[i].done, us[i].done
               PROVE  Children(us, i) # {} /\ \A c \in Children(us, i) : us[c].done
    BY DEF Earned, us
  <2>1. CASE i # p
    <3>1. us[i] = vs[i] /\ i \in DOMAIN vs
      BY <1>1, <2>1
    <3>2. Children(vs, i) # {} /\ \A c \in Children(vs, i) : vs[c].done
      BY <3>1 DEF Earned
    <3>3. i # NoTask
      BY TableElim, NoTaskAssumption, <3>1
    <3>4. p \notin Children(vs, i)
      BY <1>3, <3>3 DEF IsTopLevel, Children
    <3>5. \A c \in Children(vs, i) : us[c] = vs[c]
      BY <1>1, <3>4 DEF Children
    <3> QED
      BY <1>1, <3>2, <3>5
  <2>2. CASE i = p
    <3> DEFINE flags == Flags(vs, p)
    <3>1. vs[p] \in Task /\ p \in DOMAIN vs
      BY <1>3, TableElim DEF IsTopLevel
    <3>2. us[p] = ReconciledParent(vs[p], flags, reset)
      BY <1>1, <1>3
    <3>3. /\ flags \subseteq BOOLEAN
          /\ flags = {} <=> Children(vs, p) = {}
          /\ FALSE \in flags <=> \E c \in Children(vs, p) : ~vs[c].done
      BY FlagsOf
    <3> HIDE DEF flags
    <3>4. /\ flags = {} => us[p].done = vs[p].done
          /\ FALSE \in flags => ~us[p].done
      <4> DEFINE u == us[p]
      <4>1. u = ReconciledParent(vs[p], flags, reset) /\ vs[p] \in Task /\ flags \subseteq BOOLEAN
        BY <3>1, <3>2, <3>3
      <4> HIDE DEF u
      <4>2. (flags = {} => u.done = vs[p].done) /\ (FALSE \in flags => ~u.done)
        BY <4>1, ReconciledFields
      <4> QED
        BY <4>2 DEF u
    <3>5. flags # {}
      BY <2>2, <3>1, <3>3, <3>4 DEF Earned
    <3>6. Children(vs, p) # {} /\ \A c \in Children(vs, p) : vs[c].done
      BY <2>2, <3>3, <3>4, <3>5
    <3> QED
      BY <1>1, <1>3, <2>2, <3>6
  <2> QED
    BY <2>1, <2>2
<1> QED
  BY <1>2, <1>3

\* A change of rows that completes none outside of xs.
LEMMA NoneCompleted ==
    ASSUME NEW ts, NEW us, NEW xs,
           \A i \in (DOMAIN ts \cap DOMAIN us) \ xs : us[i].done => ts[i].done
    PROVE  Earned(ts, us, xs)
BY DEF Earned

\* deleteTask, once some other rows are gone or changed.
LEMMA DeleteTaskEarned ==
    ASSUME NEW ts \in Table, NEW vs \in Table, NEW id,
           \A i \in DOMAIN ts \cap DOMAIN vs : vs[i].done = ts[i].done
    PROVE  Earned(ts, DeleteTask(vs, id), {})
<1> DEFINE ws == Drop(vs, {id})
           p  == IF id \in DOMAIN vs THEN vs[id].parent ELSE NoTask
<1>1. ws \in Table
  BY DropKeeps
<1>2. DeleteTask(vs, id) = ReconcileIfAny(ws, p, TRUE)
  BY DEF DeleteTask
<1>3. \A i \in (DOMAIN ts \cap DOMAIN ws) \ {} : ws[i].done => ts[i].done
  BY DEF Drop
<1> HIDE DEF ws, p
<1>4. Earned(ts, ws, {})
  BY <1>3, NoneCompleted
<1> QED
  BY <1>1, <1>2, <1>4, ReconcileEarned

\* addTask, of a new task or of one that an undo puts back.
LEMMA AddTaskEarned ==
    ASSUME NEW ts \in Table, NEW id \in TaskId, id \notin DOMAIN ts, NEW t \in Task
    PROVE  Earned(ts, AddTask(ts, id, t), {})
<1> DEFINE a  == Adopted(ts, t)
           vs == Put(ts, id, a)
<1>1. a \in Task
  BY AdoptedIsTask
<1>2. AddTask(ts, id, t) = ReconcileIfAny(vs, a.parent, TRUE)
  BY DEF AddTask
<1> HIDE DEF a
<1>3. vs \in Table
  BY <1>1, PutIsTable
<1>4. \A i \in (DOMAIN ts \cap DOMAIN vs) \ {} : vs[i].done => ts[i].done
  BY DEF Put
<1> HIDE DEF vs
<1>5. Earned(ts, vs, {})
  BY <1>4, NoneCompleted
<1> QED
  BY <1>2, <1>3, <1>5, ReconcileEarned

\* setParent, which reconciles the project left and the project joined.
LEMMA SetParentEarned ==
    ASSUME NEW ts \in Table, NEW id, NEW p \in TaskId \cup {NoTask}
    PROVE  Earned(ts, SetParent(ts, id, p), {})
<1>1. CASE ~MayMove(ts, id, p)
  BY <1>1, NoneCompleted DEF SetParent
<1>2. CASE MayMove(ts, id, p)
  <2> DEFINE vs == Moved(ts, id, p)
             ws == ReconcileIfAny(vs, ts[id].parent, TRUE)
  <2>1. id \in DOMAIN ts /\ ts[id] \in Task
    BY <1>2, TableElim DEF MayMove
  <2>2. vs \in Table /\ DOMAIN vs = DOMAIN ts /\ \A i \in DOMAIN ts : i # id => vs[i] = ts[i]
    BY <2>1, MovedIsTable
  <2>3. vs[id].done = ts[id].done
    BY <2>1 DEF Moved, Task
  <2>4. SetParent(ts, id, p) = ReconcileIfAny(ws, p, TRUE)
    BY <1>2 DEF SetParent
  <2> HIDE DEF vs
  <2>5. \A i \in (DOMAIN ts \cap DOMAIN vs) \ {} : vs[i].done => ts[i].done
    BY <2>2, <2>3
  <2>6. Earned(ts, vs, {})
    BY <2>5, NoneCompleted
  <2>7. ws \in Table /\ Earned(ts, ws, {})
    BY <2>2, <2>6, ReconcileKeeps, ReconcileEarned
  <2> HIDE DEF ws
  <2> QED
    BY <2>4, <2>7, ReconcileEarned
<1> QED
  BY <1>1, <1>2

\* completeTask completes the task it is asked for and no other unearned;
\* restoreTask completes none unearned.
LEMMA CompletionEarned ==
    ASSUME NEW ts \in Table, NEW id
    PROVE  Earned(ts, CompleteTask(ts, id), {id}) /\ Earned(ts, RestoreTask(ts, id), {})
<1>1. CASE id \notin DOMAIN ts
  BY <1>1, NoneCompleted DEF CompleteTask, RestoreTask
<1>2. CASE id \in DOMAIN ts
  <2> DEFINE off == [ts[id] EXCEPT !.done = TRUE, !.reopened = FALSE]
             on  == [ts[id] EXCEPT !.done = FALSE, !.reopened = @ \/ Children(ts, id) # {}]
             vs  == [ts EXCEPT ![id] = off]
             ws  == [ts EXCEPT ![id] = on]
  <2>1. ts[id] \in Task /\ ts \in [DOMAIN ts -> Task] /\ DOMAIN ts \in SUBSET TaskId
    BY <1>2, TableElim
  <2>2. off \in Task /\ on \in Task /\ ~on.done
    BY <2>1 DEF Task
  <2>3. /\ CompleteTask(ts, id) = ReconcileIfAny(vs, ts[id].parent, FALSE)
        /\ RestoreTask(ts, id) = ReconcileIfAny(ws, ts[id].parent, TRUE)
    BY <1>2, <2>1 DEF CompleteTask, RestoreTask
  <2> HIDE DEF off, on
  <2>4. vs \in Table /\ ws \in Table
    BY <2>1, <2>2 DEF Table
  <2>5. /\ \A i \in (DOMAIN ts \cap DOMAIN vs) \ {id} : vs[i].done => ts[i].done
        /\ \A i \in (DOMAIN ts \cap DOMAIN ws) \ {} : ws[i].done => ts[i].done
    BY <1>2, <2>2
  <2> HIDE DEF vs, ws
  <2>6. Earned(ts, vs, {id}) /\ Earned(ts, ws, {})
    BY <2>5, NoneCompleted
  <2> QED
    BY <2>3, <2>4, <2>6, ReconcileEarned
<1> QED
  BY <1>1, <1>2

\* Both answers of the "Delete Project Task" dialog.
LEMMA DeleteParentEarned ==
    ASSUME NEW ts \in Table, NEW id
    PROVE  Earned(ts, DeleteSubtasks(ts, id), {}) /\ Earned(ts, DetachSubtasks(ts, id), {})
<1>1. Earned(ts, DeleteSubtasks(ts, id), {})
  <2> DEFINE vs == Drop(ts, Children(ts, id))
  <2>1. vs \in Table /\ \A i \in DOMAIN ts \cap DOMAIN vs : vs[i].done = ts[i].done
    BY DropKeeps DEF Drop
  <2>2. DeleteSubtasks(ts, id) = DeleteTask(vs, id)
    BY DEF DeleteSubtasks
  <2> HIDE DEF vs
  <2> QED
    BY <2>1, <2>2, DeleteTaskEarned
<1>2. Earned(ts, DetachSubtasks(ts, id), {})
  <2> DEFINE vs == [i \in DOMAIN ts |->
                      IF ts[i].parent = id THEN [ts[i] EXCEPT !.parent = NoTask] ELSE ts[i]]
  <2>1. \A i \in DOMAIN ts : vs[i] \in Task /\ vs[i].done = ts[i].done
    BY TableElim DEF Task
  <2>2. vs \in [DOMAIN ts -> Task] /\ DOMAIN ts \in SUBSET TaskId
    BY <2>1, TableElim
  <2>3. DetachSubtasks(ts, id) = DeleteTask(vs, id)
    BY DEF DetachSubtasks
  <2> HIDE DEF vs
  <2>4. vs \in Table /\ DOMAIN vs = DOMAIN ts
    BY <2>2, TableIntro
  <2> QED
    BY <2>1, <2>3, <2>4, DeleteTaskEarned
<1> QED
  BY <1>1, <1>2

\* One step completes a task on request, by a snapshot, or earned.
LEMMA NextEarned ==
    ASSUME TypeOK, [Next]_vars, ~BySnapshot
    PROVE  \A i \in DOMAIN tasks \cap DOMAIN tasks' :
              ~tasks[i].done /\ tasks'[i].done =>
                 \/ Complete(i)
                 \/ Children(tasks', i) # {} /\ \A c \in Children(tasks', i) : tasks'[c].done
<1> USE DEF TypeOK
<1> DEFINE OK == Earned(tasks, tasks', {})
<1>0. Earned(tasks, tasks, {})
  BY NoneCompleted
<1>1. ASSUME NEW id \in TaskId, NewTask(id) PROVE OK
  BY <1>1, NewRows, AddTaskEarned DEF NewTask, Fresh
<1>2. ASSUME NEW id \in TaskId, NEW p \in TaskId, NewSubtask(id, p) PROVE OK
  BY <1>2, NewRows, AddTaskEarned DEF NewSubtask, Fresh
<1>3. ASSUME NEW id \in TaskId, NEW p \in TaskId \cup {NoTask}, MoveTask(id, p) PROVE OK
  BY <1>3, SetParentEarned DEF MoveTask
<1>4. ASSUME NEW id \in TaskId, Complete(id) PROVE Earned(tasks, tasks', {id})
  BY <1>4, CompletionEarned DEF Complete
<1>5. ASSUME NEW id \in TaskId, Restore(id) PROVE OK
  BY <1>5, CompletionEarned DEF Restore
<1>6. ASSUME NEW id \in TaskId, Delete(id) PROVE OK
  BY <1>6, DeleteTaskEarned DEF Delete
<1>7. ASSUME NEW id \in TaskId, DeleteParent(id) PROVE OK
  BY <1>7, DeleteParentEarned DEF DeleteParent
<1>8. ASSUME UndoDeletion PROVE OK
  <2> DEFINE e == Last(undoStack)
  <2>1. e \in Entry
    BY <1>8, LastAndFront DEF UndoDeletion
  <2>2. e.id \in TaskId /\ e.task \in Task
    BY <2>1 DEF Entry
  <2>3. \/ tasks' = tasks
        \/ e.id \notin DOMAIN tasks /\ tasks' = AddTask(tasks, e.id, e.task)
    BY <1>8 DEF UndoDeletion
  <2> HIDE DEF e
  <2>4. CASE tasks' = tasks
    BY <1>0, <2>4
  <2>5. CASE e.id \notin DOMAIN tasks /\ tasks' = AddTask(tasks, e.id, e.task)
    <3>1. Earned(tasks, AddTask(tasks, e.id, e.task), {})
      BY <2>2, <2>5, AddTaskEarned
    <3> QED
      BY <2>5, <3>1
  <2> QED
    BY <2>3, <2>4, <2>5
<1>9. ASSUME RedoDeletion PROVE OK
  BY <1>9, DeleteTaskEarned DEF RedoDeletion
<1>10. ASSUME NEW on \in ExperimentalModes, SetExperimental(on) PROVE OK
  BY <1>0, <1>10 DEF SetExperimental
<1>11. ASSUME Relaunch PROVE OK
  BY <1>0, <1>11 DEF Relaunch
<1>12. ASSUME MigrateIfNeeded PROVE OK
  <2>1. \A i \in DOMAIN tasks : SanitizedRow(tasks, i).done = tasks[i].done
    BY TableElim DEF SanitizedRow, Task
  <2>2. \A i \in (DOMAIN tasks \cap DOMAIN tasks') \ {} : tasks'[i].done => tasks[i].done
    BY <1>12, <2>1 DEF MigrateIfNeeded, SanitizeHierarchy
  <2> QED
    BY <2>2, NoneCompleted
<1>13. ASSUME UNCHANGED vars PROVE OK
  BY <1>0, <1>13 DEF vars
<1>14. OK \/ \E id \in TaskId : Complete(id) /\ Earned(tasks, tasks', {id})
  BY <1>1, <1>2, <1>3, <1>4, <1>5, <1>6, <1>7, <1>8, <1>9, <1>10, <1>11, <1>12, <1>13
     DEF Next, BySnapshot
<1> QED
  BY <1>14 DEF Earned

\* completedAt of a task is set by its own completion, by a snapshot, or by
\* reconcileParentCompletion when every subtask it has is complete: under any
\* sequence of operations, undos, redos, snapshots and relaunches.
THEOREM CompletionIsAlwaysEarned == Spec => AutoCompletionIsEarned
<1>1. TypeOK /\ [Next]_vars =>
         [\A id \in DOMAIN tasks \cap DOMAIN tasks' :
             ~tasks[id].done /\ tasks'[id].done =>
                \/ Complete(id)
                \/ BySnapshot
                \/ /\ Children(tasks', id) # {}
                   /\ \A c \in Children(tasks', id) : tasks'[c].done]_vars
  BY NextEarned
<1> QED
  BY <1>1, TypeCorrect, PTL DEF Spec, AutoCompletionIsEarned

-----------------------------------------------------------------------------
(* An override ends with its reason.                                       *)

\* OverrideIsLive of a one-level table, but that the projects of xs may have
\* lost their last subtask.
Live(ts, xs) ==
    \A i \in DOMAIN ts :
        ts[i].reopened =>
            /\ IsTopLevel(ts, i)
            /\ ~ts[i].done
            /\ i \notin xs => Children(ts, i) # {}

\* Reconciling a project ends its override when it has no subtask.
LEMMA ReconcileLive ==
    ASSUME NEW vs \in Table, NEW xs, NEW p, NEW reset \in BOOLEAN,
           Live(vs, xs \cup {p})
    PROVE  Live(ReconcileIfAny(vs, p, reset), xs)
<1> DEFINE us == ReconcileIfAny(vs, p, reset)
<1>1. /\ us \in Table /\ DOMAIN us = DOMAIN vs
      /\ \A i \in DOMAIN vs : i # p => us[i] = vs[i]
      /\ ~IsTopLevel(vs, p) => us = vs
      /\ \A i : Children(us, i) = Children(vs, i)
      /\ \A i : IsTopLevel(us, i) <=> IsTopLevel(vs, i)
      /\ IsTopLevel(vs, p) =>
            us[p] = ReconciledParent(vs[p], Flags(vs, p), reset)
  BY ReconciledRows
<1> HIDE DEF us
<1> SUFFICES ASSUME NEW i \in DOMAIN vs, us[i].reopened
             PROVE  /\ IsTopLevel(vs, i) /\ ~us[i].done
                    /\ i \notin xs => Children(vs, i) # {}
  BY <1>1 DEF Live, us
<1>2. CASE i # p
  BY <1>1, <1>2 DEF Live
<1>3. CASE i = p /\ ~IsTopLevel(vs, p)
  BY <1>1, <1>3 DEF Live
<1>4. CASE i = p /\ IsTopLevel(vs, p)
  <2> DEFINE flags == Flags(vs, p)
             u     == us[p]
  <2>1. vs[p] \in Task
    BY <1>4, TableElim
  <2>2. u = ReconciledParent(vs[p], flags, reset)
    BY <1>1, <1>4
  <2>3. /\ flags \subseteq BOOLEAN
        /\ flags = {} <=> Children(vs, p) = {}
    BY FlagsOf
  <2> HIDE DEF flags, u
  <2>4. /\ flags = {} => ~u.reopened
        /\ FALSE \in flags => ~u.reopened
        /\ flags # {} /\ FALSE \notin flags =>
              /\ u.reopened => vs[p].reopened /\ ~reset
              /\ u.reopened /\ ~vs[p].done => ~u.done
    BY <2>1, <2>2, <2>3, ReconciledFields
  <2>5. u.reopened
    BY <1>4 DEF u
  <2>6. flags # {} /\ FALSE \notin flags
    BY <2>4, <2>5
  <2>7. vs[p].reopened
    BY <2>4, <2>5, <2>6
  <2>8. ~vs[p].done
    BY <1>4, <2>7 DEF Live
  <2>9. ~u.done
    BY <2>4, <2>5, <2>6, <2>8
  <2> QED
    BY <1>4, <2>3, <2>6, <2>9 DEF u
<1> QED
  BY <1>2, <1>3, <1>4

\* Rows that are as they were, with the subtasks they had unless they are in xs.
LEMMA LiveRows ==
    ASSUME NEW ts, NEW vs, NEW xs, NEW ys, Live(ts, ys),
           \A i \in DOMAIN vs : vs[i].reopened =>
              /\ i \in DOMAIN ts /\ ts[i].reopened
              /\ vs[i].parent = ts[i].parent /\ vs[i].done = ts[i].done
              /\ i \notin xs => i \notin ys /\ Children(ts, i) \subseteq Children(vs, i)
    PROVE  Live(vs, xs)
BY DEF Live, IsTopLevel

\* addTask of a row without an override.
LEMMA AddTaskLive ==
    ASSUME NEW ts \in Table, NEW id \in TaskId, id \notin DOMAIN ts,
           NEW t \in Task, ~t.reopened, Live(ts, {})
    PROVE  Live(AddTask(ts, id, t), {})
<1> DEFINE a  == Adopted(ts, t)
           vs == Put(ts, id, a)
<1>1. a \in Task
  BY AdoptedIsTask
<1>2. ~a.reopened
  BY DEF Adopted, Task
<1>3. AddTask(ts, id, t) = ReconcileIfAny(vs, a.parent, TRUE)
  BY DEF AddTask
<1> HIDE DEF a
<1>4. vs \in Table /\ DOMAIN vs = DOMAIN ts \cup {id}
  BY <1>1, PutIsTable
<1>5. vs[id] = a /\ \A i \in DOMAIN ts : vs[i] = ts[i]
  BY DEF Put
<1> HIDE DEF vs
<1>6. \A i : Children(ts, i) \subseteq Children(vs, i)
  BY <1>4, <1>5 DEF Children
<1>7. Live(vs, {} \cup {a.parent})
  BY <1>2, <1>4, <1>5, <1>6, LiveRows
<1> QED
  <2>1. \A p : Live(vs, {} \cup {p}) => Live(ReconcileIfAny(vs, p, TRUE), {})
    BY <1>4, ReconcileLive
  <2> QED
    BY <1>3, <1>7, <2>1, Zenon

\* setParent: the project left may have lost its last subtask, and is
\* reconciled; the task that moves has no subtask or stays top-level.
LEMMA SetParentLive ==
    ASSUME NEW ts \in Table, NEW id, NEW p \in TaskId \cup {NoTask}, Live(ts, {})
    PROVE  Live(SetParent(ts, id, p), {})
<1>1. CASE ~MayMove(ts, id, p)
  BY <1>1 DEF SetParent
<1>2. CASE MayMove(ts, id, p)
  <2> DEFINE vs == Moved(ts, id, p)
             q  == ts[id].parent
             ws == ReconcileIfAny(vs, q, TRUE)
  <2>1. id \in DOMAIN ts /\ ts[id] \in Task
    BY <1>2, TableElim DEF MayMove
  <2>2. /\ vs \in Table /\ DOMAIN vs = DOMAIN ts
        /\ \A i \in DOMAIN ts : i # id => vs[i] = ts[i]
        /\ vs[id].parent = p
    BY <2>1, MovedIsTable
  <2>3. vs[id].done = ts[id].done /\ (vs[id].reopened => ts[id].reopened /\ p = NoTask)
    BY <2>1 DEF Moved, Task
  <2>4. SetParent(ts, id, p) = ReconcileIfAny(ws, p, TRUE)
    BY <1>2 DEF SetParent
  <2> HIDE DEF vs
  <2>5. \A i : i # q => Children(ts, i) \subseteq Children(vs, i)
    BY <2>2 DEF Children
  <2>6. vs[id].reopened => ts[id].parent = NoTask /\ id # q
    <3>1. id # NoTask
      BY <2>1, TableElim, NoTaskAssumption
    <3> QED
      BY <2>1, <2>3, <3>1 DEF Live, IsTopLevel
  <2>7. Live(vs, ({} \cup {p}) \cup {q})
    BY <2>2, <2>3, <2>5, <2>6, LiveRows
  <2> HIDE DEF q
  <2>8. ws \in Table /\ Live(ws, {} \cup {p})
    BY <2>2, <2>7, ReconcileKeeps, ReconcileLive
  <2> HIDE DEF ws
  <2> QED
    BY <2>4, <2>8, ReconcileLive
<1> QED
  BY <1>1, <1>2

\* deleteTask: of a project that may already have lost its subtasks.
LEMMA DeleteTaskLive ==
    ASSUME NEW ts \in Table, NEW id, Live(ts, {id})
    PROVE  Live(DeleteTask(ts, id), {})
<1> DEFINE vs == Drop(ts, {id})
           p  == IF id \in DOMAIN ts THEN ts[id].parent ELSE NoTask
<1>1. vs \in Table /\ DOMAIN vs = DOMAIN ts \ {id}
  BY DropKeeps
<1>2. DeleteTask(ts, id) = ReconcileIfAny(vs, p, TRUE)
  BY DEF DeleteTask
<1>3. \A i \in DOMAIN vs : vs[i] = ts[i]
  BY DEF Drop
<1> HIDE DEF vs
<1>4. \A i : i # p => Children(ts, i) \subseteq Children(vs, i)
  BY <1>1, <1>3 DEF Children
<1> HIDE DEF p
<1>5. Live(vs, {} \cup {p})
  BY <1>1, <1>3, <1>4, LiveRows
<1> QED
  BY <1>1, <1>2, <1>5, ReconcileLive

\* Both answers of the "Delete Project Task" dialog: the project whose subtasks
\* go is itself deleted.
LEMMA DeleteParentLive ==
    ASSUME NEW ts \in Table, NEW id, Live(ts, {})
    PROVE  Live(DeleteSubtasks(ts, id), {}) /\ Live(DetachSubtasks(ts, id), {})
<1>1. Live(DeleteSubtasks(ts, id), {})
  <2> DEFINE vs == Drop(ts, Children(ts, id))
  <2>1. vs \in Table /\ DOMAIN vs = DOMAIN ts \ Children(ts, id)
    BY DropKeeps
  <2>2. \A i \in DOMAIN vs : vs[i] = ts[i]
    BY DEF Drop
  <2>3. DeleteSubtasks(ts, id) = DeleteTask(vs, id)
    BY DEF DeleteSubtasks
  <2> HIDE DEF vs
  <2>4. \A i : i # id => Children(ts, i) \subseteq Children(vs, i)
    BY <2>1, <2>2 DEF Children
  <2>5. Live(vs, {id})
    BY <2>1, <2>2, <2>4, LiveRows
  <2> QED
    BY <2>1, <2>3, <2>5, DeleteTaskLive
<1>2. Live(DetachSubtasks(ts, id), {})
  <2> DEFINE vs == [i \in DOMAIN ts |->
                      IF ts[i].parent = id THEN [ts[i] EXCEPT !.parent = NoTask] ELSE ts[i]]
  <2>1. \A i \in DOMAIN ts : /\ vs[i] \in Task
                             /\ vs[i].reopened = ts[i].reopened
                             /\ vs[i].done = ts[i].done
                             /\ vs[i].parent = IF ts[i].parent = id THEN NoTask ELSE ts[i].parent
    BY TableElim DEF Task
  <2>2. vs \in [DOMAIN ts -> Task] /\ DOMAIN ts \in SUBSET TaskId
    BY <2>1, TableElim
  <2>3. DetachSubtasks(ts, id) = DeleteTask(vs, id)
    BY DEF DetachSubtasks
  <2> HIDE DEF vs
  <2>4. vs \in Table /\ DOMAIN vs = DOMAIN ts
    BY <2>2, TableIntro
  <2>5. \A i : i # id => Children(ts, i) \subseteq Children(vs, i)
    BY <2>1, <2>4 DEF Children
  <2>6. \A i \in DOMAIN vs : vs[i].reopened => vs[i].parent = ts[i].parent
    BY <2>1, <2>4 DEF Live, IsTopLevel
  <2>7. Live(vs, {id})
    BY <2>1, <2>4, <2>5, <2>6, LiveRows
  <2> QED
    BY <2>3, <2>4, <2>7, DeleteTaskLive
<1> QED
  BY <1>1, <1>2

\* completeTask and restoreTask, on a one-level table.
LEMMA CompletionLive ==
    ASSUME NEW ts \in Table, NEW id, OneLevel(ts), Live(ts, {})
    PROVE  Live(CompleteTask(ts, id), {}) /\ Live(RestoreTask(ts, id), {})
<1>1. CASE id \notin DOMAIN ts
  BY <1>1 DEF CompleteTask, RestoreTask
<1>2. CASE id \in DOMAIN ts
  <2> DEFINE off == [ts[id] EXCEPT !.done = TRUE, !.reopened = FALSE]
             on  == [ts[id] EXCEPT !.done = FALSE, !.reopened = @ \/ Children(ts, id) # {}]
             vs  == [ts EXCEPT ![id] = off]
             ws  == [ts EXCEPT ![id] = on]
             q   == ts[id].parent
  <2>1. ts[id] \in Task /\ ts \in [DOMAIN ts -> Task] /\ DOMAIN ts \in SUBSET TaskId
    BY <1>2, TableElim
  <2>2. off \in Task /\ ~off.reopened /\ off.parent = ts[id].parent
    BY <2>1 DEF Task
  <2>3. /\ on \in Task /\ ~on.done /\ on.parent = ts[id].parent
        /\ on.reopened => ts[id].reopened \/ Children(ts, id) # {}
    BY <2>1 DEF Task
  <2>4. /\ CompleteTask(ts, id) = ReconcileIfAny(vs, q, FALSE)
        /\ RestoreTask(ts, id) = ReconcileIfAny(ws, q, TRUE)
    BY <1>2, <2>1 DEF CompleteTask, RestoreTask
  <2>5. on.reopened => Children(ts, id) # {} /\ IsTopLevel(ts, id)
    BY <1>2, <2>3 DEF Live, Children, OneLevel
  <2> HIDE DEF off, on
  <2>6. /\ vs \in Table /\ DOMAIN vs = DOMAIN ts
        /\ ws \in Table /\ DOMAIN ws = DOMAIN ts
        /\ vs[id] = off /\ ws[id] = on
        /\ \A i \in DOMAIN ts : i # id => vs[i] = ts[i] /\ ws[i] = ts[i]
    BY <1>2, <2>1, <2>2, <2>3 DEF Table
  <2> HIDE DEF vs, ws, q
  <2>7. \A i : Children(vs, i) = Children(ts, i) /\ Children(ws, i) = Children(ts, i)
    BY <2>2, <2>3, <2>6 DEF Children
  <2>8. Live(vs, {} \cup {q})
    BY <2>2, <2>6, <2>7 DEF Live, IsTopLevel
  <2>9. Live(ws, {} \cup {q})
    BY <2>3, <2>5, <2>6, <2>7 DEF Live, IsTopLevel
  <2> QED
    <3>1. Live(ReconcileIfAny(vs, q, FALSE), {})
      BY <2>6, <2>8, ReconcileLive
    <3>2. Live(ReconcileIfAny(ws, q, TRUE), {})
      BY <2>6, <2>9, ReconcileLive
    <3> QED
      BY <2>4, <3>1, <3>2
<1> QED
  BY <1>1, <1>2

\* A row that is detached from a task that is gone keeps what it had.
LEMMA SanitizeLive ==
    ASSUME NEW ts \in Table, Live(ts, {})
    PROVE  Live(SanitizeHierarchy(ts), {})
<1> DEFINE us == SanitizeHierarchy(ts)
<1>1. NoTask \notin DOMAIN ts
  BY TableElim, NoTaskAssumption
<1>2. /\ DOMAIN us = DOMAIN ts
      /\ \A i \in DOMAIN ts :
            /\ us[i].done = ts[i].done
            /\ us[i].reopened => ts[i].reopened
            /\ ts[i].parent = NoTask => us[i].parent = NoTask
            /\ ts[i].parent # i /\ IsTopLevel(ts, ts[i].parent) => us[i].parent = ts[i].parent
  BY <1>1, TableElim DEF SanitizeHierarchy, SanitizedRow, Task, IsTopLevel
<1> HIDE DEF us
<1>3. ASSUME NEW i \in DOMAIN ts, ts[i].reopened
      PROVE  Children(ts, i) \subseteq Children(us, i) /\ ts[i].parent = NoTask
  <2>1. IsTopLevel(ts, i)
    BY <1>3 DEF Live
  <2> QED
    BY <1>1, <1>2, <2>1 DEF Children, IsTopLevel
<1>4. \A i \in DOMAIN us : us[i].reopened =>
         /\ i \in DOMAIN ts /\ ts[i].reopened
         /\ us[i].parent = ts[i].parent /\ us[i].done = ts[i].done
         /\ Children(ts, i) \subseteq Children(us, i)
  BY <1>2, <1>3
<1>5. Live(us, {})
  BY <1>4, LiveRows
<1> QED
  BY <1>5 DEF us

\* One step of a device.
LEMMA NextLive ==
    ASSUME TypeOK, NoNesting, OverrideIsLive, [Next]_vars, ~UndoDeletion, ~BySnapshot
    PROVE  OverrideIsLive'
<1> USE DEF TypeOK
<1> DEFINE OK == Live(tasks', {})
<1>0. Live(tasks, {})
  BY DEF Live, OverrideIsLive, NoNesting, OneLevel, Children
<1>1. ASSUME NEW id \in TaskId, NewTask(id) PROVE OK
  BY <1>0, <1>1, NewRows, AddTaskLive DEF NewTask, Fresh
<1>2. ASSUME NEW id \in TaskId, NEW p \in TaskId, NewSubtask(id, p) PROVE OK
  BY <1>0, <1>2, NewRows, AddTaskLive DEF NewSubtask, Fresh
<1>3. ASSUME NEW id \in TaskId, NEW p \in TaskId \cup {NoTask}, MoveTask(id, p) PROVE OK
  BY <1>0, <1>3, SetParentLive DEF MoveTask
<1>4. ASSUME NEW id \in TaskId, Complete(id) PROVE OK
  BY <1>0, <1>4, CompletionLive DEF Complete, NoNesting
<1>5. ASSUME NEW id \in TaskId, Restore(id) PROVE OK
  BY <1>0, <1>5, CompletionLive DEF Restore, NoNesting
<1>6. \A id : Live(tasks, {id})
  BY <1>0 DEF Live
<1>7. ASSUME NEW id \in TaskId, Delete(id) PROVE OK
  BY <1>6, <1>7, DeleteTaskLive DEF Delete
<1>8. ASSUME NEW id \in TaskId, DeleteParent(id) PROVE OK
  BY <1>0, <1>8, DeleteParentLive DEF DeleteParent
<1>9. ASSUME RedoDeletion PROVE OK
  BY <1>6, <1>9, DeleteTaskLive DEF RedoDeletion
<1>10. ASSUME NEW on \in ExperimentalModes, SetExperimental(on) PROVE OK
  BY <1>0, <1>10 DEF SetExperimental
<1>11. ASSUME Relaunch PROVE OK
  BY <1>0, <1>11 DEF Relaunch
<1>12. ASSUME MigrateIfNeeded PROVE OK
  BY <1>0, <1>12, SanitizeLive DEF MigrateIfNeeded
<1>13. ASSUME UNCHANGED vars PROVE OK
  BY <1>0, <1>13 DEF vars
<1>14. OK
  BY <1>1, <1>2, <1>3, <1>4, <1>5, <1>7, <1>8, <1>9, <1>10, <1>11, <1>12, <1>13
     DEF Next, BySnapshot
<1> QED
  BY <1>14 DEF Live, OverrideIsLive

\* No operation of the device leaves parentManualReopenAt on a project that is
\* complete or has no subtask: only putting a deleted task back and a snapshot,
\* which reconcile nothing else, can.
THEOREM OverrideEndsWithItsReason == Spec => OverrideOutlivedOnlyBySync
<1>1. TypeOK /\ [Next]_vars =>
         [NoNesting /\ OverrideIsLive /\ ~OverrideIsLive' => UndoDeletion \/ BySnapshot]_vars
  BY NextLive
<1> QED
  BY <1>1, TypeCorrect, PTL DEF Spec, OverrideOutlivedOnlyBySync

-----------------------------------------------------------------------------
(* A project agrees with its subtasks.                                     *)

\* CompletionAgreement of a table, but for the projects of xs.
Agree(ts, xs) ==
    \A i \in DOMAIN ts \ xs :
        IsTopLevel(ts, i) /\ Children(ts, i) # {} /\ (\A c \in Children(ts, i) : ts[c].done)
            => ts[i].done \/ ts[i].reopened

\* Reconciling a project makes it agree, and no other project disagree.
LEMMA ReconcileAgrees ==
    ASSUME NEW vs \in Table, NEW xs, NEW p, NEW reset \in BOOLEAN,
           Agree(vs, xs \cup {p})
    PROVE  Agree(ReconcileIfAny(vs, p, reset), xs)
<1> DEFINE us == ReconcileIfAny(vs, p, reset)
<1>1. /\ us \in Table /\ DOMAIN us = DOMAIN vs
      /\ \A i \in DOMAIN vs : i # p => us[i] = vs[i]
      /\ ~IsTopLevel(vs, p) => us = vs
      /\ \A i : Children(us, i) = Children(vs, i)
      /\ \A i : IsTopLevel(us, i) <=> IsTopLevel(vs, i)
      /\ IsTopLevel(vs, p) =>
            /\ \A c \in Children(vs, p) : us[c] = vs[c]
            /\ us[p] = ReconciledParent(vs[p], Flags(vs, p), reset)
  BY ReconciledRows
<1> HIDE DEF us
<1> SUFFICES ASSUME NEW i \in DOMAIN vs \ xs, IsTopLevel(vs, i), Children(vs, i) # {},
                    \A c \in Children(vs, i) : us[c].done
             PROVE  us[i].done \/ us[i].reopened
  BY <1>1 DEF Agree, us
<1>2. CASE ~IsTopLevel(vs, p)
  <2>1. us = vs /\ i # p
    BY <1>1, <1>2
  <2> QED
    BY <2>1 DEF Agree
<1>3. CASE IsTopLevel(vs, p) /\ i # p
  <2>1. i # NoTask
    BY TableElim, NoTaskAssumption
  <2>2. p \notin Children(vs, i)
    BY <1>3, <2>1 DEF IsTopLevel, Children
  <2>3. us[i] = vs[i] /\ \A c \in Children(vs, i) : us[c] = vs[c]
    BY <1>1, <1>3, <2>2 DEF Children
  <2> QED
    BY <1>3, <2>3 DEF Agree
<1>4. CASE IsTopLevel(vs, p) /\ i = p
  <2> DEFINE flags == Flags(vs, p)
             u     == us[p]
  <2>1. vs[p] \in Task
    BY <1>4, TableElim
  <2>2. u = ReconciledParent(vs[p], flags, reset)
    BY <1>1, <1>4
  <2>3. /\ flags \subseteq BOOLEAN
        /\ flags = {} <=> Children(vs, p) = {}
        /\ FALSE \in flags <=> \E c \in Children(vs, p) : ~vs[c].done
    BY FlagsOf
  <2> HIDE DEF flags, u
  <2>4. flags # {} /\ FALSE \notin flags
    BY <1>1, <1>4, <2>3
  <2>5. flags # {} /\ FALSE \notin flags => u.done \/ u.reopened
    BY <2>1, <2>2, <2>3, ReconciledFields
  <2> QED
    BY <1>4, <2>4, <2>5 DEF u
<1> QED
  BY <1>2, <1>3, <1>4

\* Projects with the subtasks and the completion they had agree as they did.
LEMMA AgreeRows ==
    ASSUME NEW ts, NEW vs, NEW xs, NEW ys, Agree(ts, ys),
           \A i \in DOMAIN vs \ xs : IsTopLevel(vs, i) /\ Children(vs, i) # {} =>
              /\ i \notin ys /\ IsTopLevel(ts, i)
              /\ Children(ts, i) = Children(vs, i)
              /\ \A c \in Children(vs, i) : vs[c].done => ts[c].done
              /\ ts[i].done => vs[i].done
              /\ ts[i].reopened => vs[i].reopened
    PROVE  Agree(vs, xs)
<1> SUFFICES ASSUME NEW i \in DOMAIN vs \ xs, IsTopLevel(vs, i), Children(vs, i) # {},
                    \A c \in Children(vs, i) : vs[c].done
             PROVE  vs[i].done \/ vs[i].reopened
  BY DEF Agree
<1>1. /\ i \in DOMAIN ts \ ys /\ IsTopLevel(ts, i)
      /\ Children(ts, i) # {} /\ \A c \in Children(ts, i) : ts[c].done
  BY DEF IsTopLevel
<1>2. ts[i].done \/ ts[i].reopened
  BY <1>1 DEF Agree
<1> QED
  BY <1>2

\* A task with subtasks is top-level, in a one-level table.
LEMMA ParentsAreTopLevel ==
    ASSUME NEW ts \in Table, OneLevel(ts), NEW i \in DOMAIN ts, Children(ts, i) # {}
    PROVE  IsTopLevel(ts, i)
BY DEF OneLevel, Children

\* addTask of a task nobody refers to.
LEMMA AddTaskAgrees ==
    ASSUME NEW ts \in Table, NEW id \in TaskId, id \notin DOMAIN ts, Children(ts, id) = {},
           NEW t \in Task, Agree(ts, {})
    PROVE  Agree(AddTask(ts, id, t), {})
<1> DEFINE a  == Adopted(ts, t)
           vs == Put(ts, id, a)
           p  == a.parent
<1>1. a \in Task /\ (a.parent = NoTask \/ IsTopLevel(ts, a.parent))
  BY AdoptedIsTask
<1>2. AddTask(ts, id, t) = ReconcileIfAny(vs, p, TRUE)
  BY DEF AddTask
<1> HIDE DEF a
<1>3. vs \in Table /\ DOMAIN vs = DOMAIN ts \cup {id}
  BY <1>1, PutIsTable
<1>4. vs[id] = a /\ \A i \in DOMAIN ts : vs[i] = ts[i]
  BY DEF Put
<1> HIDE DEF vs
<1>5. p # id
  BY <1>1, NoTaskAssumption DEF IsTopLevel
<1>6. \A i : i # p => Children(vs, i) = Children(ts, i)
  BY <1>3, <1>4 DEF Children
<1>7. \A i \in DOMAIN vs \ ({} \cup {p}) : IsTopLevel(vs, i) /\ Children(vs, i) # {} =>
         /\ i \notin {} /\ IsTopLevel(ts, i)
         /\ Children(ts, i) = Children(vs, i)
         /\ \A c \in Children(vs, i) : vs[c].done => ts[c].done
         /\ ts[i].done => vs[i].done
         /\ ts[i].reopened => vs[i].reopened
  <2> SUFFICES ASSUME NEW i \in DOMAIN vs \ {p}, IsTopLevel(vs, i), Children(vs, i) # {}
               PROVE  /\ IsTopLevel(ts, i) /\ Children(ts, i) = Children(vs, i)
                      /\ vs[i] = ts[i]
                      /\ \A c \in Children(vs, i) : vs[c] = ts[c]
    OBVIOUS
  <2>1. Children(ts, i) = Children(vs, i)
    BY <1>6
  <2>2. i \in DOMAIN ts
    BY <1>3, <2>1
  <2> QED
    BY <1>4, <2>1, <2>2 DEF IsTopLevel, Children
<1> HIDE DEF p
<1>8. Agree(vs, {} \cup {p})
  BY <1>7, AgreeRows
<1> QED
  <2>1. Agree(ReconcileIfAny(vs, p, TRUE), {})
    BY <1>3, <1>8, ReconcileAgrees
  <2> QED
    BY <1>2, <2>1

\* setParent reconciles the project left and the project joined; a task that
\* becomes top-level had no subtask, or was top-level before.
LEMMA SetParentAgrees ==
    ASSUME NEW ts \in Table, NEW id, NEW p \in TaskId \cup {NoTask},
           OneLevel(ts), Agree(ts, {})
    PROVE  Agree(SetParent(ts, id, p), {})
<1>1. CASE ~MayMove(ts, id, p)
  BY <1>1 DEF SetParent
<1>2. CASE MayMove(ts, id, p)
  <2> DEFINE vs == Moved(ts, id, p)
             q  == ts[id].parent
             ws == ReconcileIfAny(vs, q, TRUE)
  <2>1. id \in DOMAIN ts /\ ts[id] \in Task
    BY <1>2, TableElim DEF MayMove
  <2>2. /\ vs \in Table /\ DOMAIN vs = DOMAIN ts
        /\ \A i \in DOMAIN ts : i # id => vs[i] = ts[i]
        /\ vs[id].parent = p
    BY <2>1, MovedIsTable
  <2>3. vs[id].done = ts[id].done /\ (ts[id].reopened /\ p = NoTask => vs[id].reopened)
    BY <2>1 DEF Moved, Task
  <2>4. SetParent(ts, id, p) = ReconcileIfAny(ws, p, TRUE)
    BY <1>2 DEF SetParent
  <2> HIDE DEF vs
  <2>5. \A i : i # q /\ i # p => Children(vs, i) = Children(ts, i)
    BY <2>1, <2>2 DEF Children
  <2>6. \A i \in DOMAIN ts : vs[i].done = ts[i].done
    BY <2>2, <2>3
  <2>7. \A i \in DOMAIN vs \ (({} \cup {p}) \cup {q}) : IsTopLevel(vs, i) /\ Children(vs, i) # {} =>
           /\ i \notin {} /\ IsTopLevel(ts, i)
           /\ Children(ts, i) = Children(vs, i)
           /\ \A c \in Children(vs, i) : vs[c].done => ts[c].done
           /\ ts[i].done => vs[i].done
           /\ ts[i].reopened => vs[i].reopened
    <3> SUFFICES ASSUME NEW i \in DOMAIN ts, i # p, i # q, IsTopLevel(vs, i), Children(vs, i) # {}
                 PROVE  /\ IsTopLevel(ts, i)
                        /\ Children(ts, i) = Children(vs, i)
                        /\ \A c \in Children(vs, i) : vs[c].done => ts[c].done
                        /\ ts[i].done => vs[i].done
                        /\ ts[i].reopened => vs[i].reopened
      BY <2>2
    <3>1. Children(ts, i) = Children(vs, i)
      BY <2>5
    <3>2. IsTopLevel(ts, i)
      BY <3>1, ParentsAreTopLevel
    <3>3. ts[i].reopened => vs[i].reopened
      BY <2>2, <2>3 DEF IsTopLevel
    <3>4. \A c \in Children(vs, i) : vs[c].done => ts[c].done
      BY <2>6, <3>1 DEF Children
    <3> QED
      BY <2>6, <3>1, <3>2, <3>3, <3>4
  <2> HIDE DEF q
  <2>8. Agree(vs, ({} \cup {p}) \cup {q})
    BY <2>7, AgreeRows
  <2>9. ws \in Table /\ Agree(ws, {} \cup {p})
    BY <2>2, <2>8, ReconcileKeeps, ReconcileAgrees
  <2> HIDE DEF ws
  <2> QED
    BY <2>4, <2>9, ReconcileAgrees
<1> QED
  BY <1>1, <1>2

\* deleteTask: of a project that may disagree already.
LEMMA DeleteTaskAgrees ==
    ASSUME NEW ts \in Table, NEW id, Agree(ts, {id})
    PROVE  Agree(DeleteTask(ts, id), {})
<1> DEFINE vs == Drop(ts, {id})
           p  == IF id \in DOMAIN ts THEN ts[id].parent ELSE NoTask
<1>1. vs \in Table /\ DOMAIN vs = DOMAIN ts \ {id}
  BY DropKeeps
<1>2. DeleteTask(ts, id) = ReconcileIfAny(vs, p, TRUE)
  BY DEF DeleteTask
<1>3. \A i \in DOMAIN vs : vs[i] = ts[i]
  BY DEF Drop
<1> HIDE DEF vs
<1>4. \A i : i # p => Children(vs, i) = Children(ts, i)
  BY <1>1, <1>3 DEF Children
<1> HIDE DEF p
<1>5. \A i \in DOMAIN vs \ ({} \cup {p}) : IsTopLevel(vs, i) /\ Children(vs, i) # {} =>
         /\ i \notin {id} /\ IsTopLevel(ts, i)
         /\ Children(ts, i) = Children(vs, i)
         /\ \A c \in Children(vs, i) : vs[c].done => ts[c].done
         /\ ts[i].done => vs[i].done
         /\ ts[i].reopened => vs[i].reopened
  BY <1>1, <1>3, <1>4 DEF IsTopLevel, Children
<1>6. Agree(vs, {} \cup {p})
  BY <1>5, AgreeRows
<1> QED
  BY <1>1, <1>2, <1>6, ReconcileAgrees

\* Both answers of the "Delete Project Task" dialog: the project whose subtasks
\* go is itself deleted, and subtasks that are detached have none themselves.
LEMMA DeleteParentAgrees ==
    ASSUME NEW ts \in Table, NEW id, OneLevel(ts), Agree(ts, {})
    PROVE  Agree(DeleteSubtasks(ts, id), {}) /\ Agree(DetachSubtasks(ts, id), {})
<1>1. Agree(DeleteSubtasks(ts, id), {})
  <2> DEFINE vs == Drop(ts, Children(ts, id))
  <2>1. vs \in Table /\ DOMAIN vs = DOMAIN ts \ Children(ts, id)
    BY DropKeeps
  <2>2. \A i \in DOMAIN vs : vs[i] = ts[i]
    BY DEF Drop
  <2>3. DeleteSubtasks(ts, id) = DeleteTask(vs, id)
    BY DEF DeleteSubtasks
  <2> HIDE DEF vs
  <2>4. \A i : i # id => Children(vs, i) = Children(ts, i)
    BY <2>1, <2>2 DEF Children
  <2>5. \A i \in DOMAIN vs \ {id} : IsTopLevel(vs, i) /\ Children(vs, i) # {} =>
           /\ i \notin {} /\ IsTopLevel(ts, i)
           /\ Children(ts, i) = Children(vs, i)
           /\ \A c \in Children(vs, i) : vs[c].done => ts[c].done
           /\ ts[i].done => vs[i].done
           /\ ts[i].reopened => vs[i].reopened
    BY <2>1, <2>2, <2>4 DEF IsTopLevel, Children
  <2>6. Agree(vs, {id})
    BY <2>5, AgreeRows
  <2> QED
    BY <2>1, <2>3, <2>6, DeleteTaskAgrees
<1>2. Agree(DetachSubtasks(ts, id), {})
  <2> DEFINE vs == [i \in DOMAIN ts |->
                      IF ts[i].parent = id THEN [ts[i] EXCEPT !.parent = NoTask] ELSE ts[i]]
  <2>1. \A i \in DOMAIN ts : /\ vs[i] \in Task
                             /\ vs[i].reopened = ts[i].reopened
                             /\ vs[i].done = ts[i].done
                             /\ vs[i].parent = IF ts[i].parent = id THEN NoTask ELSE ts[i].parent
    BY TableElim DEF Task
  <2>2. vs \in [DOMAIN ts -> Task] /\ DOMAIN ts \in SUBSET TaskId /\ NoTask \notin DOMAIN ts
    BY <2>1, TableElim, NoTaskAssumption
  <2>3. DetachSubtasks(ts, id) = DeleteTask(vs, id)
    BY DEF DetachSubtasks
  <2> HIDE DEF vs
  <2>4. vs \in Table /\ DOMAIN vs = DOMAIN ts
    BY <2>2, TableIntro
  <2>5. \A i \in DOMAIN ts : i # id => Children(vs, i) = Children(ts, i)
    BY <2>1, <2>2, <2>4 DEF Children
  <2>6. \A i \in DOMAIN vs \ {id} : IsTopLevel(vs, i) /\ Children(vs, i) # {} =>
           /\ i \notin {} /\ IsTopLevel(ts, i)
           /\ Children(ts, i) = Children(vs, i)
           /\ \A c \in Children(vs, i) : vs[c].done => ts[c].done
           /\ ts[i].done => vs[i].done
           /\ ts[i].reopened => vs[i].reopened
    <3> SUFFICES ASSUME NEW i \in DOMAIN ts, i # id, Children(vs, i) # {}
                 PROVE  /\ IsTopLevel(ts, i)
                        /\ Children(ts, i) = Children(vs, i)
                        /\ \A c \in Children(vs, i) : vs[c].done => ts[c].done
                        /\ ts[i].done => vs[i].done
                        /\ ts[i].reopened => vs[i].reopened
      BY <2>4
    <3>1. Children(ts, i) = Children(vs, i)
      BY <2>5
    <3>2. IsTopLevel(ts, i)
      BY <3>1, ParentsAreTopLevel
    <3>3. \A c \in Children(vs, i) : vs[c].done => ts[c].done
      BY <2>1, <3>1 DEF Children
    <3> QED
      BY <2>1, <3>1, <3>2, <3>3
  <2>7. Agree(vs, {id})
    BY <2>6, AgreeRows
  <2> QED
    BY <2>3, <2>4, <2>7, DeleteTaskAgrees
<1> QED
  BY <1>1, <1>2

\* completeTask and restoreTask: the task itself is complete, or reopened if it
\* has subtasks, and its project is reconciled.
LEMMA CompletionAgrees ==
    ASSUME NEW ts \in Table, NEW id, Agree(ts, {})
    PROVE  Agree(CompleteTask(ts, id), {}) /\ Agree(RestoreTask(ts, id), {})
<1>1. CASE id \notin DOMAIN ts
  BY <1>1 DEF CompleteTask, RestoreTask
<1>2. CASE id \in DOMAIN ts
  <2> DEFINE off == [ts[id] EXCEPT !.done = TRUE, !.reopened = FALSE]
             on  == [ts[id] EXCEPT !.done = FALSE, !.reopened = @ \/ Children(ts, id) # {}]
             vs  == [ts EXCEPT ![id] = off]
             ws  == [ts EXCEPT ![id] = on]
             q   == ts[id].parent
  <2>1. ts[id] \in Task /\ ts \in [DOMAIN ts -> Task] /\ DOMAIN ts \in SUBSET TaskId
    BY <1>2, TableElim
  <2>2. off \in Task /\ off.done /\ off.parent = ts[id].parent
    BY <2>1 DEF Task
  <2>3. /\ on \in Task /\ on.parent = ts[id].parent
        /\ Children(ts, id) # {} => on.reopened
    BY <2>1 DEF Task
  <2>4. /\ CompleteTask(ts, id) = ReconcileIfAny(vs, q, FALSE)
        /\ RestoreTask(ts, id) = ReconcileIfAny(ws, q, TRUE)
    BY <1>2, <2>1 DEF CompleteTask, RestoreTask
  <2> HIDE DEF off, on
  <2>5. /\ vs \in Table /\ DOMAIN vs = DOMAIN ts
        /\ ws \in Table /\ DOMAIN ws = DOMAIN ts
        /\ vs[id] = off /\ ws[id] = on
        /\ \A i \in DOMAIN ts : i # id => vs[i] = ts[i] /\ ws[i] = ts[i]
    BY <1>2, <2>1, <2>2, <2>3 DEF Table
  <2> HIDE DEF vs, ws
  <2>6. \A i : Children(vs, i) = Children(ts, i) /\ Children(ws, i) = Children(ts, i)
    BY <2>2, <2>3, <2>5 DEF Children
  <2>7. \A i : i # q => id \notin Children(ts, i)
    BY DEF Children
  <2> HIDE DEF q
  <2>8. \A i : i # q => \A c \in Children(ts, i) : vs[c] = ts[c] /\ ws[c] = ts[c]
    BY <2>5, <2>7 DEF Children
  <2>9. Agree(vs, {} \cup {q})
    <3> SUFFICES ASSUME NEW i \in DOMAIN vs, i # q, IsTopLevel(vs, i), Children(vs, i) # {},
                        \A c \in Children(vs, i) : vs[c].done
                 PROVE  vs[i].done \/ vs[i].reopened
      BY DEF Agree
    <3>1. CASE i = id
      BY <2>2, <2>5, <3>1
    <3>2. CASE i # id
      BY <2>5, <2>6, <2>8, <3>2 DEF Agree, IsTopLevel
    <3> QED
      BY <3>1, <3>2
  <2>10. Agree(ws, {} \cup {q})
    <3> SUFFICES ASSUME NEW i \in DOMAIN ws, i # q, IsTopLevel(ws, i), Children(ws, i) # {},
                        \A c \in Children(ws, i) : ws[c].done
                 PROVE  ws[i].done \/ ws[i].reopened
      BY DEF Agree
    <3>1. CASE i = id
      BY <2>3, <2>5, <2>6, <3>1
    <3>2. CASE i # id
      BY <2>5, <2>6, <2>8, <3>2 DEF Agree, IsTopLevel
    <3> QED
      BY <3>1, <3>2
  <2>11. Agree(ReconcileIfAny(vs, q, FALSE), {})
    BY <2>5, <2>9, ReconcileAgrees
  <2>12. Agree(ReconcileIfAny(ws, q, TRUE), {})
    BY <2>5, <2>10, ReconcileAgrees
  <2> QED
    BY <2>4, <2>11, <2>12
<1> QED
  BY <1>1, <1>2

\* Sanitizing a one-level list only detaches tasks whose parent is gone, and
\* those have no subtasks.
LEMMA SanitizeAgrees ==
    ASSUME NEW ts \in Table, OneLevel(ts), Agree(ts, {})
    PROVE  Agree(SanitizeHierarchy(ts), {})
<1> DEFINE us == SanitizeHierarchy(ts)
<1>1. NoTask \notin DOMAIN ts
  BY TableElim, NoTaskAssumption
<1>2. /\ DOMAIN us = DOMAIN ts
      /\ \A i \in DOMAIN ts :
            /\ us[i].done = ts[i].done
            /\ ts[i].parent = NoTask => us[i] = ts[i]
            /\ us[i].parent \in {NoTask, ts[i].parent}
            /\ ts[i].parent # i /\ IsTopLevel(ts, ts[i].parent) => us[i].parent = ts[i].parent
  BY <1>1, TableElim DEF SanitizeHierarchy, SanitizedRow, Task, IsTopLevel
<1> HIDE DEF us
<1>3. \A i \in DOMAIN ts : Children(us, i) = Children(ts, i)
  BY <1>1, <1>2 DEF Children, OneLevel, IsTopLevel
<1>4. \A i \in DOMAIN us \ {} : IsTopLevel(us, i) /\ Children(us, i) # {} =>
         /\ i \notin {} /\ IsTopLevel(ts, i)
         /\ Children(ts, i) = Children(us, i)
         /\ \A c \in Children(us, i) : us[c].done => ts[c].done
         /\ ts[i].done => us[i].done
         /\ ts[i].reopened => us[i].reopened
  <2> SUFFICES ASSUME NEW i \in DOMAIN ts, Children(us, i) # {}
               PROVE  /\ IsTopLevel(ts, i) /\ us[i] = ts[i]
                      /\ Children(ts, i) = Children(us, i)
                      /\ \A c \in Children(us, i) : us[c].done => ts[c].done
    BY <1>2
  <2>1. Children(ts, i) = Children(us, i) /\ IsTopLevel(ts, i)
    BY <1>3, ParentsAreTopLevel
  <2> QED
    BY <1>2, <2>1 DEF IsTopLevel, Children
<1>5. Agree(us, {})
  BY <1>4, AgreeRows
<1> QED
  BY <1>5 DEF us

\* One step of a device.
LEMMA NextAgrees ==
    ASSUME TypeOK, NoNesting, CompletionAgreement, [Next]_vars, ~UndoDeletion, ~BySnapshot
    PROVE  CompletionAgreement'
<1> USE DEF TypeOK
<1> DEFINE OK == Agree(tasks', {})
<1>0. Agree(tasks, {}) /\ OneLevel(tasks)
  BY DEF Agree, CompletionAgreement, NoNesting
<1>1. ASSUME NEW id \in TaskId, NewTask(id) PROVE OK
  BY <1>0, <1>1, NewRows, AddTaskAgrees DEF NewTask, Fresh
<1>2. ASSUME NEW id \in TaskId, NEW p \in TaskId, NewSubtask(id, p) PROVE OK
  BY <1>0, <1>2, NewRows, AddTaskAgrees DEF NewSubtask, Fresh
<1>3. ASSUME NEW id \in TaskId, NEW p \in TaskId \cup {NoTask}, MoveTask(id, p) PROVE OK
  BY <1>0, <1>3, SetParentAgrees DEF MoveTask
<1>4. ASSUME NEW id \in TaskId, Complete(id) PROVE OK
  BY <1>0, <1>4, CompletionAgrees DEF Complete
<1>5. ASSUME NEW id \in TaskId, Restore(id) PROVE OK
  BY <1>0, <1>5, CompletionAgrees DEF Restore
<1>6. \A id : Agree(tasks, {id})
  BY <1>0 DEF Agree
<1>7. ASSUME NEW id \in TaskId, Delete(id) PROVE OK
  BY <1>6, <1>7, DeleteTaskAgrees DEF Delete
<1>8. ASSUME NEW id \in TaskId, DeleteParent(id) PROVE OK
  BY <1>0, <1>8, DeleteParentAgrees DEF DeleteParent
<1>9. ASSUME RedoDeletion PROVE OK
  BY <1>6, <1>9, DeleteTaskAgrees DEF RedoDeletion
<1>10. ASSUME NEW on \in ExperimentalModes, SetExperimental(on) PROVE OK
  BY <1>0, <1>10 DEF SetExperimental
<1>11. ASSUME Relaunch PROVE OK
  BY <1>0, <1>11 DEF Relaunch
<1>12. ASSUME MigrateIfNeeded PROVE OK
  BY <1>0, <1>12, SanitizeAgrees DEF MigrateIfNeeded
<1>13. ASSUME UNCHANGED vars PROVE OK
  BY <1>0, <1>13 DEF vars
<1>14. OK
  BY <1>1, <1>2, <1>3, <1>4, <1>5, <1>7, <1>8, <1>9, <1>10, <1>11, <1>12, <1>13
     DEF Next, BySnapshot
<1> QED
  BY <1>14 DEF Agree, CompletionAgreement

\* Every operation of the device, redo, relaunch and clean-up included,
\* reconciles each project whose subtasks it adds, moves, completes, restores or
\* deletes: in a one-level list, agreement is lost only to an undo or a snapshot.
THEOREM AgreementSurvivesTheDevice == Spec => AgreementLostOnlyBySync
<1>1. TypeOK /\ [Next]_vars =>
         [NoNesting /\ CompletionAgreement /\ ~CompletionAgreement' =>
             UndoDeletion \/ BySnapshot]_vars
  BY NextAgrees
<1> QED
  BY <1>1, TypeCorrect, PTL DEF Spec, AgreementLostOnlyBySync

=============================================================================
