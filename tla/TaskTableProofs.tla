-------------------------- MODULE TaskTableProofs --------------------------
(***************************************************************************)
(* What each operation on a task table preserves: the result is a table,   *)
(* an acyclic table stays acyclic, a one-level table stays one-level.       *)
(***************************************************************************)
EXTENDS TaskTable, TLAPS

\* A table maps some ids to rows, and whatever does so is a table.
LEMMA TableElim ==
    ASSUME NEW ts \in Table
    PROVE  /\ DOMAIN ts \in SUBSET TaskId
           /\ ts \in [DOMAIN ts -> Task]
           /\ \A id \in DOMAIN ts : ts[id] \in Task
BY DEF Table

\* A function from some ids to rows is a table.
LEMMA TableIntro ==
    ASSUME NEW ids \in SUBSET TaskId, NEW ts \in [ids -> Task]
    PROVE  ts \in Table /\ DOMAIN ts = ids
BY DEF Table

\* Two tables with the same ids and the same parent references.
SameShape(ts, us) ==
    /\ DOMAIN us = DOMAIN ts
    /\ \A id \in DOMAIN ts : us[id].parent = ts[id].parent

\* What the parent references decide only depends on them.
LEMMA SameShapeKeeps ==
    ASSUME NEW ts \in Table, NEW us \in Table, SameShape(ts, us)
    PROVE  /\ Acyclic(ts) => Acyclic(us)
           /\ OneLevel(ts) => OneLevel(us)
           /\ \A id : Children(us, id) = Children(ts, id)
<1>1. Acyclic(ts) => Acyclic(us)
  BY DEF SameShape, Acyclic
<1>2. OneLevel(ts) => OneLevel(us)
  BY DEF SameShape, OneLevel, IsTopLevel
<1>3. \A id : Children(us, id) = Children(ts, id)
  BY DEF SameShape, Children
<1> QED
  BY <1>1, <1>2, <1>3

\* Two changes that keep the parent references.
LEMMA SameShapeTransitive ==
    ASSUME NEW ts, NEW us, NEW vs, SameShape(ts, us), SameShape(us, vs)
    PROVE  SameShape(ts, vs)
BY DEF SameShape

-----------------------------------------------------------------------------
(* Reconciling a parent changes its completion fields only.                *)

\* A reconciled row is a row.
LEMMA ReconciledParentIsTask ==
    ASSUME NEW t \in Task, NEW flags, NEW reset \in BOOLEAN
    PROVE  /\ ReconciledParent(t, flags, reset) \in Task
           /\ ReconciledParent(t, flags, reset).parent = t.parent
BY DEF ReconciledParent, Task

\* reconcileParentCompletion changes no parent reference and no id.
LEMMA ReconcileShape ==
    ASSUME NEW ts \in Table, NEW p, NEW reset \in BOOLEAN
    PROVE  /\ ReconcileIfAny(ts, p, reset) \in Table
           /\ SameShape(ts, ReconcileIfAny(ts, p, reset))
<1>1. CASE p # NoTask /\ IsTopLevel(ts, p)
  <2> DEFINE t == ReconciledParent(ts[p], {ts[c].done : c \in Children(ts, p)}, reset)
             us == [ts EXCEPT ![p] = t]
  <2>1. p \in DOMAIN ts /\ ts[p] \in Task
    BY <1>1, TableElim DEF IsTopLevel
  <2>2. t \in Task /\ t.parent = ts[p].parent
    BY <2>1, ReconciledParentIsTask
  <2>3. us \in [DOMAIN ts -> Task] /\ SameShape(ts, us)
    <3> HIDE DEF t
    <3> QED BY <2>1, <2>2, TableElim DEF SameShape
  <2>4. ReconcileIfAny(ts, p, reset) = us
    BY <1>1 DEF ReconcileIfAny, ReconcileParentCompletion
  <2>5. DOMAIN ts \in SUBSET TaskId
    BY TableElim
  <2>6. us \in Table
    <3> HIDE DEF us
    <3> QED BY <2>3, <2>5, TableIntro
  <2> QED
    BY <2>3, <2>4, <2>6
<1>2. CASE ~(p # NoTask /\ IsTopLevel(ts, p))
  BY <1>2 DEF ReconcileIfAny, ReconcileParentCompletion, SameShape
<1> QED
  BY <1>1, <1>2


\* So it keeps a table one-level and acyclic.
LEMMA ReconcileKeeps ==
    ASSUME NEW ts \in Table, NEW p, NEW reset \in BOOLEAN
    PROVE  LET us == ReconcileIfAny(ts, p, reset)
           IN  /\ us \in Table
               /\ DOMAIN us = DOMAIN ts
               /\ Acyclic(ts) => Acyclic(us)
               /\ OneLevel(ts) => OneLevel(us)
               /\ \A id : Children(us, id) = Children(ts, id)
<1> DEFINE us == ReconcileIfAny(ts, p, reset)
<1>1. us \in Table /\ SameShape(ts, us)
  BY ReconcileShape
<1> HIDE DEF us
<1>2. DOMAIN us = DOMAIN ts
  BY <1>1 DEF SameShape
<1>3. /\ Acyclic(ts) => Acyclic(us)
      /\ OneLevel(ts) => OneLevel(us)
      /\ \A id : Children(us, id) = Children(ts, id)
  BY <1>1, SameShapeKeeps
<1> QED
  BY <1>1, <1>2, <1>3 DEF us

-----------------------------------------------------------------------------
(* addTask: the id is new to the table.                                    *)

\* The row addTask appends is a row, and its parent is none or a top-level task.
LEMMA AdoptedIsTask ==
    ASSUME NEW ts \in Table, NEW t \in Task
    PROVE  LET a == Adopted(ts, t)
           IN  a \in Task /\ (a.parent = NoTask \/ IsTopLevel(ts, a.parent))
BY DEF Adopted, Task

\* A table with one more row.
LEMMA PutIsTable ==
    ASSUME NEW ts \in Table, NEW id \in TaskId, NEW t \in Task
    PROVE  Put(ts, id, t) \in Table /\ DOMAIN Put(ts, id, t) = DOMAIN ts \cup {id}
<1>1. DOMAIN ts \cup {id} \in SUBSET TaskId
  BY TableElim
<1>2. Put(ts, id, t) \in [DOMAIN ts \cup {id} -> Task]
  BY TableElim DEF Put
<1> QED
  BY <1>1, <1>2, TableIntro

\* addTask of a task nobody refers to keeps a table one-level; with any id that
\* is new to the table it keeps it acyclic.
LEMMA AddTaskKeeps ==
    ASSUME NEW ts \in Table, NEW id \in TaskId, id \notin DOMAIN ts, NEW t \in Task
    PROVE  LET us == AddTask(ts, id, t)
           IN  /\ us \in Table
               /\ DOMAIN us = DOMAIN ts \cup {id}
               /\ Acyclic(ts) => Acyclic(us)
               /\ OneLevel(ts) /\ Children(ts, id) = {} => OneLevel(us)
<1> DEFINE a  == Adopted(ts, t)
           vs == Put(ts, id, a)
           us == AddTask(ts, id, t)
<1>1. a \in Task /\ (a.parent = NoTask \/ IsTopLevel(ts, a.parent))
  BY AdoptedIsTask
<1>2. us = ReconcileIfAny(vs, a.parent, TRUE)
  BY DEF AddTask
<1> HIDE DEF a
<1>3. vs \in Table /\ DOMAIN vs = DOMAIN ts \cup {id}
  BY <1>1, PutIsTable
<1>4. vs[id] = a /\ \A i \in DOMAIN ts : vs[i] = ts[i]
  BY DEF Put
<1>5. NoTask \notin DOMAIN ts \cup {id} /\ DOMAIN ts \subseteq TaskId
  BY TableElim, NoTaskAssumption
<1> HIDE DEF vs
\* A set that holds the new task and its parent holds a top-level task.
<1>6. ASSUME Acyclic(ts) PROVE Acyclic(vs)
  <2> SUFFICES ASSUME NEW ids \in SUBSET DOMAIN vs, ids # {}
               PROVE  \E i \in ids : vs[i].parent \notin ids
    BY DEF Acyclic
  <2>1. CASE id \notin ids
    <3>1. ids \in SUBSET DOMAIN ts
      BY <1>3, <2>1
    <3>2. \E i \in ids : ts[i].parent \notin ids
      BY <1>6, <3>1 DEF Acyclic
    <3> QED
      BY <1>4, <3>1, <3>2
  <2>2. CASE id \in ids /\ a.parent \notin ids
    BY <1>4, <2>2
  <2>3. CASE id \in ids /\ a.parent \in ids
    <3>1. IsTopLevel(ts, a.parent)
      BY <1>1, <1>3, <1>5, <2>3
    <3>2. vs[a.parent].parent = NoTask
      BY <1>4, <3>1 DEF IsTopLevel
    <3> QED
      BY <1>3, <1>5, <2>3, <3>2
  <2> QED
    BY <2>1, <2>2, <2>3
<1>7. ASSUME OneLevel(ts), Children(ts, id) = {} PROVE OneLevel(vs)
  <2> SUFFICES ASSUME NEW i \in DOMAIN vs, vs[i].parent \in DOMAIN vs
               PROVE  IsTopLevel(vs, vs[i].parent)
    BY DEF OneLevel
  <2>1. CASE i = id
    <3>1. IsTopLevel(ts, a.parent)
      BY <1>1, <1>3, <1>4, <1>5, <2>1
    <3> QED
      BY <1>3, <1>4, <2>1, <3>1 DEF IsTopLevel
  <2>2. CASE i # id
    <3>1. i \in DOMAIN ts /\ vs[i] = ts[i]
      BY <1>3, <1>4, <2>2
    <3>2. ts[i].parent # id
      BY <1>7, <3>1 DEF Children
    <3>3. IsTopLevel(ts, ts[i].parent)
      BY <1>3, <1>7, <3>1, <3>2 DEF OneLevel
    <3> QED
      BY <1>3, <1>4, <3>1, <3>3 DEF IsTopLevel
  <2> QED
    BY <2>1, <2>2
<1>8. /\ us \in Table
      /\ DOMAIN us = DOMAIN vs
      /\ Acyclic(vs) => Acyclic(us)
      /\ OneLevel(vs) => OneLevel(us)
  BY <1>2, <1>3, ReconcileKeeps
<1> HIDE DEF us
<1>9. /\ us \in Table
      /\ DOMAIN us = DOMAIN ts \cup {id}
      /\ Acyclic(ts) => Acyclic(us)
      /\ OneLevel(ts) /\ Children(ts, id) = {} => OneLevel(us)
  BY <1>3, <1>6, <1>7, <1>8
<1> QED
  BY <1>9 DEF us

-----------------------------------------------------------------------------
(* setParent: the new parent is top-level, the task it moves has no        *)
(* subtasks.                                                               *)

\* A row with another parent.
LEMMA MovedIsTable ==
    ASSUME NEW ts \in Table, NEW id \in DOMAIN ts, NEW p \in TaskId \cup {NoTask}
    PROVE  LET vs == Moved(ts, id, p)
           IN  /\ vs \in Table
               /\ DOMAIN vs = DOMAIN ts
               /\ vs[id].parent = p
               /\ \A i \in DOMAIN ts : i # id => vs[i] = ts[i]
<1> DEFINE row == [ts[id] EXCEPT !.parent = p, !.reopened = @ /\ p = NoTask]
           vs  == [ts EXCEPT ![id] = row]
<1>1. ts[id] \in Task /\ ts \in [DOMAIN ts -> Task] /\ DOMAIN ts \in SUBSET TaskId
  BY TableElim
<1>2. row \in Task /\ row.parent = p
  BY <1>1 DEF Task
<1>3. Moved(ts, id, p) = vs
  BY <1>1 DEF Moved
<1> HIDE DEF row
<1>4. vs \in [DOMAIN ts -> Task] /\ vs[id].parent = p
  BY <1>1, <1>2
<1>5. \A i \in DOMAIN ts : i # id => vs[i] = ts[i]
  OBVIOUS
<1> HIDE DEF vs
<1>6. vs \in Table /\ DOMAIN vs = DOMAIN ts
  BY <1>1, <1>4, TableIntro
<1> QED
  BY <1>3, <1>4, <1>5, <1>6

\* setParent keeps a table one-level and acyclic.
LEMMA SetParentKeeps ==
    ASSUME NEW ts \in Table, NEW id, NEW p \in TaskId \cup {NoTask}
    PROVE  LET us == SetParent(ts, id, p)
           IN  /\ us \in Table
               /\ DOMAIN us = DOMAIN ts
               /\ Acyclic(ts) => Acyclic(us)
               /\ OneLevel(ts) => OneLevel(us)
<1>1. CASE ~MayMove(ts, id, p)
  BY <1>1 DEF SetParent
<1>2. CASE MayMove(ts, id, p)
  <2> DEFINE vs == Moved(ts, id, p)
             ws == ReconcileIfAny(vs, ts[id].parent, TRUE)
             us == ReconcileIfAny(ws, p, TRUE)
  <2>1. /\ id \in DOMAIN ts /\ id \in TaskId /\ p # id
        /\ p # NoTask => Children(ts, id) = {} /\ IsTopLevel(ts, p)
    BY <1>2, TableElim DEF MayMove
  <2>2. /\ vs \in Table
        /\ DOMAIN vs = DOMAIN ts
        /\ vs[id].parent = p
        /\ \A i \in DOMAIN ts : i # id => vs[i] = ts[i]
    BY <2>1, MovedIsTable
  <2>3. SetParent(ts, id, p) = us
    BY <1>2 DEF SetParent
  <2> HIDE DEF vs
  <2>4. NoTask \notin DOMAIN ts
    BY TableElim, NoTaskAssumption
  <2>5. ASSUME Acyclic(ts) PROVE Acyclic(vs)
    <3> SUFFICES ASSUME NEW ids \in SUBSET DOMAIN vs, ids # {}
                 PROVE  \E i \in ids : vs[i].parent \notin ids
      BY DEF Acyclic
    <3>1. CASE id \notin ids
      <4>1. \E i \in ids : ts[i].parent \notin ids
        BY <2>2, <2>5 DEF Acyclic
      <4> QED
        BY <2>2, <3>1, <4>1
    <3>2. CASE id \in ids /\ p \notin ids
      BY <2>2, <3>2
    <3>3. CASE id \in ids /\ p \in ids
      <4>1. p \in DOMAIN ts /\ ts[p].parent = NoTask
        BY <2>1, <2>2, <2>4, <3>3 DEF IsTopLevel
      <4> QED
        BY <2>1, <2>2, <2>4, <3>3, <4>1
    <3> QED
      BY <3>1, <3>2, <3>3
  <2>6. ASSUME OneLevel(ts) PROVE OneLevel(vs)
    <3> SUFFICES ASSUME NEW i \in DOMAIN vs, vs[i].parent \in DOMAIN vs
                 PROVE  IsTopLevel(vs, vs[i].parent)
      BY DEF OneLevel
    <3>1. CASE i = id
      BY <2>1, <2>2, <2>4, <3>1 DEF IsTopLevel
    <3>2. CASE i # id
      <4>1. vs[i].parent = ts[i].parent /\ IsTopLevel(ts, ts[i].parent)
        BY <2>2, <2>6, <3>2 DEF OneLevel
      <4>2. CASE p = NoTask
        BY <2>2, <4>1, <4>2 DEF IsTopLevel
      <4>3. CASE p # NoTask
        <5>1. ts[i].parent # id
          BY <2>1, <2>2, <4>3 DEF Children
        <5> QED
          BY <2>2, <4>1, <5>1 DEF IsTopLevel
      <4> QED
        BY <4>2, <4>3
    <3> QED
      BY <3>1, <3>2
  <2>7. /\ ws \in Table /\ DOMAIN ws = DOMAIN vs
        /\ Acyclic(vs) => Acyclic(ws)
        /\ OneLevel(vs) => OneLevel(ws)
    BY <2>2, ReconcileKeeps
  <2> HIDE DEF ws
  <2>8. /\ us \in Table /\ DOMAIN us = DOMAIN ws
        /\ Acyclic(ws) => Acyclic(us)
        /\ OneLevel(ws) => OneLevel(us)
    BY <2>7, ReconcileKeeps
  <2> HIDE DEF us
  <2> QED
    BY <2>2, <2>3, <2>5, <2>6, <2>7, <2>8
<1> QED
  BY <1>1, <1>2

-----------------------------------------------------------------------------
(* Deleting rows.                                                          *)

\* So does removing rows.
LEMMA DropKeeps ==
    ASSUME NEW ts \in Table, NEW ids
    PROVE  LET us == Drop(ts, ids)
           IN  /\ us \in Table
               /\ DOMAIN us = DOMAIN ts \ ids
               /\ Acyclic(ts) => Acyclic(us)
               /\ OneLevel(ts) => OneLevel(us)
<1> DEFINE us == Drop(ts, ids)
<1>1. us \in [DOMAIN ts \ ids -> Task] /\ DOMAIN ts \ ids \in SUBSET TaskId
  BY TableElim DEF Drop
<1>2. \A i \in DOMAIN ts \ ids : us[i] = ts[i]
  BY DEF Drop
<1> HIDE DEF us
<1>3. us \in Table /\ DOMAIN us = DOMAIN ts \ ids
  BY <1>1, TableIntro
<1>4. Acyclic(ts) => Acyclic(us)
  BY <1>2, <1>3 DEF Acyclic
<1>5. OneLevel(ts) => OneLevel(us)
  BY <1>2, <1>3 DEF OneLevel, IsTopLevel
<1> QED
  BY <1>3, <1>4, <1>5 DEF us

\* So does deleteTask.
LEMMA DeleteTaskKeeps ==
    ASSUME NEW ts \in Table, NEW id
    PROVE  LET us == DeleteTask(ts, id)
           IN  /\ us \in Table
               /\ DOMAIN us = DOMAIN ts \ {id}
               /\ Acyclic(ts) => Acyclic(us)
               /\ OneLevel(ts) => OneLevel(us)
<1> DEFINE vs == Drop(ts, {id})
           p  == IF id \in DOMAIN ts THEN ts[id].parent ELSE NoTask
           us == ReconcileIfAny(vs, p, TRUE)
<1>1. /\ vs \in Table
      /\ DOMAIN vs = DOMAIN ts \ {id}
      /\ Acyclic(ts) => Acyclic(vs)
      /\ OneLevel(ts) => OneLevel(vs)
  BY DropKeeps
<1>2. DeleteTask(ts, id) = us
  BY DEF DeleteTask
<1> HIDE DEF vs, p
<1>3. /\ us \in Table
      /\ DOMAIN us = DOMAIN vs
      /\ Acyclic(vs) => Acyclic(us)
      /\ OneLevel(vs) => OneLevel(us)
  BY <1>1, ReconcileKeeps
<1> HIDE DEF us
<1> QED
  BY <1>1, <1>2, <1>3

\* So does deleteParentTask with the subtasks.
LEMMA DeleteSubtasksKeeps ==
    ASSUME NEW ts \in Table, NEW id
    PROVE  LET us == DeleteSubtasks(ts, id)
           IN  /\ us \in Table
               /\ DOMAIN us \subseteq DOMAIN ts
               /\ Acyclic(ts) => Acyclic(us)
               /\ OneLevel(ts) => OneLevel(us)
<1> DEFINE vs == Drop(ts, Children(ts, id))
           us == DeleteTask(vs, id)
<1>1. /\ vs \in Table
      /\ DOMAIN vs \subseteq DOMAIN ts
      /\ Acyclic(ts) => Acyclic(vs)
      /\ OneLevel(ts) => OneLevel(vs)
  BY DropKeeps
<1>2. DeleteSubtasks(ts, id) = us
  BY DEF DeleteSubtasks
<1> HIDE DEF vs
<1>3. /\ us \in Table
      /\ DOMAIN us = DOMAIN vs \ {id}
      /\ Acyclic(vs) => Acyclic(us)
      /\ OneLevel(vs) => OneLevel(us)
  BY <1>1, DeleteTaskKeeps
<1> HIDE DEF us
<1> QED
  BY <1>1, <1>2, <1>3

\* So does deleteParentTask that detaches them.
LEMMA DetachSubtasksKeeps ==
    ASSUME NEW ts \in Table, NEW id
    PROVE  LET us == DetachSubtasks(ts, id)
           IN  /\ us \in Table
               /\ DOMAIN us \subseteq DOMAIN ts
               /\ Acyclic(ts) => Acyclic(us)
               /\ OneLevel(ts) => OneLevel(us)
<1> DEFINE vs == [i \in DOMAIN ts |->
                    IF ts[i].parent = id THEN [ts[i] EXCEPT !.parent = NoTask] ELSE ts[i]]
           us == DeleteTask(vs, id)
<1>1. \A i \in DOMAIN ts : vs[i] \in Task /\ vs[i].parent \in {ts[i].parent, NoTask}
  BY TableElim DEF Task
<1>2. vs \in [DOMAIN ts -> Task] /\ DOMAIN ts \in SUBSET TaskId /\ NoTask \notin DOMAIN ts
  BY <1>1, TableElim, NoTaskAssumption
<1>3. DetachSubtasks(ts, id) = us
  BY DEF DetachSubtasks
<1> HIDE DEF vs
<1>4. vs \in Table /\ DOMAIN vs = DOMAIN ts
  BY <1>2, TableIntro
<1>5. ASSUME Acyclic(ts) PROVE Acyclic(vs)
  <2> SUFFICES ASSUME NEW ids \in SUBSET DOMAIN vs, ids # {}
               PROVE  \E i \in ids : vs[i].parent \notin ids
    BY DEF Acyclic
  <2>1. PICK i \in ids : ts[i].parent \notin ids
    BY <1>4, <1>5 DEF Acyclic
  <2> QED
    BY <1>1, <1>2, <1>4, <2>1
<1>6. ASSUME OneLevel(ts) PROVE OneLevel(vs)
  BY <1>1, <1>2, <1>4, <1>6 DEF OneLevel, IsTopLevel
<1>7. /\ us \in Table
      /\ DOMAIN us = DOMAIN vs \ {id}
      /\ Acyclic(vs) => Acyclic(us)
      /\ OneLevel(vs) => OneLevel(us)
  BY <1>4, DeleteTaskKeeps
<1> HIDE DEF us
<1> QED
  BY <1>3, <1>4, <1>5, <1>6, <1>7

-----------------------------------------------------------------------------
(* completeTask and restoreTask change completion fields only.             *)

\* So does completeTask.
LEMMA CompleteTaskKeeps ==
    ASSUME NEW ts \in Table, NEW id
    PROVE  LET us == CompleteTask(ts, id)
           IN  /\ us \in Table
               /\ DOMAIN us = DOMAIN ts
               /\ Acyclic(ts) => Acyclic(us)
               /\ OneLevel(ts) => OneLevel(us)
<1>1. CASE id \notin DOMAIN ts
  BY <1>1 DEF CompleteTask
<1>2. CASE id \in DOMAIN ts
  <2> DEFINE row == [ts[id] EXCEPT !.done = TRUE, !.reopened = FALSE]
             vs  == [ts EXCEPT ![id] = row]
             us  == ReconcileIfAny(vs, ts[id].parent, FALSE)
  <2>1. ts[id] \in Task /\ ts \in [DOMAIN ts -> Task] /\ DOMAIN ts \in SUBSET TaskId
    BY <1>2, TableElim
  <2>2. row \in Task /\ row.parent = ts[id].parent
    BY <2>1 DEF Task
  <2>3. CompleteTask(ts, id) = us
    BY <1>2, <2>1 DEF CompleteTask
  <2> HIDE DEF row
  <2>4. vs \in [DOMAIN ts -> Task] /\ SameShape(ts, vs)
    BY <2>1, <2>2 DEF SameShape
  <2> HIDE DEF vs
  <2>5. vs \in Table /\ DOMAIN vs = DOMAIN ts
    BY <2>1, <2>4, TableIntro
  <2>6. (Acyclic(ts) => Acyclic(vs)) /\ (OneLevel(ts) => OneLevel(vs))
    BY <2>4, <2>5, SameShapeKeeps
  <2>7. /\ us \in Table /\ DOMAIN us = DOMAIN vs
        /\ Acyclic(vs) => Acyclic(us)
        /\ OneLevel(vs) => OneLevel(us)
    BY <2>5, ReconcileKeeps
  <2> HIDE DEF us
  <2> QED
    BY <2>3, <2>5, <2>6, <2>7
<1> QED
  BY <1>1, <1>2

\* So does restoreTask.
LEMMA RestoreTaskKeeps ==
    ASSUME NEW ts \in Table, NEW id
    PROVE  LET us == RestoreTask(ts, id)
           IN  /\ us \in Table
               /\ DOMAIN us = DOMAIN ts
               /\ Acyclic(ts) => Acyclic(us)
               /\ OneLevel(ts) => OneLevel(us)
<1>1. CASE id \notin DOMAIN ts
  BY <1>1 DEF RestoreTask
<1>2. CASE id \in DOMAIN ts
  <2> DEFINE row == [ts[id] EXCEPT !.done = FALSE,
                                   !.reopened = @ \/ Children(ts, id) # {}]
             vs  == [ts EXCEPT ![id] = row]
             us  == ReconcileIfAny(vs, ts[id].parent, TRUE)
  <2>1. ts[id] \in Task /\ ts \in [DOMAIN ts -> Task] /\ DOMAIN ts \in SUBSET TaskId
    BY <1>2, TableElim
  <2>2. row \in Task /\ row.parent = ts[id].parent
    BY <2>1 DEF Task
  <2>3. RestoreTask(ts, id) = us
    BY <1>2, <2>1 DEF RestoreTask
  <2> HIDE DEF row
  <2>4. vs \in [DOMAIN ts -> Task] /\ SameShape(ts, vs)
    BY <2>1, <2>2 DEF SameShape
  <2> HIDE DEF vs
  <2>5. vs \in Table /\ DOMAIN vs = DOMAIN ts
    BY <2>1, <2>4, TableIntro
  <2>6. (Acyclic(ts) => Acyclic(vs)) /\ (OneLevel(ts) => OneLevel(vs))
    BY <2>4, <2>5, SameShapeKeeps
  <2>7. /\ us \in Table /\ DOMAIN us = DOMAIN vs
        /\ Acyclic(vs) => Acyclic(us)
        /\ OneLevel(vs) => OneLevel(us)
    BY <2>5, ReconcileKeeps
  <2> HIDE DEF us
  <2> QED
    BY <2>3, <2>5, <2>6, <2>7
<1> QED
  BY <1>1, <1>2

-----------------------------------------------------------------------------
(* Sanitizing makes any table one-level, and one-level tables are acyclic. *)

\* A one-level table has no loops.
LEMMA OneLevelIsAcyclic ==
    ASSUME NEW ts \in Table, OneLevel(ts)
    PROVE  Acyclic(ts)
<1> SUFFICES ASSUME NEW ids \in SUBSET DOMAIN ts, ids # {}
             PROVE  \E id \in ids : ts[id].parent \notin ids
  BY DEF Acyclic
<1>1. PICK id \in ids : TRUE
  OBVIOUS
<1>2. CASE ts[id].parent \in ids
  <2>1. ts[ts[id].parent].parent = NoTask
    BY <1>2 DEF OneLevel, IsTopLevel
  <2> QED
    BY <1>2, <2>1, TableElim, NoTaskAssumption
<1> QED
  BY <1>2

\* A sanitized row is a row.
LEMMA SanitizedRowIsTask ==
    ASSUME NEW ts \in Table, NEW id \in DOMAIN ts
    PROVE  LET t == SanitizedRow(ts, id)
           IN  /\ t \in Task
               /\ \/ t.parent = NoTask
                  \/ t.parent = ts[id].parent /\ IsTopLevel(ts, t.parent)
               /\ t.reopened => t.parent = NoTask
               /\ ts[id].parent = NoTask => t = ts[id]
<1>1. ts[id] \in Task /\ NoTask \notin DOMAIN ts
  BY TableElim, NoTaskAssumption
<1> QED
  BY <1>1 DEF SanitizedRow, Task, IsTopLevel

\* sanitizeHierarchy makes any table one-level, and keeps its ids.
LEMMA SanitizeMakesOneLevel ==
    ASSUME NEW ts \in Table
    PROVE  LET us == SanitizeHierarchy(ts)
           IN  /\ us \in Table
               /\ DOMAIN us = DOMAIN ts
               /\ OneLevel(us)
               /\ Acyclic(us)
<1> DEFINE us == SanitizeHierarchy(ts)
<1>1. \A id \in DOMAIN ts :
         /\ us[id] \in Task
         /\ \/ us[id].parent = NoTask
            \/ us[id].parent = ts[id].parent /\ IsTopLevel(ts, us[id].parent)
         /\ ts[id].parent = NoTask => us[id] = ts[id]
  BY SanitizedRowIsTask DEF SanitizeHierarchy
<1>2. us \in [DOMAIN ts -> Task] /\ DOMAIN ts \in SUBSET TaskId /\ NoTask \notin DOMAIN ts
  BY <1>1, TableElim, NoTaskAssumption DEF SanitizeHierarchy
<1> HIDE DEF us
<1>3. us \in Table /\ DOMAIN us = DOMAIN ts
  BY <1>2, TableIntro
<1>4. OneLevel(us)
  BY <1>1, <1>2, <1>3 DEF OneLevel, IsTopLevel
<1> QED
  BY <1>3, <1>4, OneLevelIsAcyclic DEF us

=============================================================================
