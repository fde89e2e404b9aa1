--------------------------- MODULE TaskSyncProofs ---------------------------
(***************************************************************************)
(* Proofs about TaskSync, for every set of devices and tasks, every        *)
(* starting list and whether or not the spawned writes keep their order:   *)
(* the state has its type, no device's list ever nests, loops or dangles,   *)
(* and a device with nothing under way shows the account's collection.     *)
(***************************************************************************)
EXTENDS TaskSync, FiniteSetTheorems, SequenceTheorems, WellFoundedInduction, TLAPS

(* Tables of rows. *)

\* A table maps some ids to rows, and whatever does so is a table.
LEMMA RowTableElim ==
    ASSUME NEW ts \in RowTable
    PROVE  /\ DOMAIN ts \in SUBSET TaskId
           /\ ts \in [DOMAIN ts -> Row]
           /\ \A id \in DOMAIN ts : ts[id] \in Row
BY DEF RowTable

\* A function from some ids to rows is a table.
LEMMA RowTableIntro ==
    ASSUME NEW ids \in SUBSET TaskId, NEW ts \in [ids -> Row]
    PROVE  ts \in RowTable /\ DOMAIN ts = ids
BY DEF RowTable

\* The row of a clean list: top-level, or below a top-level task and without
\* the override.
CleanRow(ts, id) ==
    \/ ts[id].parent = NoTask
    \/ IsTopLevel(ts, ts[id].parent) /\ ~ts[id].reopened

\* sanitizeHierarchy answers a table, of the same ids, dates and completions.
LEMMA SanitizeSound ==
    ASSUME NEW ts \in RowTable
    PROVE  LET us == SanitizeHierarchy(ts)
           IN  /\ us \in RowTable /\ DOMAIN us = DOMAIN ts
               /\ \A id \in DOMAIN ts : us[id].done = ts[id].done /\ us[id].due = ts[id].due
<1> DEFINE us == SanitizeHierarchy(ts)
<1>1. DOMAIN ts \in SUBSET TaskId /\ \A id \in DOMAIN ts : ts[id] \in Row
  BY RowTableElim
<1>2. \A id \in DOMAIN ts :
        /\ SanitizedRow(ts, id) \in Row
        /\ SanitizedRow(ts, id).done = ts[id].done
        /\ SanitizedRow(ts, id).due = ts[id].due
  BY <1>1 DEF SanitizedRow, Row
<1>3. us \in [DOMAIN ts -> Row] /\ \A id \in DOMAIN ts : us[id] = SanitizedRow(ts, id)
  BY <1>2 DEF SanitizeHierarchy
<1> HIDE DEF us
<1>4. us \in RowTable /\ DOMAIN us = DOMAIN ts
  BY <1>1, <1>3, RowTableIntro
<1> QED
  BY <1>2, <1>3, <1>4 DEF us

\* Row by row, a list is clean when each of its rows is.
LEMMA CleanByRow ==
    ASSUME NEW ts \in RowTable
    PROVE  Clean(ts) <=> \A id \in DOMAIN ts : CleanRow(ts, id)
<1>1. DOMAIN ts \in SUBSET TaskId /\ ts \in [DOMAIN ts -> Row] /\ \A id \in DOMAIN ts : ts[id] \in Row
  BY RowTableElim
<1>2. NoTask \notin DOMAIN ts
  BY <1>1, NoTaskAssumption
<1>3. \A id \in DOMAIN ts : SanitizedRow(ts, id) = ts[id] <=> CleanRow(ts, id)
  <2> SUFFICES ASSUME NEW id \in DOMAIN ts
               PROVE  SanitizedRow(ts, id) = ts[id] <=> CleanRow(ts, id)
    OBVIOUS
  <2> DEFINE p == ts[id].parent
  <2>1. ts[id] \in Row
    BY <1>1
  <2>2. CASE p = NoTask
    <3>1. ~IsTopLevel(ts, p)
      BY <1>2, <2>2 DEF IsTopLevel
    <3>2. SanitizedRow(ts, id) = ts[id]
      BY <2>1, <2>2, <3>1 DEF SanitizedRow, Row
    <3> QED
      BY <2>2, <3>2 DEF CleanRow
  <2>3. CASE p # NoTask /\ IsTopLevel(ts, p)
    <3>1. p # id
      BY <2>3 DEF IsTopLevel
    <3>2. SanitizedRow(ts, id) = [ts[id] EXCEPT !.parent = p, !.reopened = FALSE]
      BY <2>1, <2>3, <3>1 DEF SanitizedRow, Row
    <3>3. SanitizedRow(ts, id) = ts[id] <=> ~ts[id].reopened
      BY <2>1, <3>2 DEF Row
    <3> QED
      BY <2>3, <3>3 DEF CleanRow
  <2>4. CASE p # NoTask /\ ~IsTopLevel(ts, p)
    <3>1. SanitizedRow(ts, id).parent = NoTask
      BY <2>1, <2>4 DEF SanitizedRow, Row
    <3> QED
      BY <2>4, <3>1 DEF CleanRow
  <2> QED
    BY <2>2, <2>3, <2>4
<1>4. ts = SanitizeHierarchy(ts) <=> \A id \in DOMAIN ts : SanitizedRow(ts, id) = ts[id]
  BY <1>1 DEF SanitizeHierarchy
<1>5. (\A id \in DOMAIN ts : CleanRow(ts, id)) => OneLevel(ts)
  BY <1>2 DEF CleanRow, OneLevel
<1> QED
  BY <1>3, <1>4, <1>5 DEF Clean

\* sanitizeHierarchy cleans every table.
LEMMA SanitizeCleans ==
    ASSUME NEW ts \in RowTable
    PROVE  Clean(SanitizeHierarchy(ts))
<1> DEFINE us == SanitizeHierarchy(ts)
<1>1. DOMAIN ts \in SUBSET TaskId /\ \A id \in DOMAIN ts : ts[id] \in Row
  BY RowTableElim
<1>2. us \in RowTable /\ DOMAIN us = DOMAIN ts
  BY SanitizeSound
<1>3. \A id \in DOMAIN ts : us[id] = SanitizedRow(ts, id)
  BY DEF SanitizeHierarchy
<1>4. NoTask \notin DOMAIN ts
  BY <1>1, NoTaskAssumption
<1> HIDE DEF us
<1>5. \A id \in DOMAIN ts : IsTopLevel(ts, id) => us[id].parent = NoTask
  BY <1>1, <1>3, <1>4 DEF SanitizedRow, IsTopLevel, Row
<1>6. \A id \in DOMAIN us : CleanRow(us, id)
  <2> SUFFICES ASSUME NEW id \in DOMAIN ts PROVE CleanRow(us, id)
    BY <1>2
  <2> DEFINE p == ts[id].parent
  <2>1. CASE p # id /\ IsTopLevel(ts, p)
    <3>1. us[id].parent = p /\ us[id].reopened = FALSE
      BY <1>1, <1>3, <2>1 DEF SanitizedRow, Row
    <3>2. IsTopLevel(us, p)
      BY <1>2, <1>5, <2>1 DEF IsTopLevel
    <3> QED
      BY <3>1, <3>2 DEF CleanRow
  <2>2. CASE ~(p # id /\ IsTopLevel(ts, p))
    <3>1. us[id].parent = NoTask
      BY <1>1, <1>3, <2>2 DEF SanitizedRow, Row
    <3> QED
      BY <3>1 DEF CleanRow
  <2> QED
    BY <2>1, <2>2
<1> QED
  BY <1>2, <1>6, CleanByRow DEF us

\* The subtasks of a clean list have none of their own, and no task is its own.
LEMMA CleanChildren ==
    ASSUME NEW ts \in RowTable, Clean(ts), NEW id \in TaskId, NEW kid \in Children(ts, id)
    PROVE  Children(ts, kid) = {} /\ kid # id
<1>1. NoTask \notin TaskId /\ kid \in DOMAIN ts /\ ts[kid].parent = id
  BY NoTaskAssumption DEF Children
<1>2. \A c \in DOMAIN ts : CleanRow(ts, c)
  BY CleanByRow
<1>3. kid # id
  BY <1>1, <1>2 DEF CleanRow, IsTopLevel
<1>4. ASSUME NEW c \in Children(ts, kid) PROVE FALSE
  <2>1. c \in DOMAIN ts /\ ts[c].parent = kid /\ kid \in TaskId
    BY <1>1, RowTableElim DEF Children
  <2>2. IsTopLevel(ts, kid)
    BY <1>1, <1>2, <2>1 DEF CleanRow
  <2> QED
    BY <1>1, <2>2 DEF IsTopLevel
<1> QED
  BY <1>3, <1>4

-----------------------------------------------------------------------------
(* Outcomes: a list and the writes spawned so far.                         *)

Sound(s) == s.ts \in RowTable /\ s.out \in Seq(Write)

Spawned(s) == {s.out[n] : n \in DOMAIN s.out}

\* The dates of a list whose tasks are all tasks of another list.
SameDates(ts, us) ==
    DOMAIN us \subseteq DOMAIN ts /\ \A id \in DOMAIN us : us[id].due = ts[id].due

\* One more write.
LEMMA OneMore ==
    ASSUME NEW ts \in RowTable, NEW out \in Seq(Write), NEW w \in Write
    PROVE  LET r == Outcome(ts, Append(out, w))
           IN  /\ Sound(r) /\ r.ts = ts
               /\ Spawned(r) = {out[n] : n \in DOMAIN out} \cup {w}
<1> DEFINE more == Append(out, w)
<1>1. more \in Seq(Write)
  BY AppendProperties
<1>2. /\ DOMAIN out = 1..Len(out) /\ Len(out) \in Nat
      /\ DOMAIN more = 1..(Len(out) + 1)
      /\ more[Len(out) + 1] = w
      /\ \A n \in 1..Len(out) : more[n] = out[n]
  BY AppendProperties
<1> HIDE DEF more
<1>3. {more[n] : n \in DOMAIN more} = {out[n] : n \in DOMAIN out} \cup {w}
  <2>1. \A n \in Nat : 1..(n + 1) = (1..n) \cup {n + 1}
    OBVIOUS
  <2>2. DOMAIN more = DOMAIN out \cup {Len(out) + 1}
    BY <1>2, <2>1
  <2> QED
    BY <1>2, <2>2
<1> QED
  BY <1>1, <1>3 DEF Outcome, Sound, Spawned, more

\* A list as an outcome, before anything is spawned, and one with one write.
LEMMA NothingYet ==
    ASSUME NEW ts \in RowTable
    PROVE  Sound(Outcome(ts, <<>>)) /\ Outcome(ts, <<>>).ts = ts /\ Spawned(Outcome(ts, <<>>)) = {}
BY EmptySeq DEF Sound, Outcome, Spawned

\* The outcome that changes nothing and spawns one write.
LEMMA JustOne ==
    ASSUME NEW ts \in RowTable, NEW w \in Write
    PROVE  LET r == Outcome(ts, <<w>>) IN Sound(r) /\ r.ts = ts /\ Spawned(r) = {w}
BY DEF Sound, Outcome, Spawned

\* A row of the list is a write.
LEMMA UpsertIsWrite ==
    ASSUME NEW ts \in RowTable, NEW id \in DOMAIN ts
    PROVE  /\ Upsert(ts, id) \in Write
           /\ Upsert(ts, id) = [op |-> "set", id |-> id, row |-> ts[id]]
<1>1. id \in TaskId /\ ts[id] \in Row
  BY RowTableElim
<1> QED
  BY <1>1 DEF Upsert, Write

\* Reconciling a parent touches its completion fields, and never raises the
\* override: ids, parents and dates stay, a clean list stays clean.
LEMMA ReconcileRows ==
    ASSUME NEW ts \in RowTable, NEW p, NEW reset \in BOOLEAN
    PROVE  LET us == ReconcileIfAny(ts, p, reset)
           IN  /\ us \in RowTable /\ DOMAIN us = DOMAIN ts /\ SameDates(ts, us)
               /\ us # ts => p \in DOMAIN ts
               /\ Clean(ts) => Clean(us)
               /\ \A id : Children(us, id) = Children(ts, id)
<1>1. CASE p # NoTask /\ IsTopLevel(ts, p)
  <2> DEFINE t == ReconciledParent(ts[p], {ts[c].done : c \in Children(ts, p)}, reset)
             us == [ts EXCEPT ![p] = t]
  <2>1. p \in DOMAIN ts /\ ts[p] \in Row /\ DOMAIN ts \in SUBSET TaskId /\ ts \in [DOMAIN ts -> Row]
    BY <1>1, RowTableElim DEF IsTopLevel
  <2>2. t \in Row /\ t.parent = ts[p].parent /\ t.due = ts[p].due /\ (t.reopened => ts[p].reopened)
    BY <2>1 DEF ReconciledParent, Row
  <2>3. ReconcileIfAny(ts, p, reset) = us
    BY <1>1 DEF ReconcileIfAny, ReconcileParentCompletion
  <2> HIDE DEF t
  <2>4. us \in [DOMAIN ts -> Row] /\ us[p] = t /\ \A id \in DOMAIN ts : id # p => us[id] = ts[id]
    BY <2>1, <2>2
  <2> HIDE DEF us
  <2>5. us \in RowTable /\ DOMAIN us = DOMAIN ts
    BY <2>1, <2>4, RowTableIntro
  <2>6. \A id \in DOMAIN ts : /\ us[id].parent = ts[id].parent /\ us[id].due = ts[id].due
                              /\ us[id].reopened => ts[id].reopened
    BY <2>2, <2>4
  <2>7. SameDates(ts, us)
    BY <2>5, <2>6 DEF SameDates
  <2>8. \A id : Children(us, id) = Children(ts, id)
    BY <2>5, <2>6 DEF Children
  <2>9. ASSUME Clean(ts) PROVE Clean(us)
    <3>1. \A id \in DOMAIN ts : CleanRow(ts, id)
      BY <2>9, CleanByRow
    <3>2. \A id \in DOMAIN us : CleanRow(us, id)
      BY <2>5, <2>6, <3>1 DEF CleanRow, IsTopLevel
    <3> QED
      BY <2>5, <3>2, CleanByRow
  <2> QED
    BY <2>1, <2>3, <2>5, <2>7, <2>8, <2>9
<1>2. CASE ~(p # NoTask /\ IsTopLevel(ts, p))
  <2>1. ReconcileIfAny(ts, p, reset) = ts
    BY <1>2 DEF ReconcileIfAny, ReconcileParentCompletion
  <2> QED
    BY <2>1 DEF SameDates
<1> QED
  BY <1>1, <1>2

\* Its upsert comes on top of what was spawned before.
LEMMA ReconciledStep ==
    ASSUME NEW s, Sound(s), NEW p, NEW reset \in BOOLEAN
    PROVE  LET r == Reconciled(s, p, reset)
           IN  /\ Sound(r) /\ Spawned(s) \subseteq Spawned(r)
               /\ DOMAIN r.ts = DOMAIN s.ts /\ SameDates(s.ts, r.ts)
               /\ Clean(s.ts) => Clean(r.ts)
               /\ \A id : Children(r.ts, id) = Children(s.ts, id)
<1> DEFINE us == ReconcileIfAny(s.ts, p, reset)
           w == IF Children(us, p) = {}
                THEN [op |-> "index", id |-> p, rows |-> Cardinality(DOMAIN us)]
                ELSE Upsert(us, p)
           r == Reconciled(s, p, reset)
<1>1. s.ts \in RowTable /\ s.out \in Seq(Write)
  BY DEF Sound
<1>2. /\ us \in RowTable /\ DOMAIN us = DOMAIN s.ts /\ SameDates(s.ts, us)
      /\ us # s.ts => p \in DOMAIN s.ts
      /\ Clean(s.ts) => Clean(us)
      /\ \A id : Children(us, id) = Children(s.ts, id)
  BY <1>1, ReconcileRows
<1>3. r = IF us = s.ts THEN s ELSE Outcome(us, Append(s.out, w))
  BY DEF Reconciled
<1>4. CASE us = s.ts
  BY <1>2, <1>3, <1>4
<1>5. CASE us # s.ts
  <2> HIDE DEF us
  <2>1. p \in TaskId /\ Cardinality(DOMAIN us) \in Nat
    BY <1>1, <1>2, <1>5, RowTableElim, TaskIdAssumption, FS_Subset, FS_CardinalityType
  <2>2. Upsert(us, p) \in Write
    BY <1>2, <1>5, UpsertIsWrite
  <2>3. w \in Write
    BY <2>1, <2>2 DEF Write
  <2> HIDE DEF w
  <2>4. Sound(r) /\ r.ts = us /\ Spawned(r) = Spawned(s) \cup {w}
    <3>1. r = Outcome(us, Append(s.out, w))
      BY <1>3, <1>5
    <3> HIDE DEF r
    <3> QED
      <4>1. \A ts \in RowTable, out \in Seq(Write), v \in Write :
               LET o == Outcome(ts, Append(out, v))
               IN  /\ Sound(o) /\ o.ts = ts
                   /\ Spawned(o) = {out[n] : n \in DOMAIN out} \cup {v}
        BY OneMore
      <4>2. /\ Sound(r) /\ r.ts = us
            /\ Spawned(r) = {s.out[n] : n \in DOMAIN s.out} \cup {w}
        BY <1>1, <1>2, <2>3, <3>1, <4>1
      <4> QED
        BY <4>2 DEF Spawned
  <2> QED
    <3> HIDE DEF r
    <3>1. /\ Sound(r) /\ Spawned(s) \subseteq Spawned(r)
          /\ DOMAIN r.ts = DOMAIN s.ts /\ SameDates(s.ts, r.ts)
          /\ Clean(s.ts) => Clean(r.ts)
          /\ \A id : Children(r.ts, id) = Children(s.ts, id)
      BY <1>2, <2>4
    <3> QED
      BY <3>1 DEF r
<1> QED
  BY <1>4, <1>5

\* The same, to be used in one step of a larger proof.
LEMMA ReconciledAny ==
    \A s, p : \A reset \in BOOLEAN : Sound(s) =>
        LET r == Reconciled(s, p, reset)
        IN  /\ Sound(r) /\ Spawned(s) \subseteq Spawned(r)
            /\ DOMAIN r.ts = DOMAIN s.ts /\ SameDates(s.ts, r.ts)
            /\ Clean(s.ts) => Clean(r.ts)
            /\ \A id : Children(r.ts, id) = Children(s.ts, id)
BY ReconciledStep

-----------------------------------------------------------------------------
(* The operations.                                                         *)

DeleteOf(id) == [op |-> "delete", id |-> id]

\* From an outcome to a later one: writes are only added, dates stay, a task
\* that is gone is one whose deletion was spawned.
Onward(s, r) ==
    /\ Sound(r)
    /\ Spawned(s) \subseteq Spawned(r)
    /\ SameDates(s.ts, r.ts)
    /\ \A id \in DOMAIN s.ts \ DOMAIN r.ts : DeleteOf(id) \in Spawned(r)

\* What goes on from an outcome goes on from the one before.
LEMMA OnwardTransitive ==
    ASSUME NEW s, NEW q, NEW r, Onward(s, q), Onward(q, r)
    PROVE  Onward(s, r)
BY DEF Onward, SameDates

\* A row leaves the list.
LEMMA DropRows ==
    ASSUME NEW ts \in RowTable, NEW id
    PROVE  LET us == Drop(ts, {id})
           IN  /\ us \in RowTable /\ DOMAIN us = DOMAIN ts \ {id} /\ SameDates(ts, us)
               /\ \A j : Children(us, j) = Children(ts, j) \ {id}
               /\ Clean(ts) /\ Children(ts, id) = {} => Clean(us)
<1> DEFINE us == Drop(ts, {id})
<1>1. DOMAIN ts \in SUBSET TaskId /\ \A i \in DOMAIN ts : ts[i] \in Row
  BY RowTableElim
<1>2. DOMAIN us = DOMAIN ts \ {id} /\ \A i \in DOMAIN us : us[i] = ts[i]
  BY DEF Drop
<1>3. us \in [DOMAIN ts \ {id} -> Row]
  BY <1>1 DEF Drop
<1> HIDE DEF us
<1>4. us \in RowTable
  BY <1>1, <1>3, RowTableIntro
<1>5. \A j : Children(us, j) = Children(ts, j) \ {id}
  BY <1>2 DEF Children
<1>6. ASSUME Clean(ts), Children(ts, id) = {} PROVE Clean(us)
  <2>1. \A i \in DOMAIN ts : CleanRow(ts, i) /\ ts[i].parent # id
    BY <1>6, CleanByRow DEF Children
  <2>2. \A i \in DOMAIN us : CleanRow(us, i)
    BY <1>2, <2>1 DEF CleanRow, IsTopLevel
  <2> QED
    BY <1>4, <2>2, CleanByRow
<1>7. SameDates(ts, us)
  BY <1>2 DEF SameDates
<1> QED
  BY <1>2, <1>4, <1>5, <1>6, <1>7 DEF us

\* deleteTask
LEMMA DeletedStep ==
    ASSUME NEW s, Sound(s), NEW id \in TaskId
    PROVE  LET r == Deleted(s, id)
           IN  /\ Onward(s, r) /\ DeleteOf(id) \in Spawned(r)
               /\ Clean(s.ts) /\ Children(s.ts, id) = {} => Clean(r.ts)
               /\ \A j : Children(r.ts, j) = Children(s.ts, j) \ {id}
<1> DEFINE us == Drop(s.ts, {id})
           q == Outcome(us, Append(s.out, DeleteOf(id)))
           p == IF id \in DOMAIN s.ts THEN s.ts[id].parent ELSE NoTask
           r == Deleted(s, id)
<1>1. s.ts \in RowTable /\ s.out \in Seq(Write)
  BY DEF Sound
<1>2. /\ us \in RowTable /\ DOMAIN us = DOMAIN s.ts \ {id} /\ SameDates(s.ts, us)
      /\ \A j : Children(us, j) = Children(s.ts, j) \ {id}
      /\ Clean(s.ts) /\ Children(s.ts, id) = {} => Clean(us)
  BY <1>1, DropRows
<1>3. DeleteOf(id) \in Write
  BY DEF DeleteOf, Write
<1>4. Sound(q) /\ q.ts = us /\ Spawned(q) = Spawned(s) \cup {DeleteOf(id)}
  <2> HIDE DEF us
  <2>1. /\ Sound(q) /\ q.ts = us
        /\ Spawned(q) = {s.out[n] : n \in DOMAIN s.out} \cup {DeleteOf(id)}
    BY <1>1, <1>2, <1>3, OneMore
  <2> QED
    BY <2>1 DEF Spawned
<1>5. r = Reconciled(q, p, TRUE)
  BY DEF Deleted, DeleteOf
<1> HIDE DEF us, q, p, r
<1>6. /\ Sound(r) /\ Spawned(q) \subseteq Spawned(r)
      /\ DOMAIN r.ts = DOMAIN us /\ SameDates(us, r.ts)
      /\ Clean(us) => Clean(r.ts)
      /\ \A j : Children(r.ts, j) = Children(us, j)
  BY <1>4, <1>5, ReconciledAny
<1>7. Onward(s, r) /\ DeleteOf(id) \in Spawned(r)
  BY <1>2, <1>4, <1>6 DEF Onward, SameDates
<1> QED
  BY <1>2, <1>6, <1>7 DEF r

\* A row gets another parent.
LEMMA MovedRows ==
    ASSUME NEW ts \in RowTable, NEW id \in TaskId, NEW p \in TaskId \cup {NoTask},
           MayMove(ts, id, p)
    PROVE  LET us == Moved(ts, id, p)
           IN  /\ us \in RowTable /\ DOMAIN us = DOMAIN ts /\ SameDates(ts, us)
               /\ p = NoTask => \A j \in TaskId : Children(us, j) = Children(ts, j) \ {id}
               /\ Clean(ts) => Clean(us)
<1> DEFINE row == [ts[id] EXCEPT !.parent = p, !.reopened = @ /\ p = NoTask]
           us  == [ts EXCEPT ![id] = row]
<1>1. id \in DOMAIN ts /\ DOMAIN ts \in SUBSET TaskId /\ ts \in [DOMAIN ts -> Row] /\ ts[id] \in Row
  BY RowTableElim DEF MayMove
<1>2. row \in Row /\ row.parent = p /\ row.due = ts[id].due /\ (p # NoTask => ~row.reopened)
  BY <1>1 DEF Row
<1>3. Moved(ts, id, p) = us
  BY <1>1 DEF Moved
<1> HIDE DEF row
<1>4. us \in [DOMAIN ts -> Row] /\ us[id] = row /\ \A i \in DOMAIN ts : i # id => us[i] = ts[i]
  BY <1>1, <1>2
<1> HIDE DEF us
<1>5. us \in RowTable /\ DOMAIN us = DOMAIN ts
  BY <1>1, <1>4, RowTableIntro
<1>6. SameDates(ts, us)
  BY <1>2, <1>4, <1>5 DEF SameDates
<1>7. p = NoTask => \A j \in TaskId : Children(us, j) = Children(ts, j) \ {id}
  BY <1>2, <1>4, <1>5, NoTaskAssumption DEF Children
<1>8. ASSUME Clean(ts) PROVE Clean(us)
  <2>1. \A i \in DOMAIN ts : CleanRow(ts, i)
    BY <1>8, CleanByRow
  <2>2. \A i \in DOMAIN us : CleanRow(us, i)
    <3> SUFFICES ASSUME NEW i \in DOMAIN ts PROVE CleanRow(us, i)
      BY <1>5
    <3>1. CASE i = id
      <4>1. p = NoTask \/ (p # id /\ IsTopLevel(ts, p))
        BY DEF MayMove
      <4>2. p = NoTask \/ IsTopLevel(us, p)
        BY <1>4, <1>5, <4>1 DEF IsTopLevel
      <4> QED
        BY <1>2, <1>4, <3>1, <4>2 DEF CleanRow
    <3>2. CASE i # id
      <4>1. us[i] = ts[i] /\ CleanRow(ts, i)
        BY <1>4, <2>1, <3>2
      <4>2. CASE ts[i].parent = id
        <5>1. i \in Children(ts, id) /\ id # NoTask
          BY <4>2, NoTaskAssumption DEF Children
        <5>2. p = NoTask
          BY <5>1 DEF MayMove
        <5>3. IsTopLevel(us, id)
          BY <1>1, <1>2, <1>4, <1>5, <5>2 DEF IsTopLevel
        <5> QED
          BY <4>1, <4>2, <5>1, <5>3 DEF CleanRow
      <4>3. CASE ts[i].parent # id
        BY <1>4, <1>5, <4>1, <4>3 DEF CleanRow, IsTopLevel
      <4> QED
        BY <4>2, <4>3
    <3> QED
      BY <3>1, <3>2
  <2> QED
    BY <1>5, <2>2, CleanByRow
<1> QED
  BY <1>3, <1>5, <1>6, <1>7, <1>8

\* setParent
LEMMA MovedStep ==
    ASSUME NEW s, Sound(s), NEW id \in TaskId, NEW p \in TaskId \cup {NoTask}
    PROVE  LET r == MovedTask(s, id, p)
           IN  /\ Onward(s, r) /\ DOMAIN r.ts = DOMAIN s.ts
               /\ r = s \/ [op |-> "all"] \in Spawned(r)
               /\ Clean(s.ts) => Clean(r.ts)
               /\ id \in DOMAIN s.ts /\ p = NoTask =>
                    \A j \in TaskId : Children(r.ts, j) = Children(s.ts, j) \ {id}
<1> DEFINE us == Moved(s.ts, id, p)
           q == Outcome(us, s.out)
           left == Reconciled(q, s.ts[id].parent, TRUE)
           moved == Reconciled(left, p, TRUE)
           all == [op |-> "all"]
           r == MovedTask(s, id, p)
<1>1. s.ts \in RowTable /\ s.out \in Seq(Write)
  BY DEF Sound
<1>2. CASE ~MayMove(s.ts, id, p)
  <2>1. r = s
    BY <1>2 DEF MovedTask
  <2>2. ~(id \in DOMAIN s.ts /\ p = NoTask)
    BY <1>2, NoTaskAssumption DEF MayMove
  <2> HIDE DEF r
  <2>3. Onward(s, r)
    BY <2>1 DEF Onward, SameDates
  <2> QED
    BY <2>1, <2>2, <2>3 DEF r
<1>3. CASE MayMove(s.ts, id, p)
  <2>1. /\ us \in RowTable /\ DOMAIN us = DOMAIN s.ts /\ SameDates(s.ts, us)
        /\ p = NoTask => \A j \in TaskId : Children(us, j) = Children(s.ts, j) \ {id}
        /\ Clean(s.ts) => Clean(us)
    BY <1>1, <1>3, MovedRows
  <2>2. r = Outcome(moved.ts, Append(moved.out, all))
    BY <1>3 DEF MovedTask
  <2> HIDE DEF us, r
  <2>3. Sound(q) /\ q.ts = us /\ Spawned(q) = Spawned(s)
    BY <1>1, <2>1 DEF Sound, Outcome, Spawned
  <2> HIDE DEF q
  <2>4. /\ Sound(left) /\ Spawned(q) \subseteq Spawned(left)
        /\ DOMAIN left.ts = DOMAIN us /\ SameDates(us, left.ts)
        /\ Clean(us) => Clean(left.ts)
        /\ \A j : Children(left.ts, j) = Children(us, j)
    <3> HIDE DEF left
    <3>1. left = Reconciled(q, s.ts[id].parent, TRUE)
      BY DEF left
    <3> QED
      BY <2>3, <3>1, ReconciledAny
  <2> HIDE DEF left
  <2>5. /\ Sound(moved) /\ Spawned(left) \subseteq Spawned(moved)
        /\ DOMAIN moved.ts = DOMAIN left.ts /\ SameDates(left.ts, moved.ts)
        /\ Clean(left.ts) => Clean(moved.ts)
        /\ \A j : Children(moved.ts, j) = Children(left.ts, j)
    <3> HIDE DEF moved
    <3>1. moved = Reconciled(left, p, TRUE)
      BY DEF moved
    <3> QED
      BY <2>4, <3>1, ReconciledAny
  <2> HIDE DEF moved
  <2>6. all \in Write
    BY DEF Write
  <2>7. Sound(r) /\ r.ts = moved.ts /\ Spawned(r) = Spawned(moved) \cup {all}
    <3>1. moved.ts \in RowTable /\ moved.out \in Seq(Write)
      BY <2>5 DEF Sound
    <3>2. /\ Sound(r) /\ r.ts = moved.ts
          /\ Spawned(r) = {moved.out[n] : n \in DOMAIN moved.out} \cup {all}
      BY <2>2, <2>6, <3>1, OneMore
    <3> QED
      BY <3>2 DEF Spawned
  <2>8. DOMAIN r.ts = DOMAIN s.ts /\ SameDates(s.ts, r.ts) /\ Spawned(s) \subseteq Spawned(r)
    BY <2>1, <2>3, <2>4, <2>5, <2>7 DEF SameDates
  <2>9. Onward(s, r)
    BY <2>7, <2>8 DEF Onward
  <2>10. /\ Clean(s.ts) => Clean(r.ts)
         /\ p = NoTask => \A j \in TaskId : Children(r.ts, j) = Children(s.ts, j) \ {id}
    BY <2>1, <2>4, <2>5, <2>7
  <2> QED
    BY <2>7, <2>8, <2>9, <2>10 DEF r
<1> QED
  BY <1>2, <1>3

-----------------------------------------------------------------------------
(* deleteParentTask: the loop over the subtasks.                           *)

\* What either strategy does with one subtask.
LEMMA HandledStep ==
    ASSUME NEW s, Sound(s), Clean(s.ts), NEW id \in TaskId, NEW kid \in Children(s.ts, id),
           NEW strategy
    PROVE  LET r == Handled(s, kid, strategy)
           IN  /\ Onward(s, r) /\ Clean(r.ts)
               /\ Children(r.ts, id) = Children(s.ts, id) \ {kid}
<1>1. s.ts \in RowTable
  BY DEF Sound
<1>2. kid \in DOMAIN s.ts /\ kid \in TaskId
  BY <1>1, RowTableElim DEF Children
<1>3. Children(s.ts, kid) = {}
  BY <1>1, CleanChildren
<1>4. CASE strategy = "detachSubtasks"
  <2> DEFINE r == MovedTask(s, kid, NoTask)
  <2>1. /\ Onward(s, r)
        /\ Clean(s.ts) => Clean(r.ts)
        /\ kid \in DOMAIN s.ts => \A j \in TaskId : Children(r.ts, j) = Children(s.ts, j) \ {kid}
    BY <1>2, MovedStep
  <2> QED
    BY <1>2, <1>4, <2>1 DEF Handled
<1>5. CASE strategy # "detachSubtasks"
  <2> DEFINE r == Deleted(s, kid)
  <2>1. /\ Onward(s, r)
        /\ Clean(s.ts) /\ Children(s.ts, kid) = {} => Clean(r.ts)
        /\ \A j : Children(r.ts, j) = Children(s.ts, j) \ {kid}
    BY <1>2, DeletedStep
  <2> QED
    BY <1>3, <1>5, <2>1 DEF Handled
<1> QED
  BY <1>4, <1>5

\* A set of naturals has a least element.
LEMMA NatLeast ==
    ASSUME NEW S \in SUBSET Nat, S # {}
    PROVE  \E n \in S : \A m \in S : n <= m
<1>1. PICK n \in S : \A m \in S : ~ (<<m, n>> \in OpToRel(<, Nat))
  BY WFMin, NatLessThanWellFounded, Zenon
<1>2. \A m \in S : ~(m < n)
  BY <1>1 DEF OpToRel
<1> QED
  BY <1>2

\* The loop is defined: nothing is the least length it cannot reach.
LEMMA LoopIsDefined ==
    ASSUME NEW ts, NEW kids, Len(kids) \in Nat, NEW strategy
    PROVE  LET upTo == Loop(ts, kids, strategy)
           IN  /\ upTo[0] = Outcome(ts, <<>>)
               /\ \A n \in 1..Len(kids) : upTo[n] = Handled(upTo[n - 1], kids[n], strategy)
<1> DEFINE Body(g, k) ==
             [n \in 0..k |-> IF n = 0 THEN Outcome(ts, <<>>)
                             ELSE Handled(g[n - 1], kids[n], strategy)]
           S == {k \in Nat : ~ \E g : g = Body(g, k)}
<1>1. S = {}
  <2> SUFFICES ASSUME S # {} PROVE FALSE
    OBVIOUS
  <2>1. PICK k \in S : \A m \in S : k <= m
    BY NatLeast
  <2>2. CASE k = 0
    <3> DEFINE g == [n \in 0..0 |-> Outcome(ts, <<>>)]
    <3>1. g = Body(g, 0)
      OBVIOUS
    <3> QED
      BY <2>2, <3>1
  <2>3. CASE k # 0
    <3>1. k \in Nat /\ k - 1 \in Nat /\ k - 1 \notin S
      BY <2>1, <2>3
    <3>2. PICK g : g = Body(g, k - 1)
      BY <3>1
    <3> DEFINE h == [n \in 0..k |-> IF n = k THEN Handled(g[k - 1], kids[k], strategy) ELSE g[n]]
    <3>3. ASSUME NEW n \in 0..k
          PROVE  h[n] = IF n = 0 THEN Outcome(ts, <<>>) ELSE Handled(h[n - 1], kids[n], strategy)
      <4>1. CASE n = 0
        <5>1. h[n] = g[0] /\ 0 \in 0..(k - 1)
          BY <2>3, <3>1, <4>1
        <5> QED
          BY <3>2, <4>1, <5>1
      <4>2. CASE n = k
        <5>1. h[n] = Handled(g[k - 1], kids[k], strategy)
          BY <4>2
        <5>2. h[n - 1] = g[k - 1]
          BY <3>1, <4>2
        <5> QED
          BY <2>3, <4>2, <5>1, <5>2
      <4>3. CASE n # 0 /\ n # k
        <5>1. h[n] = g[n] /\ n \in 0..(k - 1) /\ n - 1 \in 0..k /\ n - 1 # k
          BY <3>1, <4>3
        <5>2. h[n - 1] = g[n - 1]
          BY <5>1
        <5>3. g[n] = Handled(g[n - 1], kids[n], strategy)
          BY <3>2, <4>3, <5>1
        <5> QED
          BY <4>3, <5>1, <5>2, <5>3
      <4> QED
        BY <4>1, <4>2, <4>3
    <3>4. h = Body(h, k)
      <4> HIDE DEF h
      <4>1. h = [n \in 0..k |-> h[n]]
        BY DEF h
      <4> QED
        BY <3>3, <4>1
    <3> HIDE DEF h
    <3> QED
      BY <2>1, <3>4
  <2> QED
    BY <2>2, <2>3
<1>2. \E g : g = Body(g, Len(kids))
  BY <1>1
<1> DEFINE upTo == Loop(ts, kids, strategy)
<1>3. upTo = CHOOSE g : g = Body(g, Len(kids))
  BY DEF Loop
<1>4. upTo = Body(upTo, Len(kids))
  BY <1>2, <1>3
<1> QED
  BY <1>4

\* An injection into a finite set of its own size is onto.
LEMMA SeqsOfSet ==
    ASSUME NEW S, IsFiniteSet(S), NEW f \in SetToSeqs(S)
    PROVE  /\ f \in Seq(S) /\ DOMAIN f = 1..Len(f)
           /\ \A m, n \in DOMAIN f : f[m] = f[n] => m = n
           /\ \A x \in S : \E n \in DOMAIN f : f[n] = x
<1> DEFINE D == 1..Cardinality(S)
<1>1. Cardinality(S) \in Nat
  BY FS_CardinalityType
<1>2. f \in [D -> S] /\ \A m, n \in D : f[m] = f[n] => m = n
  BY DEF SetToSeqs
<1>3. f \in Injection(D, S)
  BY <1>2 DEF Injection, IsInjective
<1>4. Cardinality(D) = Cardinality(S)
  BY <1>1, FS_Interval
<1>5. f \in Surjection(D, S)
  BY <1>3, <1>4, FS_Injection
<1>6. \A x \in S : \E n \in D : f[n] = x
  BY <1>5 DEF Surjection
<1>7. f \in Seq(S) /\ DOMAIN f = D
  BY <1>1, <1>2
<1> QED
  BY <1>2, <1>6, <1>7

\* After the first n subtasks those are nobody's subtasks any more; at the end
\* the parent has none.
LEMMA LoopStep ==
    ASSUME NEW ts \in RowTable, Clean(ts), NEW id \in TaskId,
           NEW kids \in SetToSeqs(Children(ts, id)), NEW strategy
    PROVE  LET r == Loop(ts, kids, strategy)[Len(kids)]
           IN  /\ Onward(Outcome(ts, <<>>), r) /\ Clean(r.ts)
               /\ Children(r.ts, id) = {}
<1> DEFINE first == Outcome(ts, <<>>)
           upTo == Loop(ts, kids, strategy)
           Left(n) == {kids[m] : m \in (n + 1)..Len(kids)}
           Good(n) == /\ Onward(first, upTo[n]) /\ Clean(upTo[n].ts)
                      /\ Children(upTo[n].ts, id) = Left(n)
           S == {n \in 0..Len(kids) : ~Good(n)}
<1>1. Children(ts, id) \subseteq TaskId /\ IsFiniteSet(Children(ts, id))
  BY RowTableElim, TaskIdAssumption, FS_Subset DEF Children
<1>2. /\ kids \in Seq(Children(ts, id)) /\ DOMAIN kids = 1..Len(kids) /\ Len(kids) \in Nat
      /\ \A m, n \in DOMAIN kids : kids[m] = kids[n] => m = n
      /\ \A x \in Children(ts, id) : \E n \in DOMAIN kids : kids[n] = x
  BY <1>1, SeqsOfSet
<1>3. upTo[0] = first /\ \A n \in 1..Len(kids) : upTo[n] = Handled(upTo[n - 1], kids[n], strategy)
  <2> HIDE DEF Good, S, Left
  <2>1. Len(kids) \in Nat
    BY <1>2
  <2>2. \A us, seq, how : Len(seq) \in Nat =>
          /\ Loop(us, seq, how)[0] = Outcome(us, <<>>)
          /\ \A n \in 1..Len(seq) :
                Loop(us, seq, how)[n] = Handled(Loop(us, seq, how)[n - 1], seq[n], how)
    BY LoopIsDefined
  <2> QED
    BY <2>1, <2>2, Zenon
<1> HIDE DEF upTo
<1>4. Good(0)
  <2>1. Sound(first) /\ first.ts = ts /\ Spawned(first) = {}
    BY NothingYet
  <2>2. Onward(first, first)
    BY <2>1 DEF Onward, SameDates
  <2>3. Left(0) = Children(ts, id)
    <3>1. Left(0) = {kids[m] : m \in DOMAIN kids}
      BY <1>2
    <3>2. \A m \in DOMAIN kids : kids[m] \in Children(ts, id)
      BY <1>2, ElementOfSeq
    <3> QED
      BY <1>2, <3>1, <3>2
  <2> QED
    BY <1>3, <2>1, <2>2, <2>3
<1>5. ASSUME NEW n \in 1..Len(kids), Good(n - 1) PROVE Good(n)
  <2> DEFINE s == upTo[n - 1]
             r == upTo[n]
  <2>1. Left(n - 1) = Left(n) \cup {kids[n]} /\ kids[n] \notin Left(n)
    <3>1. (n - 1 + 1)..Len(kids) = ((n + 1)..Len(kids)) \cup {n} /\ n \notin (n + 1)..Len(kids)
      BY <1>2
    <3>2. \A m \in (n + 1)..Len(kids) : m \in DOMAIN kids /\ n \in DOMAIN kids /\ m # n
      BY <1>2
    <3>3. \A m \in (n + 1)..Len(kids) : kids[m] # kids[n]
      BY <1>2, <3>2
    <3> QED
      BY <3>1, <3>3
  <2>2. Sound(s) /\ Clean(s.ts) /\ kids[n] \in Children(s.ts, id)
    BY <1>5, <2>1 DEF Onward
  <2>3. r = Handled(s, kids[n], strategy)
    BY <1>3
  <2> HIDE DEF s, r, Left
  <2>4. /\ Onward(s, r) /\ Clean(r.ts)
        /\ Children(r.ts, id) = Children(s.ts, id) \ {kids[n]}
    BY <2>2, <2>3, HandledStep
  <2>5. Onward(first, s) /\ Children(s.ts, id) = Left(n - 1)
    BY <1>5 DEF s
  <2>6. Onward(first, r)
    BY <2>4, <2>5, OnwardTransitive
  <2>7. Children(r.ts, id) = Left(n)
    BY <2>1, <2>4, <2>5
  <2> QED
    BY <2>4, <2>6, <2>7 DEF r
<1> HIDE DEF Good
<1>6. S = {}
  <2> SUFFICES ASSUME S # {} PROVE FALSE
    OBVIOUS
  <2>1. PICK n \in S : \A m \in S : n <= m
    <3>1. S \in SUBSET Nat
      BY <1>2
    <3> HIDE DEF S
    <3> QED
      BY <3>1, NatLeast
  <2>2. n # 0 /\ n \in 1..Len(kids) /\ n - 1 \in 0..Len(kids) /\ ~(n <= n - 1)
    BY <1>2, <1>4, <2>1
  <2>3. Good(n - 1)
    BY <2>1, <2>2
  <2> QED
    BY <1>5, <2>1, <2>2, <2>3
<1>7. Good(Len(kids))
  BY <1>2, <1>6
<1>8. Left(Len(kids)) = {}
  BY <1>2
<1> QED
  BY <1>7, <1>8 DEF Good, upTo

\* deleteParentTask
LEMMA DeletedParentStep ==
    ASSUME NEW ts \in RowTable, Clean(ts), NEW id \in TaskId,
           NEW kids \in SetToSeqs(Children(ts, id)), NEW strategy
    PROVE  LET r == DeletedParent(ts, id, kids, strategy)
           IN  /\ Onward(Outcome(ts, <<>>), r) /\ Clean(r.ts)
               /\ DeleteOf(id) \in Spawned(r)
<1> DEFINE s == Loop(ts, kids, strategy)[Len(kids)]
           r == Deleted(s, id)
           first == Outcome(ts, <<>>)
<1>1. Onward(first, s) /\ Clean(s.ts) /\ Children(s.ts, id) = {}
  BY LoopStep
<1>2. Sound(s)
  BY <1>1 DEF Onward
<1> HIDE DEF s
<1>3. /\ Onward(s, r) /\ DeleteOf(id) \in Spawned(r)
      /\ Clean(s.ts) /\ Children(s.ts, id) = {} => Clean(r.ts)
  BY <1>2, DeletedStep
<1>4. r = DeletedParent(ts, id, kids, strategy)
  BY DEF DeletedParent, s
<1> HIDE DEF r, first
<1>5. Onward(first, r)
  BY <1>1, <1>3, OnwardTransitive
<1> QED
  BY <1>1, <1>3, <1>4, <1>5 DEF first

-----------------------------------------------------------------------------
(* The operations on one row.                                              *)

\* A row is replaced by one with the same parent.
LEMMA RowChanged ==
    ASSUME NEW ts \in RowTable, NEW id \in DOMAIN ts, NEW row \in Row,
           row.parent = ts[id].parent,
           row.parent # NoTask /\ row.reopened => ts[id].reopened
    PROVE  LET us == [ts EXCEPT ![id] = row]
           IN  /\ us \in RowTable /\ DOMAIN us = DOMAIN ts /\ us[id] = row
               /\ row.due = ts[id].due => SameDates(ts, us)
               /\ Clean(ts) => Clean(us)
<1> DEFINE us == [ts EXCEPT ![id] = row]
<1>1. DOMAIN ts \in SUBSET TaskId /\ ts \in [DOMAIN ts -> Row]
  BY RowTableElim
<1>2. us \in [DOMAIN ts -> Row] /\ us[id] = row /\ \A i \in DOMAIN ts : i # id => us[i] = ts[i]
  BY <1>1
<1> HIDE DEF us
<1>3. us \in RowTable /\ DOMAIN us = DOMAIN ts
  BY <1>1, <1>2, RowTableIntro
<1>4. row.due = ts[id].due => SameDates(ts, us)
  BY <1>2, <1>3 DEF SameDates
<1>5. ASSUME Clean(ts) PROVE Clean(us)
  <2>1. \A i \in DOMAIN ts : CleanRow(ts, i)
    BY <1>5, CleanByRow
  <2>2. \A i : IsTopLevel(ts, i) => IsTopLevel(us, i)
    BY <1>2, <1>3 DEF IsTopLevel
  <2>3. \A i \in DOMAIN us : CleanRow(us, i)
    BY <1>2, <1>3, <2>1, <2>2 DEF CleanRow
  <2> QED
    BY <1>3, <2>3, CleanByRow
<1> QED
  BY <1>2, <1>3, <1>4, <1>5 DEF us

\* Its upsert is spawned, then its parent is reconciled.
LEMMA RowReconciled ==
    ASSUME NEW ts \in RowTable, NEW id \in DOMAIN ts, NEW row \in Row,
           row.parent = ts[id].parent, row.due = ts[id].due,
           row.parent # NoTask /\ row.reopened => ts[id].reopened,
           NEW p, NEW reset \in BOOLEAN
    PROVE  LET us == [ts EXCEPT ![id] = row]
               r  == Reconciled(Outcome(us, <<Upsert(us, id)>>), p, reset)
           IN  /\ Sound(r) /\ DOMAIN r.ts = DOMAIN ts /\ SameDates(ts, r.ts)
               /\ [op |-> "set", id |-> id, row |-> row] \in Spawned(r)
               /\ Clean(ts) => Clean(r.ts)
<1> DEFINE us == [ts EXCEPT ![id] = row]
           w  == Upsert(us, id)
           q  == Outcome(us, <<w>>)
           r  == Reconciled(q, p, reset)
<1>1. /\ us \in RowTable /\ DOMAIN us = DOMAIN ts /\ us[id] = row
      /\ SameDates(ts, us)
      /\ Clean(ts) => Clean(us)
  BY RowChanged
<1> HIDE DEF us
<1>2. w \in Write /\ w = [op |-> "set", id |-> id, row |-> row]
  BY <1>1, UpsertIsWrite
<1> HIDE DEF w
<1>3. Sound(q) /\ q.ts = us /\ Spawned(q) = {w}
  BY <1>1, <1>2, JustOne
<1> HIDE DEF q
<1>4. /\ Sound(r) /\ Spawned(q) \subseteq Spawned(r)
      /\ DOMAIN r.ts = DOMAIN us /\ SameDates(us, r.ts)
      /\ Clean(us) => Clean(r.ts)
  <2> HIDE DEF r
  <2>1. r = Reconciled(q, p, reset)
    BY DEF r
  <2> QED
    BY <1>3, <2>1, ReconciledAny
<1> HIDE DEF r
<1>5. SameDates(ts, r.ts) /\ w \in Spawned(r)
  BY <1>1, <1>3, <1>4 DEF SameDates
<1> QED
  BY <1>1, <1>2, <1>4, <1>5 DEF r, q, w, us

\* completeTask
LEMMA CompletedStep ==
    ASSUME NEW ts \in RowTable, NEW id \in DOMAIN ts, Clean(ts), ~ts[id].done
    PROVE  LET r == Completed(ts, id)
           IN  /\ Sound(r) /\ Clean(r.ts)
               /\ DOMAIN r.ts = DOMAIN ts /\ SameDates(ts, r.ts)
               /\ \E row \in Row : /\ [op |-> "set", id |-> id, row |-> row] \in Spawned(r)
                                   /\ row.done # ts[id].done
<1> DEFINE row == [ts[id] EXCEPT !.done = TRUE, !.reopened = FALSE]
           us == [ts EXCEPT ![id] = row]
           r == Reconciled(Outcome(us, <<Upsert(us, id)>>), row.parent, FALSE)
<1>1. ts[id] \in Row
  BY RowTableElim
<1>2. /\ row \in Row /\ row.parent = ts[id].parent /\ row.due = ts[id].due
      /\ ~row.reopened /\ row.done # ts[id].done
  BY <1>1 DEF Row
<1>3. r = Completed(ts, id)
  BY DEF Completed
<1> HIDE DEF row
<1>4. /\ Sound(r) /\ DOMAIN r.ts = DOMAIN ts /\ SameDates(ts, r.ts)
      /\ [op |-> "set", id |-> id, row |-> row] \in Spawned(r)
      /\ Clean(ts) => Clean(r.ts)
  BY <1>2, RowReconciled
<1> HIDE DEF r
<1> QED
  BY <1>2, <1>3, <1>4

\* restoreTask
LEMMA RestoredStep ==
    ASSUME NEW ts \in RowTable, NEW id \in DOMAIN ts, Clean(ts), ts[id].done
    PROVE  LET r == Restored(ts, id)
           IN  /\ Sound(r) /\ Clean(r.ts)
               /\ DOMAIN r.ts = DOMAIN ts /\ SameDates(ts, r.ts)
               /\ \E row \in Row : /\ [op |-> "set", id |-> id, row |-> row] \in Spawned(r)
                                   /\ row.done # ts[id].done
<1> DEFINE row == [ts[id] EXCEPT !.done = FALSE, !.reopened = @ \/ Children(ts, id) # {}]
           us == [ts EXCEPT ![id] = row]
           r == Reconciled(Outcome(us, <<Upsert(us, id)>>), row.parent, TRUE)
<1>1. ts[id] \in Row /\ id \in TaskId
  BY RowTableElim
<1>2. /\ row \in Row /\ row.parent = ts[id].parent /\ row.due = ts[id].due
      /\ row.reopened => ts[id].reopened \/ Children(ts, id) # {}
      /\ row.done # ts[id].done
  BY <1>1 DEF Row
<1>3. ASSUME row.parent # NoTask PROVE Children(ts, id) = {}
  <2>1. \A i \in DOMAIN ts : CleanRow(ts, i)
    BY CleanByRow
  <2>2. ts[id].parent \in DOMAIN ts
    BY <1>2, <1>3, <2>1 DEF CleanRow, IsTopLevel
  <2>3. id \in Children(ts, ts[id].parent) /\ ts[id].parent \in TaskId
    BY <2>2, RowTableElim DEF Children
  <2> QED
    BY <2>3, CleanChildren
<1>4. r = Restored(ts, id)
  BY DEF Restored
<1> HIDE DEF row
<1>5. /\ Sound(r) /\ DOMAIN r.ts = DOMAIN ts /\ SameDates(ts, r.ts)
      /\ [op |-> "set", id |-> id, row |-> row] \in Spawned(r)
      /\ Clean(ts) => Clean(r.ts)
  BY <1>2, <1>3, RowReconciled
<1> HIDE DEF r
<1> QED
  BY <1>2, <1>4, <1>5

\* updateTask
LEMMA EditedStep ==
    ASSUME NEW ts \in RowTable, NEW id \in DOMAIN ts, NEW due \in BOOLEAN
    PROVE  LET r == Edited(ts, id, due)
           IN  /\ Sound(r) /\ DOMAIN r.ts = DOMAIN ts
               /\ Clean(ts) => Clean(r.ts)
               /\ \E w \in Spawned(r) : w.op = "stamped"
<1> DEFINE row == [ts[id] EXCEPT !.due = due]
           us == [ts EXCEPT ![id] = row]
           w == [op |-> "stamped", id |-> id, row |-> us[id]]
           r == Outcome(us, <<w>>)
<1>1. ts[id] \in Row /\ id \in TaskId /\ ts \in [DOMAIN ts -> Row]
  BY RowTableElim
<1>2. row \in Row /\ row.parent = ts[id].parent /\ row.reopened = ts[id].reopened
  BY <1>1 DEF Row
<1>3. [ts EXCEPT ![id].due = due] = us
  BY <1>1
<1>4. r = Edited(ts, id, due)
  BY <1>3 DEF Edited
<1> HIDE DEF row
<1>5. us \in RowTable /\ DOMAIN us = DOMAIN ts /\ us[id] = row
      /\ (Clean(ts) => Clean(us))
  BY <1>2, RowChanged
<1>6. w \in Write /\ w.op = "stamped"
  BY <1>1, <1>2, <1>5 DEF Write
<1> HIDE DEF us, w
<1>7. Sound(r) /\ r.ts = us /\ Spawned(r) = {w}
  BY <1>5, <1>6, JustOne
<1> HIDE DEF r
<1> QED
  BY <1>4, <1>5, <1>6, <1>7

\* addTask, of a task that is not in the list and has no subtasks there.
LEMMA AddedStep ==
    ASSUME NEW ts \in RowTable, Clean(ts), NEW id \in TaskId, id \notin DOMAIN ts,
           NEW t \in Row, t.parent # NoTask => ~t.reopened
    PROVE  LET r == Added(ts, id, t)
           IN  /\ Sound(r) /\ Clean(r.ts)
               /\ \E row \in Row : [op |-> "set", id |-> id, row |-> row] \in Spawned(r)
<1> DEFINE added == Adopted(ts, t)
           us == Put(ts, id, added)
           q == Outcome(us, <<>>)
           s == Reconciled(q, added.parent, TRUE)
           w == [op |-> "set", id |-> id, row |-> added]
           r == Outcome(s.ts, Append(s.out, w))
<1>1. DOMAIN ts \in SUBSET TaskId /\ \A i \in DOMAIN ts : ts[i] \in Row /\ CleanRow(ts, i)
  BY RowTableElim, CleanByRow
<1>2. /\ added \in Row
      /\ added.parent = NoTask \/ (IsTopLevel(ts, added.parent) /\ ~added.reopened)
  BY DEF Adopted, Row
<1>3. r = Added(ts, id, t)
  BY DEF Added
<1> HIDE DEF added
<1>4. /\ DOMAIN us = DOMAIN ts \cup {id} /\ us[id] = added
      /\ \A i \in DOMAIN ts : us[i] = ts[i]
  BY DEF Put
<1>5. us \in [DOMAIN ts \cup {id} -> Row]
  BY <1>1, <1>2 DEF Put
<1> HIDE DEF us
<1>6. us \in RowTable
  BY <1>1, <1>5, RowTableIntro
<1>7. Clean(us)
  <2>1. \A i : IsTopLevel(ts, i) => IsTopLevel(us, i)
    BY <1>4 DEF IsTopLevel
  <2>2. \A i \in DOMAIN us : CleanRow(us, i)
    BY <1>1, <1>2, <1>4, <2>1 DEF CleanRow
  <2> QED
    BY <1>6, <2>2, CleanByRow
<1>8. Sound(q) /\ q.ts = us
  BY <1>6, NothingYet
<1> HIDE DEF q
<1>9. Sound(s) /\ Clean(s.ts)
  <2> HIDE DEF s
  <2>1. s = Reconciled(q, added.parent, TRUE)
    BY DEF s
  <2> QED
    BY <1>7, <1>8, <2>1, ReconciledAny
<1> HIDE DEF s
<1>10. w \in Write
  BY <1>2 DEF Write
<1>11. Sound(r) /\ r.ts = s.ts /\ w \in Spawned(r)
  <2> HIDE DEF w
  <2>1. s.ts \in RowTable /\ s.out \in Seq(Write)
    BY <1>9 DEF Sound
  <2> QED
    BY <1>10, <2>1, OneMore
<1> HIDE DEF r
<1> QED
  BY <1>2, <1>3, <1>9, <1>11

-----------------------------------------------------------------------------
(* What an operation owes the collection: the device agrees with it on ids *)
(* and dates until a write is on its way that is sure to change it, and a   *)
(* list that showed it goes on showing it unless the whole list is on its   *)
(* way.                                                                    *)

AllOf == [op |-> "all"]

Agrees(docs, ts) ==
    DOMAIN ts = DOMAIN docs /\ \A id \in DOMAIN docs : ts[id].due = docs[id].due

\* Running the write makes every listener report, whatever ran before it.
Effective(docs, w) ==
    \/ w.op = "stamped"
    \/ w.op = "set" /\ Merged(docs, w.id, w.row) # docs
    \/ w.op = "delete" /\ w.id \in DOMAIN docs

Answered(docs, ts, s) ==
    Agrees(docs, ts) =>
        \/ \E w \in Spawned(s) : Effective(docs, w)
        \/ /\ Agrees(docs, s.ts)
           /\ s.ts = ts \/ AllOf \in Spawned(s) \/ ts # SanitizeHierarchy(docs)

\* A flipped completion is a write sure to change a collection the list shows.
LEMMA FlippedAnswers ==
    ASSUME NEW docs \in RowTable, NEW ts, NEW s, NEW id \in DOMAIN ts, NEW row \in Row,
           row.done # ts[id].done, [op |-> "set", id |-> id, row |-> row] \in Spawned(s),
           DOMAIN s.ts = DOMAIN ts, SameDates(ts, s.ts)
    PROVE  Answered(docs, ts, s)
<1> SUFFICES ASSUME Agrees(docs, ts)
             PROVE  \/ \E w \in Spawned(s) : Effective(docs, w)
                    \/ /\ Agrees(docs, s.ts)
                       /\ s.ts = ts \/ AllOf \in Spawned(s) \/ ts # SanitizeHierarchy(docs)
  BY DEF Answered
<1> DEFINE w == [op |-> "set", id |-> id, row |-> row]
<1>1. Agrees(docs, s.ts)
  BY DEF Agrees, SameDates
<1>2. CASE ts = SanitizeHierarchy(docs)
  <2>1. id \in DOMAIN docs /\ docs[id].done = ts[id].done
    BY <1>2, SanitizeSound
  <2>2. Merged(docs, id, row)[id].done = row.done
    BY <2>1 DEF Merged, Put, Row
  <2>3. Merged(docs, id, row) # docs
    BY <2>1, <2>2
  <2>4. w.op = "set" /\ w.id = id /\ w.row = row
    OBVIOUS
  <2> HIDE DEF w
  <2>5. Effective(docs, w)
    BY <2>3, <2>4 DEF Effective
  <2> QED
    BY <2>5 DEF w
<1> QED
  BY <1>1, <1>2

\* So is the deletion of a task the list had.
LEMMA DeletionAnswers ==
    ASSUME NEW docs, NEW ts, NEW s, NEW id \in DOMAIN ts, DeleteOf(id) \in Spawned(s)
    PROVE  Answered(docs, ts, s)
<1>1. Agrees(docs, ts) => Effective(docs, DeleteOf(id))
  BY DEF Agrees, Effective, DeleteOf
<1> QED
  BY <1>1 DEF Answered

\* And the write of a task the list did not have.
LEMMA AdditionAnswers ==
    ASSUME NEW docs, NEW ts, NEW s, NEW id, id \notin DOMAIN ts, NEW row,
           [op |-> "set", id |-> id, row |-> row] \in Spawned(s)
    PROVE  Answered(docs, ts, s)
<1> DEFINE w == [op |-> "set", id |-> id, row |-> row]
<1>1. ASSUME Agrees(docs, ts) PROVE Effective(docs, w)
  <2>1. id \notin DOMAIN docs
    BY <1>1 DEF Agrees
  <2>2. id \in DOMAIN Merged(docs, id, row)
    BY DEF Merged, Put
  <2>3. Merged(docs, id, row) # docs
    BY <2>1, <2>2
  <2>4. w.op = "set" /\ w.id = id /\ w.row = row
    OBVIOUS
  <2> HIDE DEF w
  <2> QED
    BY <2>3, <2>4 DEF Effective
<1> QED
  BY <1>1 DEF Answered

-----------------------------------------------------------------------------
(* The user's steps.                                                       *)

\* The remembered task could be put back: a subtask carries no override.
UndoIsClean ==
    \A d \in Device : \A n \in DOMAIN undo[d] :
        undo[d][n].task.parent # NoTask => ~undo[d][n].task.reopened

UndoStack == Seq([id : TaskId, task : Row])

\* Every operation ends in an outcome with a clean list that owes nothing.
LEMMA OperationOutcome ==
    ASSUME TypeOK, ListsAreClean, UndoIsClean, NEW d \in Device, UserStep(d)
    PROVE  \E s : /\ Perform(d, s)
                  /\ Sound(s) /\ Clean(s.ts)
                  /\ Answered(server, local[d], s)
                  /\ touched' \subseteq TaskId
                  /\ \/ undo' = undo
                     \/ undo' = [undo EXCEPT ![d] = <<>>]
                     \/ \E id \in DOMAIN local[d] :
                           undo' = [undo EXCEPT ![d] = <<[id |-> id, task |-> local[d][id]]>>]
<1> DEFINE ts == local[d]
           Ends(s) == /\ Perform(d, s)
                      /\ Sound(s) /\ Clean(s.ts)
                      /\ Answered(server, ts, s)
           first == Outcome(ts, <<>>)
<1>1. ts \in RowTable /\ server \in RowTable /\ Clean(ts) /\ touched \subseteq TaskId
  BY DEF TypeOK, ListsAreClean
<1>2. DOMAIN ts \in SUBSET TaskId /\ \A id \in DOMAIN ts : ts[id] \in Row
  BY <1>1, RowTableElim
<1>3. Sound(first) /\ first.ts = ts /\ Spawned(first) = {}
  BY <1>1, NothingYet
<1>4. CASE UndoDelete(d)
  <2> DEFINE u == Head(undo[d])
             r == Added(ts, u.id, u.task)
  <2>1. undo[d] \in UndoStack /\ undo[d] # <<>>
    BY <1>4 DEF UndoDelete, TypeOK, UndoStack
  <2>2. u \in [id : TaskId, task : Row] /\ u = undo[d][1] /\ 1 \in DOMAIN undo[d]
    <3>1. u \in [id : TaskId, task : Row]
      BY <2>1, HeadTailProperties DEF UndoStack
    <3>2. undo[d] = <<>> \/ 1 \in DOMAIN undo[d]
      BY <2>1, EmptySeq DEF UndoStack
    <3> QED
      BY <2>1, <3>1, <3>2 DEF UndoStack
  <2>3. u.task.parent # NoTask => ~u.task.reopened
    BY <2>2 DEF UndoIsClean
  <2>4. u.id \in TaskId /\ u.task \in Row /\ u.id \notin DOMAIN ts /\ Perform(d, r)
    BY <1>4, <2>2 DEF UndoDelete
  <2>5. touched' = touched \cup {u.id} /\ undo' = [undo EXCEPT ![d] = <<>>]
    BY <1>4 DEF UndoDelete
  <2> HIDE DEF u
  <2>6. /\ Sound(r) /\ Clean(r.ts)
        /\ \E row \in Row : [op |-> "set", id |-> u.id, row |-> row] \in Spawned(r)
    BY <1>1, <2>3, <2>4, AddedStep
  <2> HIDE DEF r
  <2>7. Answered(server, ts, r)
    BY <2>4, <2>6, AdditionAnswers
  <2> QED
    BY <1>1, <2>4, <2>5, <2>6, <2>7
<1>5. ASSUME NEW id \in TaskId, Complete(d, id)
      PROVE  (\E s : Ends(s)) /\ touched' \subseteq TaskId /\ undo' = undo
  <2> DEFINE r == Completed(ts, id)
  <2>1. id \in DOMAIN ts /\ ~ts[id].done /\ Perform(d, r)
    BY <1>5 DEF Complete
  <2>2. touched' = touched \cup {id} /\ undo' = undo
    BY <1>5 DEF Complete
  <2>3. /\ Sound(r) /\ Clean(r.ts)
        /\ DOMAIN r.ts = DOMAIN ts /\ SameDates(ts, r.ts)
        /\ \E row \in Row : /\ [op |-> "set", id |-> id, row |-> row] \in Spawned(r)
                            /\ row.done # ts[id].done
    BY <1>1, <2>1, CompletedStep
  <2> HIDE DEF r
  <2>4. Answered(server, ts, r)
    BY <1>1, <2>1, <2>3, FlippedAnswers
  <2> QED
    BY <1>1, <2>1, <2>2, <2>3, <2>4
<1>6. ASSUME NEW id \in TaskId, Restore(d, id)
      PROVE  (\E s : Ends(s)) /\ touched' \subseteq TaskId /\ undo' = undo
  <2> DEFINE r == Restored(ts, id)
  <2>1. id \in DOMAIN ts /\ ts[id].done /\ Perform(d, r)
    BY <1>6 DEF Restore
  <2>2. touched' = touched \cup {id} /\ undo' = undo
    BY <1>6 DEF Restore
  <2>3. /\ Sound(r) /\ Clean(r.ts)
        /\ DOMAIN r.ts = DOMAIN ts /\ SameDates(ts, r.ts)
        /\ \E row \in Row : /\ [op |-> "set", id |-> id, row |-> row] \in Spawned(r)
                            /\ row.done # ts[id].done
    BY <1>1, <2>1, RestoredStep
  <2> HIDE DEF r
  <2>4. Answered(server, ts, r)
    BY <1>1, <2>1, <2>3, FlippedAnswers
  <2> QED
    BY <1>1, <2>1, <2>2, <2>3, <2>4
<1>7. ASSUME NEW id \in TaskId, Edit(d, id)
      PROVE  (\E s : Ends(s)) /\ touched' \subseteq TaskId /\ undo' = undo
  <2> DEFINE r == Edited(ts, id, ~ts[id].due)
  <2>1. id \in DOMAIN ts /\ Perform(d, r)
    BY <1>7 DEF Edit
  <2>2. touched' = touched \cup {id} /\ undo' = undo
    BY <1>7 DEF Edit
  <2>3. (~ts[id].due) \in BOOLEAN
    OBVIOUS
  <2>4. /\ Sound(r) /\ Clean(r.ts)
        /\ \E w \in Spawned(r) : w.op = "stamped"
    BY <1>1, <2>1, <2>3, EditedStep
  <2> HIDE DEF r
  <2>5. Answered(server, ts, r)
    BY <2>4 DEF Answered, Effective
  <2> QED
    BY <1>1, <2>1, <2>2, <2>4, <2>5
<1>8. ASSUME NEW id \in TaskId, Delete(d, id)
      PROVE  (\E s : Ends(s)) /\ touched' \subseteq TaskId
             /\ \E i \in DOMAIN ts : undo' = [undo EXCEPT ![d] = <<[id |-> i, task |-> ts[i]]>>]
  <2> DEFINE r == Deleted(first, id)
  <2>1. id \in DOMAIN ts /\ Children(ts, id) = {} /\ Perform(d, r)
    BY <1>8 DEF Delete
  <2>2. touched' = touched /\ undo' = [undo EXCEPT ![d] = <<[id |-> id, task |-> ts[id]]>>]
    BY <1>8 DEF Delete
  <2> HIDE DEF first
  <2>3. /\ Onward(first, r) /\ DeleteOf(id) \in Spawned(r)
        /\ Clean(first.ts) /\ Children(first.ts, id) = {} => Clean(r.ts)
    BY <1>3, DeletedStep
  <2> HIDE DEF r
  <2>4. Sound(r) /\ Clean(r.ts)
    BY <1>1, <1>3, <2>1, <2>3 DEF Onward
  <2>5. Answered(server, ts, r)
    BY <2>1, <2>3, DeletionAnswers
  <2> QED
    BY <1>1, <2>1, <2>2, <2>4, <2>5
<1>9. ASSUME NEW id \in TaskId, DeleteParent(d, id)
      PROVE  (\E s : Ends(s)) /\ touched' \subseteq TaskId /\ undo' = undo
  <2>1. PICK kids \in SetToSeqs(Children(ts, id)),
             strategy \in {"deleteSubtasks", "detachSubtasks"} :
               Perform(d, DeletedParent(ts, id, kids, strategy))
    BY <1>9 DEF DeleteParent
  <2> DEFINE r == DeletedParent(ts, id, kids, strategy)
  <2>2. id \in DOMAIN ts /\ touched' = touched /\ undo' = undo /\ Perform(d, r)
    BY <1>9, <2>1 DEF DeleteParent
  <2>3. Onward(first, r) /\ Clean(r.ts) /\ DeleteOf(id) \in Spawned(r)
    <3> HIDE DEF r
    <3>1. \A us \in RowTable, i \in TaskId : Clean(us) =>
            \A seq \in SetToSeqs(Children(us, i)) : \A how :
              LET o == DeletedParent(us, i, seq, how)
              IN  /\ Onward(Outcome(us, <<>>), o) /\ Clean(o.ts)
                  /\ DeleteOf(i) \in Spawned(o)
      BY DeletedParentStep
    <3> QED
      BY <1>1, <3>1, Zenon DEF r
  <2> HIDE DEF r
  <2>4. Sound(r)
    BY <2>3 DEF Onward
  <2>5. Answered(server, ts, r)
    BY <2>2, <2>3, DeletionAnswers
  <2> QED
    BY <1>1, <2>2, <2>3, <2>4, <2>5
<1>10. ASSUME NEW id \in TaskId, NEW p \in TaskId \cup {NoTask}, Move(d, id, p)
       PROVE  (\E s : Ends(s)) /\ touched' \subseteq TaskId /\ undo' = undo
  <2> DEFINE r == MovedTask(first, id, p)
  <2>1. Perform(d, r) /\ touched' = touched \cup {id} /\ undo' = undo
    BY <1>10 DEF Move
  <2> HIDE DEF first
  <2>2. /\ Onward(first, r) /\ DOMAIN r.ts = DOMAIN first.ts
        /\ r = first \/ [op |-> "all"] \in Spawned(r)
        /\ Clean(first.ts) => Clean(r.ts)
    BY <1>3, MovedStep
  <2> HIDE DEF r
  <2>3. Sound(r) /\ SameDates(ts, r.ts) /\ DOMAIN r.ts = DOMAIN ts
    BY <1>3, <2>2 DEF Onward
  <2>4. Answered(server, ts, r)
    BY <1>3, <2>2, <2>3 DEF Answered, Agrees, SameDates, AllOf
  <2> QED
    BY <1>1, <1>3, <2>1, <2>2, <2>3, <2>4
<1> QED
  BY <1>4, <1>5, <1>6, <1>7, <1>8, <1>9, <1>10 DEF UserStep

-----------------------------------------------------------------------------
(* Lists of writes.                                                        *)

Elements(s) == {s[n] : n \in DOMAIN s}

\* Two lists, one after the other.
LEMMA ElementsOfConcat ==
    ASSUME NEW S, NEW s \in Seq(S), NEW t \in Seq(S)
    PROVE  s \o t \in Seq(S) /\ Elements(s \o t) = Elements(s) \cup Elements(t)
<1> DEFINE u == s \o t
<1>1. /\ u \in Seq(S) /\ Len(u) = Len(s) + Len(t)
      /\ \A i \in 1..Len(s) + Len(t) : u[i] = IF i <= Len(s) THEN s[i] ELSE t[i - Len(s)]
  BY ConcatProperties
<1>2. /\ Len(s) \in Nat /\ Len(t) \in Nat
      /\ DOMAIN s = 1..Len(s) /\ DOMAIN t = 1..Len(t) /\ DOMAIN u = 1..Len(s) + Len(t)
  BY <1>1, LenProperties
<1> HIDE DEF u
<1>3. ASSUME NEW n \in DOMAIN s PROVE s[n] \in Elements(u)
  <2>1. n \in DOMAIN u /\ u[n] = s[n]
    BY <1>1, <1>2
  <2> QED
    BY <2>1 DEF Elements
<1>4. ASSUME NEW n \in DOMAIN t PROVE t[n] \in Elements(u)
  <2>1. /\ n + Len(s) \in DOMAIN u /\ n + Len(s) \in 1..Len(s) + Len(t)
        /\ ~(n + Len(s) <= Len(s)) /\ (n + Len(s)) - Len(s) = n
    BY <1>2
  <2>2. u[n + Len(s)] = t[n]
    BY <1>1, <2>1
  <2> QED
    BY <2>1, <2>2 DEF Elements
<1>5. ASSUME NEW n \in DOMAIN u PROVE u[n] \in Elements(s) \cup Elements(t)
  <2>1. CASE n <= Len(s)
    BY <1>1, <1>2, <2>1 DEF Elements
  <2>2. CASE ~(n <= Len(s))
    <3>1. n - Len(s) \in DOMAIN t /\ u[n] = t[n - Len(s)]
      BY <1>1, <1>2, <2>2
    <3> QED
      BY <3>1 DEF Elements
  <2> QED
    BY <2>1, <2>2
<1>6. Elements(u) = Elements(s) \cup Elements(t)
  BY <1>3, <1>4, <1>5 DEF Elements
<1> QED
  BY <1>1, <1>6 DEF u

\* A list without the write that ran.
LEMMA ElementsOfRemoveAt ==
    ASSUME NEW S, NEW s \in Seq(S), NEW i \in DOMAIN s
    PROVE  RemoveAt(s, i) \in Seq(S) /\ Elements(s) \subseteq Elements(RemoveAt(s, i)) \cup {s[i]}
<1> DEFINE a == SubSeq(s, 1, i - 1)
           b == SubSeq(s, i + 1, Len(s))
<1>1. Len(s) \in Nat /\ DOMAIN s = 1..Len(s) /\ i \in 1..Len(s) /\ \A n \in 1..Len(s) : s[n] \in S
  BY LenProperties, ElementOfSeq
<1>2. 1 \in Int /\ i - 1 \in Int /\ i + 1 \in Int /\ Len(s) \in Int
  BY <1>1
<1>3. /\ \A n \in 1..(i - 1) : s[n] \in S
      /\ \A n \in (i + 1)..Len(s) : s[n] \in S
  BY <1>1
<1>4. /\ a \in Seq(S) /\ Len(a) = i - 1
      /\ \A n \in 1..(i - 1) : a[n] = s[n]
  <2>1. /\ a \in Seq(S) /\ Len(a) = IF 1 <= i - 1 THEN (i - 1) - 1 + 1 ELSE 0
        /\ \A n \in 1..((i - 1) - 1 + 1) : a[n] = s[1 + n - 1]
    BY <1>2, <1>3, SubSeqProperties
  <2>2. /\ (i - 1) - 1 + 1 = i - 1 /\ (1 <= i - 1 \/ i - 1 = 0)
        /\ \A n \in 1..(i - 1) : 1 + n - 1 = n
    BY <1>1
  <2> HIDE DEF a
  <2> QED
    BY <2>1, <2>2
<1>5. /\ b \in Seq(S) /\ Len(b) = Len(s) - i
      /\ \A n \in 1..(Len(s) - i) : b[n] = s[n + i]
  <2>1. /\ b \in Seq(S) /\ Len(b) = IF i + 1 <= Len(s) THEN Len(s) - (i + 1) + 1 ELSE 0
        /\ \A n \in 1..(Len(s) - (i + 1) + 1) : b[n] = s[(i + 1) + n - 1]
    BY <1>2, <1>3, SubSeqProperties
  <2>2. /\ Len(s) - (i + 1) + 1 = Len(s) - i /\ (i + 1 <= Len(s) \/ Len(s) - i = 0)
        /\ \A n \in 1..(Len(s) - i) : (i + 1) + n - 1 = n + i
    BY <1>1
  <2> HIDE DEF b
  <2> QED
    BY <2>1, <2>2
<1>6. RemoveAt(s, i) = a \o b
  BY DEF RemoveAt
<1> HIDE DEF a, b
<1>7. a \o b \in Seq(S) /\ Elements(a \o b) = Elements(a) \cup Elements(b)
  BY <1>4, <1>5, ElementsOfConcat
<1>8. DOMAIN a = 1..(i - 1) /\ DOMAIN b = 1..(Len(s) - i)
  BY <1>4, <1>5, LenProperties
<1>9. ASSUME NEW n \in DOMAIN s PROVE s[n] \in Elements(a) \cup Elements(b) \cup {s[i]}
  <2>1. CASE n < i
    <3>1. n \in DOMAIN a /\ a[n] = s[n]
      BY <1>1, <1>4, <1>8, <2>1
    <3> QED
      BY <3>1 DEF Elements
  <2>2. CASE n > i
    <3>1. n - i \in DOMAIN b /\ n - i \in 1..(Len(s) - i) /\ (n - i) + i = n
      BY <1>1, <1>8, <2>2
    <3>2. b[n - i] = s[n]
      BY <1>5, <3>1
    <3> QED
      BY <3>1, <3>2 DEF Elements
  <2>3. CASE n = i
    BY <2>3
  <2> QED
    BY <1>1, <2>1, <2>2, <2>3
<1> QED
  BY <1>6, <1>7, <1>9 DEF Elements

-----------------------------------------------------------------------------
(* The collection.                                                         *)

\* A document set with merge leaves a table.
LEMMA MergedIsTable ==
    ASSUME NEW docs \in RowTable, NEW id \in TaskId, NEW row \in Row
    PROVE  Merged(docs, id, row) \in RowTable
<1> DEFINE t == IF id \in DOMAIN docs THEN [row EXCEPT !.due = @ \/ docs[id].due] ELSE row
           us == Put(docs, id, t)
<1>1. DOMAIN docs \cup {id} \in SUBSET TaskId /\ \A i \in DOMAIN docs : docs[i] \in Row
  BY RowTableElim
<1>2. t \in Row
  BY <1>1 DEF Row
<1>3. Merged(docs, id, row) = us
  BY DEF Merged
<1> HIDE DEF t
<1>4. us \in [DOMAIN docs \cup {id} -> Row]
  BY <1>1, <1>2 DEF Put
<1> HIDE DEF us
<1> QED
  BY <1>1, <1>3, <1>4, RowTableIntro

\* What a document becomes.
LEMMA MergedRow ==
    ASSUME NEW docs \in RowTable, NEW id \in TaskId, NEW row \in Row
    PROVE  /\ Merged(docs, id, row)[id] \in Row
           /\ id \in DOMAIN docs /\ docs[id].due = row.due => Merged(docs, id, row)[id] = row
<1>1. \A i \in DOMAIN docs : docs[i] \in Row
  BY RowTableElim
<1> DEFINE t == IF id \in DOMAIN docs THEN [row EXCEPT !.due = @ \/ docs[id].due] ELSE row
<1>2. Merged(docs, id, row)[id] = t
  BY DEF Merged, Put
<1>3. t \in Row
  BY <1>1 DEF Row
<1>4. id \in DOMAIN docs /\ docs[id].due = row.due => t = row
  BY <1>1 DEF Row
<1> HIDE DEF t
<1> QED
  BY <1>2, <1>3, <1>4

\* Uploading the list gives a collection; one that it does not change, and that
\* has the list's ids and dates, is the list.
LEMMA MergedAllRows ==
    ASSUME NEW docs \in RowTable, NEW ts \in RowTable
    PROVE  /\ MergedAll(docs, ts) \in RowTable
           /\ Agrees(docs, ts) /\ MergedAll(docs, ts) = docs => ts = docs
<1> DEFINE us == MergedAll(docs, ts)
           ids == DOMAIN docs \cup DOMAIN ts
<1>1. /\ ids \in SUBSET TaskId
      /\ \A i \in DOMAIN docs : docs[i] \in Row
      /\ \A i \in DOMAIN ts : ts[i] \in Row
      /\ docs \in [DOMAIN docs -> Row] /\ ts \in [DOMAIN ts -> Row]
  BY RowTableElim
<1>2. \A i \in DOMAIN ts : /\ Merged(docs, i, ts[i])[i] \in Row
                           /\ i \in DOMAIN docs /\ docs[i].due = ts[i].due
                                => Merged(docs, i, ts[i])[i] = ts[i]
  BY <1>1, MergedRow
<1>3. us = [i \in ids |-> IF i \in DOMAIN ts THEN Merged(docs, i, ts[i])[i] ELSE docs[i]]
  BY DEF MergedAll
<1> HIDE DEF us
<1>4. us \in [ids -> Row]
  BY <1>1, <1>2, <1>3
<1>5. us \in RowTable
  <2> HIDE DEF ids
  <2> QED BY <1>1, <1>4, RowTableIntro
<1>6. ASSUME Agrees(docs, ts), us = docs PROVE ts = docs
  <2>1. DOMAIN ts = DOMAIN docs /\ \A i \in DOMAIN ts : docs[i].due = ts[i].due
    BY <1>6 DEF Agrees
  <2>2. \A i \in DOMAIN ts : us[i] = ts[i]
    BY <1>2, <1>3, <2>1
  <2> QED
    BY <1>1, <1>6, <2>1, <2>2
<1> QED
  BY <1>5, <1>6 DEF us

-----------------------------------------------------------------------------
(* The state has its type and no list is ever nested, looped or dangling.  *)

ListInv == TypeOK /\ ListsAreClean /\ UndoIsClean

\* Every device starts from a clean list.
LEMMA InitLists ==
    ASSUME Init
    PROVE  ListInv
<1>1. server \in RowTable /\ Clean(server)
  BY InitialListsAssumption DEF Init
<1>2. TypeOK
  BY <1>1, EmptySeq, BoundAssumption DEF Init, TypeOK
<1>3. ListsAreClean
  BY <1>1 DEF Init, ListsAreClean
<1>4. UndoIsClean
  BY EmptySeq DEF Init, UndoIsClean
<1> QED
  BY <1>2, <1>3, <1>4 DEF ListInv

\* Operations end in clean lists, and an undo remembers a clean row.
LEMMA UserKeepsLists ==
    ASSUME ListInv, NEW d \in Device, UserStep(d)
    PROVE  ListInv'
<1>1. TypeOK /\ ListsAreClean /\ UndoIsClean
  BY DEF ListInv
<1>2. PICK s : /\ Perform(d, s)
               /\ Sound(s) /\ Clean(s.ts)
               /\ touched' \subseteq TaskId
               /\ \/ undo' = undo
                  \/ undo' = [undo EXCEPT ![d] = <<>>]
                  \/ \E id \in DOMAIN local[d] :
                        undo' = [undo EXCEPT ![d] = <<[id |-> id, task |-> local[d][id]]>>]
  BY <1>1, OperationOutcome
<1>3. s.ts \in RowTable /\ s.out \in Seq(Write)
  BY <1>2 DEF Sound
<1>4. local' = [local EXCEPT ![d] = s.ts] /\ local' \in [Device -> RowTable]
  BY <1>1, <1>2, <1>3 DEF Perform, TypeOK
<1>5. outbox' \in [Device -> Seq(Write)]
  <2>1. outbox[d] \in Seq(Write)
    BY <1>1 DEF TypeOK
  <2>2. outbox[d] \o s.out \in Seq(Write)
    BY <1>3, <2>1, ConcatProperties
  <2>3. outbox' = [outbox EXCEPT ![d] = IF phase[d] = "detached" THEN @ ELSE @ \o s.out]
    BY <1>2 DEF Perform
  <2>4. CASE phase[d] = "detached"
    BY <1>1, <2>1, <2>3, <2>4 DEF TypeOK
  <2>5. CASE phase[d] # "detached"
    BY <1>1, <2>2, <2>3, <2>5 DEF TypeOK
  <2> QED
    BY <2>4, <2>5
<1>6. deleted' \subseteq TaskId /\ edits' \in 0..MaxEdits
  <2>1. local[d] \in RowTable
    BY <1>1 DEF TypeOK
  <2>2. DOMAIN local[d] \subseteq TaskId
    BY <2>1, RowTableElim
  <2>3. edits \in Nat /\ edits < MaxEdits /\ edits' = edits + 1 /\ MaxEdits \in Nat
    BY <1>1, <1>2, BoundAssumption DEF Perform, TypeOK
  <2>4. deleted' = deleted \cup (DOMAIN local[d] \ DOMAIN s.ts) /\ deleted \subseteq TaskId
    BY <1>1, <1>2 DEF Perform, TypeOK
  <2> QED
    BY <2>2, <2>3, <2>4
<1>7. server' = server /\ inbox' = inbox /\ stale' = stale /\ phase' = phase /\ kills' = kills
  BY <1>2 DEF Perform
<1>8. undo' \in [Device -> UndoStack] /\ UndoIsClean'
  <2>1. undo \in [Device -> UndoStack]
    BY <1>1 DEF TypeOK, UndoStack
  <2>2. CASE undo' = undo
    BY <1>1, <2>1, <2>2 DEF UndoIsClean
  <2>3. CASE undo' = [undo EXCEPT ![d] = <<>>]
    <3>1. <<>> \in UndoStack
      BY EmptySeq DEF UndoStack
    <3>2. undo' \in [Device -> UndoStack]
      BY <2>1, <2>3, <3>1
    <3>3. \A e \in Device : undo'[e] = undo[e] \/ undo'[e] = <<>>
      BY <2>1, <2>3
    <3>4. UndoIsClean'
      BY <1>1, <3>3, EmptySeq DEF UndoIsClean
    <3> QED
      BY <3>2, <3>4
  <2>4. CASE \E id \in DOMAIN local[d] :
               undo' = [undo EXCEPT ![d] = <<[id |-> id, task |-> local[d][id]]>>]
    <3>1. PICK id \in DOMAIN local[d] :
               undo' = [undo EXCEPT ![d] = <<[id |-> id, task |-> local[d][id]]>>]
      BY <2>4
    <3> DEFINE u == [id |-> id, task |-> local[d][id]]
    <3>2. local[d] \in RowTable /\ Clean(local[d])
      BY <1>1 DEF TypeOK, ListsAreClean
    <3>3. local[d][id] \in Row /\ id \in TaskId /\ CleanRow(local[d], id)
      BY <3>2, RowTableElim, CleanByRow
    <3>4. u \in [id : TaskId, task : Row] /\ u.task = local[d][id]
      BY <3>3
    <3> HIDE DEF u
    <3>5. <<u>> \in UndoStack /\ DOMAIN <<u>> = {1} /\ <<u>>[1] = u
      BY <3>4 DEF UndoStack
    <3>6. undo' = [undo EXCEPT ![d] = <<u>>]
      BY <3>1 DEF u
    <3>7. undo' \in [Device -> UndoStack]
      BY <2>1, <3>5, <3>6
    <3>8. u.task.parent # NoTask => ~u.task.reopened
      BY <3>3, <3>4 DEF CleanRow
    <3>9. \A e \in Device : undo'[e] = undo[e] \/ undo'[e] = <<u>>
      BY <2>1, <3>6
    <3>10. UndoIsClean'
      BY <1>1, <3>5, <3>8, <3>9 DEF UndoIsClean
    <3> QED
      BY <3>7, <3>10
  <2> QED
    BY <1>2, <2>2, <2>3, <2>4
<1>9. TypeOK'
  BY <1>1, <1>2, <1>4, <1>5, <1>6, <1>7, <1>8 DEF TypeOK, UndoStack
<1>10. ListsAreClean'
  <2>1. \A e \in Device : local'[e] = local[e] \/ local'[e] = s.ts
    BY <1>1, <1>4 DEF TypeOK
  <2> QED
    BY <1>1, <1>2, <2>1 DEF ListsAreClean
<1> QED
  BY <1>8, <1>9, <1>10 DEF ListInv

\* A write that runs leaves a collection, and either every listener is to report
\* or nothing changed, because the write was not sure to change anything.
LEMMA WriteRuns ==
    ASSUME TypeOK, NEW d \in Device, RunWrite(d)
    PROVE  \E n \in DOMAIN outbox[d] :
             /\ outbox' = [outbox EXCEPT ![d] = RemoveAt(@, n)]
             /\ UNCHANGED <<local, inbox, phase, undo, deleted, touched, edits, kills>>
             /\ server' \in RowTable /\ stale' \in [Device -> BOOLEAN]
             /\ \/ \A e \in Device : stale'[e]
                \/ /\ server' = server /\ stale' = stale
                   /\ ~Effective(server, outbox[d][n])
                   /\ outbox[d][n] = AllOf => MergedAll(server, local[d]) = server
<1>1. PICK n \in DOMAIN outbox[d] :
        /\ \/ RunSet(d, outbox[d][n]) \/ RunDelete(d, outbox[d][n])
           \/ RunAll(d, outbox[d][n]) \/ RunIndex(d, outbox[d][n])
        /\ outbox' = [outbox EXCEPT ![d] = RemoveAt(@, n)]
        /\ UNCHANGED <<local, inbox, phase, undo, history, kills>>
  BY DEF RunWrite
<1> DEFINE w == outbox[d][n]
<1>2. w \in Write /\ server \in RowTable /\ local[d] \in RowTable /\ stale \in [Device -> BOOLEAN]
  BY ElementOfSeq DEF TypeOK
<1>3. UNCHANGED <<local, inbox, phase, undo, deleted, touched, edits, kills>>
  BY <1>1 DEF history
<1> HIDE DEF w
<1> DEFINE Ends == /\ server' \in RowTable /\ stale' \in [Device -> BOOLEAN]
                   /\ \/ \A e \in Device : stale'[e]
                      \/ /\ server' = server /\ stale' = stale
                         /\ ~Effective(server, w)
                         /\ w = AllOf => MergedAll(server, local[d]) = server
<1>4. ASSUME NEW docs \in RowTable, NEW stamped \in BOOLEAN, Written(docs, stamped),
             docs = server /\ ~stamped =>
                ~Effective(server, w) /\ (w = AllOf => MergedAll(server, local[d]) = server)
      PROVE  Ends
  <2>1. server' = docs /\ stale' = [e \in Device |-> stale[e] \/ stamped \/ docs # server]
    BY <1>4 DEF Written
  <2>2. stale' \in [Device -> BOOLEAN]
    BY <2>1
  <2>3. CASE docs = server /\ ~stamped
    <3>1. \A e \in Device : stale'[e] = stale[e]
      BY <1>2, <2>1, <2>3
    <3>2. stale' = stale
      BY <1>2, <2>2, <3>1
    <3> QED
      BY <1>2, <1>4, <2>1, <2>2, <2>3, <3>2
  <2>4. CASE ~(docs = server /\ ~stamped)
    <3>1. \A e \in Device : stale'[e]
      BY <2>1, <2>4
    <3> QED
      BY <1>4, <2>1, <2>2, <3>1
  <2> QED
    BY <2>3, <2>4
<1>5. ASSUME RunSet(d, w) PROVE Ends
  <2>1. w.op \in {"set", "stamped"} /\ Written(Merged(server, w.id, w.row), w.op = "stamped")
    BY <1>5 DEF RunSet
  <2>2. w.id \in TaskId /\ w.row \in Row
    BY <1>2, <2>1 DEF Write
  <2>3. Merged(server, w.id, w.row) \in RowTable
    BY <1>2, <2>2, MergedIsTable
  <2>4. w # AllOf
    BY <2>1 DEF AllOf
  <2>5. Merged(server, w.id, w.row) = server /\ w.op # "stamped" => ~Effective(server, w)
    BY <2>1 DEF Effective
  <2>6. (w.op = "stamped") \in BOOLEAN
    OBVIOUS
  <2> HIDE DEF Ends
  <2> QED
    BY <1>4, <2>1, <2>3, <2>4, <2>5, <2>6, Zenon
<1>6. ASSUME RunDelete(d, w) PROVE Ends
  <2>1. w.op = "delete" /\ Written(Drop(server, {w.id}), FALSE)
    BY <1>6 DEF RunDelete
  <2>2. Drop(server, {w.id}) \in RowTable /\ DOMAIN Drop(server, {w.id}) = DOMAIN server \ {w.id}
    BY <1>2, DropRows
  <2>3. w # AllOf
    BY <2>1 DEF AllOf
  <2>4. Drop(server, {w.id}) = server => ~Effective(server, w)
    BY <2>1, <2>2 DEF Effective
  <2>10. FALSE \in BOOLEAN
    OBVIOUS
  <2> HIDE DEF Ends
  <2> QED
    BY <1>4, <2>1, <2>2, <2>3, <2>4, <2>10, Zenon
<1>7. ASSUME RunAll(d, w) PROVE Ends
  <2>1. w.op = "all" /\ Written(MergedAll(server, local[d]), FALSE)
    BY <1>7 DEF RunAll
  <2>2. MergedAll(server, local[d]) \in RowTable
    BY <1>2, MergedAllRows
  <2>3. ~Effective(server, w)
    BY <2>1 DEF Effective
  <2>10. FALSE \in BOOLEAN
    OBVIOUS
  <2> HIDE DEF Ends
  <2> QED
    BY <1>4, <2>1, <2>2, <2>3, <2>10, Zenon
<1>8. ASSUME RunIndex(d, w) PROVE Ends
  <2>1. w.op = "index"
    BY <1>8 DEF RunIndex
  <2>2. PICK id \in Indexed(local[d], w) : Written(Merged(server, id, local[d][id]), FALSE)
    BY <1>8 DEF RunIndex
  <2>3. id \in DOMAIN local[d]
    BY DEF Indexed
  <2>4. id \in TaskId /\ local[d][id] \in Row
    BY <1>2, <2>3, RowTableElim
  <2>5. Merged(server, id, local[d][id]) \in RowTable
    BY <1>2, <2>4, MergedIsTable
  <2>6. ~Effective(server, w) /\ w # AllOf
    BY <2>1 DEF Effective, AllOf
  <2>10. FALSE \in BOOLEAN
    OBVIOUS
  <2> HIDE DEF Ends
  <2> QED
    BY <1>4, <2>2, <2>5, <2>6, <2>10, Zenon
<1>9. Ends
  <2> HIDE DEF Ends
  <2>1. RunSet(d, w) \/ RunDelete(d, w) \/ RunAll(d, w) \/ RunIndex(d, w)
    BY <1>1 DEF w
  <2> QED
    BY <1>5, <1>6, <1>7, <1>8, <2>1
<1> QED
  BY <1>1, <1>3, <1>9 DEF w

\* A write changes no list.
LEMMA WriteKeepsLists ==
    ASSUME ListInv, NEW d \in Device, RunWrite(d)
    PROVE  ListInv'
<1>1. TypeOK /\ ListsAreClean /\ UndoIsClean
  BY DEF ListInv
<1>2. PICK n \in DOMAIN outbox[d] :
        /\ outbox' = [outbox EXCEPT ![d] = RemoveAt(@, n)]
        /\ UNCHANGED <<local, inbox, phase, undo, deleted, touched, edits, kills>>
        /\ server' \in RowTable /\ stale' \in [Device -> BOOLEAN]
  BY <1>1, WriteRuns
<1>3. outbox[d] \in Seq(Write)
  BY <1>1 DEF TypeOK
<1>4. RemoveAt(outbox[d], n) \in Seq(Write)
  BY <1>3, ElementsOfRemoveAt
<1>5. outbox' \in [Device -> Seq(Write)]
  BY <1>1, <1>2, <1>4 DEF TypeOK
<1> QED
  BY <1>1, <1>2, <1>5 DEF ListInv, TypeOK, ListsAreClean, UndoIsClean

\* A process that ends keeps its list.
LEMMA RelaunchKeepsLists ==
    ASSUME ListInv, NEW d \in Device, Relaunched(d), kills' \in 0..MaxKills
    PROVE  ListInv'
<1>1. TypeOK /\ ListsAreClean /\ UndoIsClean
  BY DEF ListInv
<1>2. /\ outbox' = [outbox EXCEPT ![d] = <<>>]
      /\ inbox' = [inbox EXCEPT ![d] = <<>>]
      /\ phase' = [phase EXCEPT ![d] = "detached"]
      /\ undo' = [undo EXCEPT ![d] = <<>>]
      /\ local' = local /\ server' = server /\ stale' = stale
      /\ deleted' = deleted /\ touched' = touched /\ edits' = edits
  BY DEF Relaunched, history
<1>3. /\ outbox' \in [Device -> Seq(Write)]
      /\ inbox' \in [Device -> Seq(RowTable)]
      /\ undo' \in [Device -> Seq([id : TaskId, task : Row])]
      /\ phase' \in [Device -> {"detached", "starting", "live"}]
  BY <1>1, <1>2, EmptySeq DEF TypeOK
<1>4. \A e \in Device : undo'[e] = undo[e] \/ undo'[e] = <<>>
  BY <1>1, <1>2 DEF TypeOK
<1>5. UndoIsClean'
  BY <1>1, <1>4, EmptySeq DEF UndoIsClean
<1> QED
  BY <1>1, <1>2, <1>3, <1>5 DEF ListInv, TypeOK, ListsAreClean

\* One list is replaced, by a clean one; the collection stays one.
LEMMA ReplacedLists ==
    ASSUME ListInv, NEW d \in Device, NEW ts \in RowTable, Clean(ts),
           local' = [local EXCEPT ![d] = ts],
           server' \in RowTable, stale' \in [Device -> BOOLEAN],
           inbox' \in [Device -> Seq(RowTable)],
           phase' \in [Device -> {"detached", "starting", "live"}],
           UNCHANGED <<outbox, undo, deleted, touched, edits, kills>>
    PROVE  ListInv'
<1>1. TypeOK /\ ListsAreClean /\ UndoIsClean
  BY DEF ListInv
<1>2. outbox' = outbox /\ undo' = undo /\ deleted' = deleted /\ touched' = touched
      /\ edits' = edits /\ kills' = kills
  OBVIOUS
<1>3. local' \in [Device -> RowTable]
  BY <1>1 DEF TypeOK
<1>4. \A e \in Device : local'[e] = local[e] \/ local'[e] = ts
  BY <1>1 DEF TypeOK
<1>5. ListsAreClean'
  BY <1>1, <1>4 DEF ListsAreClean
<1> QED
  BY <1>1, <1>2, <1>3, <1>5 DEF ListInv, TypeOK, UndoIsClean

\* What waits at a device that something waits at.
LEMMA WaitingTable ==
    ASSUME TypeOK, NEW d \in Device, inbox[d] # <<>>
    PROVE  Head(inbox[d]) \in RowTable
<1>1. inbox[d] \in Seq(RowTable)
  BY DEF TypeOK
<1> QED
  BY <1>1, HeadTailProperties

\* An initial sync ends with a sanitized list ...
LEMMA FinishKeepsLists ==
    ASSUME ListInv, NEW d \in Device, FinishInitialSync(d)
    PROVE  ListInv'
<1>1. TypeOK /\ ListsAreClean
  BY DEF ListInv
<1> DEFINE upload == DOMAIN Head(inbox[d]) = {} /\ DOMAIN local[d] # {}
           from == IF upload THEN local[d] ELSE Head(inbox[d])
           ts == SanitizeHierarchy(from)
<1>2. Head(inbox[d]) \in RowTable /\ local[d] \in RowTable /\ server \in RowTable
  BY <1>1, WaitingTable DEF FinishInitialSync, TypeOK
<1>3. /\ server' = IF upload THEN MergedAll(server, local[d]) ELSE server
      /\ local' = [local EXCEPT ![d] = ts]
      /\ stale' = [e \in Device |-> stale[e] \/ e = d \/ server' # server]
      /\ inbox' = [inbox EXCEPT ![d] = <<>>]
      /\ phase' = [phase EXCEPT ![d] = "live"]
      /\ UNCHANGED <<outbox, undo, deleted, touched, edits, kills>>
  BY DEF FinishInitialSync, GoLive, history
<1>4. server' \in RowTable
  BY <1>2, <1>3, MergedAllRows
<1>5. from \in RowTable
  BY <1>2
<1> HIDE DEF upload, from
<1>6. ts \in RowTable /\ Clean(ts)
  BY <1>5, SanitizeSound, SanitizeCleans
<1> HIDE DEF ts
<1>7. stale' \in [Device -> BOOLEAN]
  BY <1>3
<1>8. inbox' \in [Device -> Seq(RowTable)] /\ phase' \in [Device -> {"detached", "starting", "live"}]
  BY <1>1, <1>3, EmptySeq DEF TypeOK
<1> QED
  BY <1>3, <1>4, <1>6, <1>7, <1>8, ReplacedLists

\* ... and so does a snapshot.
LEMMA SnapshotKeepsLists ==
    ASSUME ListInv, NEW d \in Device, ApplySnapshot(d)
    PROVE  ListInv'
<1>1. TypeOK
  BY DEF ListInv
<1> DEFINE ts == SanitizeHierarchy(Head(inbox[d]))
<1>2. Head(inbox[d]) \in RowTable
  BY <1>1, WaitingTable DEF ApplySnapshot
<1>3. ts \in RowTable /\ Clean(ts)
  BY <1>2, SanitizeSound, SanitizeCleans
<1>4. /\ local' = [local EXCEPT ![d] = ts]
      /\ inbox' = [inbox EXCEPT ![d] = <<>>]
      /\ UNCHANGED <<outbox, server, stale, phase, undo, deleted, touched, edits, kills>>
  BY DEF ApplySnapshot, history
<1> HIDE DEF ts
<1>5. inbox' \in [Device -> Seq(RowTable)]
  BY <1>1, <1>4, EmptySeq DEF TypeOK
<1>6. server' \in RowTable /\ stale' \in [Device -> BOOLEAN]
      /\ phase' \in [Device -> {"detached", "starting", "live"}]
  BY <1>1, <1>4 DEF TypeOK
<1> QED
  BY <1>3, <1>4, <1>5, <1>6, ReplacedLists

\* The steps that move no list: answers are fetched and reported, phases pass.
LEMMA TransportKeepsLists ==
    ASSUME ListInv, NEW d \in Device,
           Attach(d) \/ FetchAll(d) \/ ListenerFires(d) \/ InitialSyncFails(d)
    PROVE  ListInv'
<1>1. TypeOK /\ ListsAreClean /\ UndoIsClean
  BY DEF ListInv
<1>2. <<>> \in Seq(RowTable) /\ <<server>> \in Seq(RowTable)
  BY <1>1, EmptySeq DEF TypeOK
<1>3. UNCHANGED <<local, outbox, server, undo, deleted, touched, edits, kills>>
  BY DEF Attach, FetchAll, ListenerFires, InitialSyncFails, GoLive, history
<1>4. phase' \in [Device -> {"detached", "starting", "live"}]
  BY <1>1 DEF TypeOK, Attach, FetchAll, ListenerFires, InitialSyncFails, GoLive
<1>5. stale' \in [Device -> BOOLEAN]
  BY <1>1 DEF TypeOK, Attach, FetchAll, ListenerFires, InitialSyncFails, GoLive
<1>6. inbox' \in [Device -> Seq(RowTable)]
  BY <1>1, <1>2 DEF TypeOK, Attach, FetchAll, ListenerFires, InitialSyncFails, GoLive
<1> QED
  BY <1>1, <1>3, <1>4, <1>5, <1>6 DEF ListInv, TypeOK, ListsAreClean, UndoIsClean

\* So the lists stay clean under every step.
LEMMA StepKeepsLists ==
    ASSUME ListInv, [Next]_vars
    PROVE  ListInv'
<1>1. ASSUME NEW d \in Device, UserStep(d) PROVE ListInv'
  BY <1>1, UserKeepsLists
<1>2. ASSUME NEW d \in Device, RunWrite(d) PROVE ListInv'
  BY <1>2, WriteKeepsLists
<1>3. ASSUME NEW d \in Device, IndexTrap(d) PROVE ListInv'
  <2>1. Relaunched(d) /\ kills' \in 0..MaxKills
    BY <1>3 DEF IndexTrap, ListInv, TypeOK
  <2> QED
    BY <2>1, RelaunchKeepsLists
<1>4. ASSUME NEW d \in Device, Kill(d) PROVE ListInv'
  <2>1. Relaunched(d) /\ kills' \in 0..MaxKills
    BY <1>4, BoundAssumption DEF Kill, ListInv, TypeOK
  <2> QED
    BY <2>1, RelaunchKeepsLists
<1>5. ASSUME NEW d \in Device, FinishInitialSync(d) PROVE ListInv'
  BY <1>5, FinishKeepsLists
<1>6. ASSUME NEW d \in Device, ApplySnapshot(d) PROVE ListInv'
  BY <1>6, SnapshotKeepsLists
<1>7. ASSUME NEW d \in Device,
             Attach(d) \/ FetchAll(d) \/ ListenerFires(d) \/ InitialSyncFails(d)
      PROVE  ListInv'
  BY <1>7, TransportKeepsLists
<1>8. ASSUME UNCHANGED vars PROVE ListInv'
  <2>1. UNCHANGED <<local, outbox, server, inbox, stale, phase, undo, deleted, touched, edits, kills>>
    BY <1>8 DEF vars, history
  <2> QED
    BY <2>1 DEF ListInv, TypeOK, ListsAreClean, UndoIsClean
<1> QED
  BY <1>1, <1>2, <1>3, <1>4, <1>5, <1>6, <1>7, <1>8 DEF Next, SystemStep, Mishap

\* And in every state.
LEMMA ListsInvariant == Spec => []ListInv
<1>1. Init => ListInv
  BY InitLists
<1>2. ListInv /\ [Next]_vars => ListInv'
  BY StepKeepsLists
<1> QED
  BY <1>1, <1>2, PTL DEF Spec

\* Type correctness: with any devices, tasks and starting lists, whether or not
\* writes keep their order, every state is of the kind the invariants speak of.
THEOREM SyncTyped == Spec => []TypeOK
<1>1. ListInv => TypeOK
  BY DEF ListInv
<1> QED
  BY <1>1, ListsInvariant, PTL

\* Whatever the devices race over, no device's list is ever nested, looped or
\* dangling: every operation keeps its list clean, and what comes from the
\* collection is sanitized before it is a list.
THEOREM ListsStayClean == Spec => []ListsAreClean
<1>1. ListInv => ListsAreClean
  BY DEF ListInv
<1> QED
  BY <1>1, ListsInvariant, PTL

-----------------------------------------------------------------------------
(* A device with nothing under way shows the collection.                   *)

InFlight(d) == Elements(outbox[d])

\* Nothing is to come from the collection, and nothing on the way there is sure
\* to change it.
Quiet(d) ==
    /\ phase[d] = "live" /\ inbox[d] = <<>> /\ ~stale[d]
    /\ \A w \in InFlight(d) : ~Effective(server, w)

\* A quiet device shows the collection, but for parents and completion flags if
\* its whole list is on its way; a report no other will follow is the collection.
Shows(d) ==
    /\ Quiet(d) =>
         /\ Agrees(server, local[d])
         /\ AllOf \in InFlight(d) \/ local[d] = SanitizeHierarchy(server)
    /\ phase[d] = "live" /\ inbox[d] # <<>> /\ ~stale[d] => Head(inbox[d]) = server

SyncInv == ListInv /\ \A d \in Device : Shows(d)

\* A list that shows the collection agrees with it.
LEMMA ShownAgrees ==
    ASSUME NEW docs \in RowTable
    PROVE  Agrees(docs, SanitizeHierarchy(docs))
BY SanitizeSound DEF Agrees

\* No device is live at first.
LEMMA InitShows ==
    ASSUME Init
    PROVE  SyncInv
<1>1. ListInv
  BY InitLists
<1>2. server \in RowTable /\ server = SanitizeHierarchy(server)
  BY InitialListsAssumption DEF Init, Clean
<1>3. ASSUME NEW d \in Device PROVE Shows(d)
  <2>1. local[d] = server /\ inbox[d] = <<>>
    BY <1>3 DEF Init
  <2>2. Agrees(server, local[d]) /\ local[d] = SanitizeHierarchy(server)
    BY <1>2, <2>1 DEF Agrees
  <2> QED
    BY <2>1, <2>2 DEF Shows
<1> QED
  BY <1>1, <1>3 DEF SyncInv

\* A device that nothing of this happens to shows what it showed.
LEMMA OthersShow ==
    ASSUME NEW d \in Device, Shows(d), server' = server, local'[d] = local[d],
           outbox'[d] = outbox[d], inbox'[d] = inbox[d], stale'[d] = stale[d],
           phase'[d] = phase[d]
    PROVE  Shows(d)'
BY DEF Shows, Quiet, InFlight

\* A device that is not live, or is to hear of a change, owes nothing.
LEMMA NotQuietShows ==
    ASSUME NEW d \in Device, phase'[d] # "live" \/ stale'[d]
    PROVE  Shows(d)'
BY DEF Shows, Quiet

\* An operation spawns a write that is sure to tell, or changes nothing that shows.
LEMMA UserShows ==
    ASSUME SyncInv, NEW d \in Device, UserStep(d), NEW e \in Device
    PROVE  Shows(e)'
<1>1. TypeOK /\ ListsAreClean /\ UndoIsClean /\ Shows(e) /\ Shows(d)
  BY DEF SyncInv, ListInv
<1>2. PICK s : Perform(d, s) /\ Sound(s) /\ Answered(server, local[d], s)
  BY <1>1, OperationOutcome
<1>3. /\ local' = [local EXCEPT ![d] = s.ts]
      /\ outbox' = [outbox EXCEPT ![d] = IF phase[d] = "detached" THEN @ ELSE @ \o s.out]
      /\ server' = server /\ inbox' = inbox /\ stale' = stale /\ phase' = phase
  BY <1>2 DEF Perform
<1>4. CASE e # d
  <2>1. local'[e] = local[e] /\ outbox'[e] = outbox[e]
    BY <1>1, <1>3, <1>4 DEF TypeOK
  <2> QED
    BY <1>1, <1>3, <2>1, OthersShow
<1>5. CASE phase[d] # "live" /\ e = d
  BY <1>3, <1>5, NotQuietShows
<1>6. CASE phase[d] = "live" /\ e = d
  <2>1. local'[d] = s.ts /\ outbox'[d] = outbox[d] \o s.out
    BY <1>1, <1>3, <1>6 DEF TypeOK
  <2>2. outbox[d] \in Seq(Write) /\ s.out \in Seq(Write)
    BY <1>1, <1>2 DEF TypeOK, Sound
  <2>3. InFlight(d)' = InFlight(d) \cup Spawned(s)
    <3>1. Elements(outbox[d] \o s.out) = Elements(outbox[d]) \cup Elements(s.out)
      BY <2>2, ElementsOfConcat
    <3> QED
      BY <2>1, <3>1 DEF InFlight, Elements, Spawned
  <2>4. ASSUME Quiet(d)'
        PROVE  /\ Agrees(server, s.ts)
               /\ AllOf \in InFlight(d) \cup Spawned(s) \/ s.ts = SanitizeHierarchy(server)
    <3>1. \A w \in InFlight(d) \cup Spawned(s) : ~Effective(server, w)
      BY <1>3, <2>3, <2>4 DEF Quiet
    <3>2. Quiet(d)
      BY <1>3, <2>4, <3>1 DEF Quiet
    <3>3. /\ Agrees(server, local[d])
          /\ AllOf \in InFlight(d) \/ local[d] = SanitizeHierarchy(server)
      BY <1>1, <3>2 DEF Shows
    <3>4. /\ Agrees(server, s.ts)
          /\ s.ts = local[d] \/ AllOf \in Spawned(s) \/ local[d] # SanitizeHierarchy(server)
      BY <1>2, <3>1, <3>3 DEF Answered
    <3> QED
      BY <3>3, <3>4
  <2>5. inbox'[d] # <<>> /\ phase'[d] = "live" /\ ~stale'[d] => Head(inbox'[d]) = server'
    BY <1>1, <1>3 DEF Shows
  <2> QED
    BY <1>3, <1>6, <2>1, <2>3, <2>4, <2>5 DEF Shows
<1> QED
  BY <1>4, <1>5, <1>6

\* A write that changes the collection makes every live device stale; one that
\* does not has found the collection to hold what it carries.
LEMMA WriteShows ==
    ASSUME SyncInv, NEW d \in Device, RunWrite(d), NEW e \in Device
    PROVE  Shows(e)'
<1>1. TypeOK /\ ListsAreClean /\ Shows(e) /\ Shows(d)
  BY DEF SyncInv, ListInv
<1>2. PICK n \in DOMAIN outbox[d] :
        /\ outbox' = [outbox EXCEPT ![d] = RemoveAt(@, n)]
        /\ UNCHANGED <<local, inbox, phase, undo, deleted, touched, edits, kills>>
        /\ \/ \A i \in Device : stale'[i]
           \/ /\ server' = server /\ stale' = stale
              /\ ~Effective(server, outbox[d][n])
              /\ outbox[d][n] = AllOf => MergedAll(server, local[d]) = server
  BY <1>1, WriteRuns
<1>3. CASE \A i \in Device : stale'[i]
  BY <1>3, NotQuietShows
<1>4. CASE /\ server' = server /\ stale' = stale
           /\ ~Effective(server, outbox[d][n])
           /\ outbox[d][n] = AllOf => MergedAll(server, local[d]) = server
  <2>1. local' = local /\ inbox' = inbox /\ phase' = phase
    BY <1>2
  <2>2. CASE e # d
    <3>1. outbox'[e] = outbox[e]
      BY <1>1, <1>2, <2>2 DEF TypeOK
    <3> QED
      BY <1>1, <1>4, <2>1, <3>1, OthersShow
  <2>3. CASE e = d
    <3> DEFINE w == outbox[d][n]
    <3>1. outbox[d] \in Seq(Write) /\ server \in RowTable /\ local[d] \in RowTable
      BY <1>1 DEF TypeOK
    <3>2. outbox'[d] = RemoveAt(outbox[d], n)
      BY <1>1, <1>2 DEF TypeOK
    <3>3. InFlight(d) \subseteq InFlight(d)' \cup {w}
      <4>1. Elements(outbox[d]) \subseteq Elements(RemoveAt(outbox[d], n)) \cup {w}
        BY <3>1, ElementsOfRemoveAt
      <4> QED
        BY <3>2, <4>1 DEF InFlight
    <3> HIDE DEF w
    <3>4. ASSUME Quiet(d)'
          PROVE  /\ Agrees(server, local[d])
                 /\ AllOf \in InFlight(d)' \/ local[d] = SanitizeHierarchy(server)
      <4>1. Quiet(d)
        <5>1. \A v \in InFlight(d)' : ~Effective(server, v)
          BY <1>4, <3>4 DEF Quiet
        <5>2. \A v \in InFlight(d) : ~Effective(server, v)
          BY <1>4, <3>3, <5>1 DEF w
        <5> QED
          BY <1>4, <2>1, <3>4, <5>2 DEF Quiet
      <4>2. /\ Agrees(server, local[d])
            /\ AllOf \in InFlight(d) \/ local[d] = SanitizeHierarchy(server)
        BY <1>1, <4>1 DEF Shows
      <4>3. CASE w = AllOf
        <5>1. MergedAll(server, local[d]) = server
          BY <1>4, <4>3 DEF w
        <5>2. local[d] = server
          BY <3>1, <4>2, <5>1, MergedAllRows
        <5>3. local[d] = SanitizeHierarchy(local[d])
          BY <1>1 DEF ListsAreClean, Clean
        <5> QED
          BY <4>2, <5>2, <5>3
      <4>4. CASE w # AllOf
        BY <3>3, <4>2, <4>4
      <4> QED
        BY <4>3, <4>4
    <3>5. inbox'[d] # <<>> /\ phase'[d] = "live" /\ ~stale'[d] => Head(inbox'[d]) = server'
      BY <1>1, <1>4, <2>1 DEF Shows
    <3> QED
      BY <1>4, <2>1, <2>3, <3>4, <3>5 DEF Shows
  <2> QED
    BY <2>2, <2>3
<1> QED
  BY <1>2, <1>3, <1>4

\* A process that starts is not live.
LEMMA RelaunchShows ==
    ASSUME SyncInv, NEW d \in Device, Relaunched(d), NEW e \in Device
    PROVE  Shows(e)'
<1>1. TypeOK /\ Shows(e)
  BY DEF SyncInv, ListInv
<1>2. /\ outbox' = [outbox EXCEPT ![d] = <<>>]
      /\ inbox' = [inbox EXCEPT ![d] = <<>>]
      /\ phase' = [phase EXCEPT ![d] = "detached"]
      /\ local' = local /\ server' = server /\ stale' = stale
  BY DEF Relaunched
<1>3. CASE e = d
  <2>1. phase'[e] = "detached"
    BY <1>1, <1>2, <1>3 DEF TypeOK
  <2> QED
    BY <2>1, NotQuietShows
<1>4. CASE e # d
  <2>1. outbox'[e] = outbox[e] /\ inbox'[e] = inbox[e] /\ phase'[e] = phase[e]
    BY <1>1, <1>2, <1>4 DEF TypeOK
  <2> QED
    BY <1>1, <1>2, <2>1, OthersShow
<1> QED
  BY <1>3, <1>4

\* An initial sync ends with what the collection held, or has more to be told.
LEMMA FinishShows ==
    ASSUME SyncInv, NEW d \in Device, FinishInitialSync(d), NEW e \in Device
    PROVE  Shows(e)'
<1>1. TypeOK /\ Shows(e)
  BY DEF SyncInv, ListInv
<1>2. /\ \E ts : local' = [local EXCEPT ![d] = ts]
      /\ stale' = [i \in Device |-> stale[i] \/ i = d \/ server' # server]
      /\ inbox' = [inbox EXCEPT ![d] = <<>>]
      /\ phase' = [phase EXCEPT ![d] = "live"]
      /\ outbox' = outbox
  BY DEF FinishInitialSync, GoLive
<1>3. CASE e = d \/ server' # server
  <2>1. stale'[e]
    BY <1>2, <1>3
  <2> QED
    BY <2>1, NotQuietShows
<1>4. CASE e # d /\ server' = server
  <2>1. /\ local'[e] = local[e] /\ inbox'[e] = inbox[e] /\ phase'[e] = phase[e]
        /\ outbox'[e] = outbox[e]
    BY <1>1, <1>2, <1>4 DEF TypeOK
  <2>2. stale[e] \in BOOLEAN /\ stale'[e] = (stale[e] \/ e = d \/ server' # server)
    BY <1>1, <1>2 DEF TypeOK
  <2>3. stale'[e] = stale[e]
    BY <1>4, <2>2
  <2> QED
    BY <1>1, <1>4, <2>1, <2>3, OthersShow
<1> QED
  BY <1>3, <1>4

\* A snapshot with none to follow is the collection.
LEMMA SnapshotShows ==
    ASSUME SyncInv, NEW d \in Device, ApplySnapshot(d), NEW e \in Device
    PROVE  Shows(e)'
<1>1. TypeOK /\ Shows(e) /\ Shows(d)
  BY DEF SyncInv, ListInv
<1>2. /\ phase[d] = "live" /\ inbox[d] # <<>>
      /\ local' = [local EXCEPT ![d] = SanitizeHierarchy(Head(inbox[d]))]
      /\ inbox' = [inbox EXCEPT ![d] = <<>>]
      /\ outbox' = outbox /\ server' = server /\ stale' = stale /\ phase' = phase
  BY DEF ApplySnapshot
<1>3. CASE e # d
  <2>1. local'[e] = local[e] /\ inbox'[e] = inbox[e]
    BY <1>1, <1>2, <1>3 DEF TypeOK
  <2> QED
    BY <1>1, <1>2, <2>1, OthersShow
<1>4. CASE e = d /\ stale[d]
  BY <1>2, <1>4, NotQuietShows
<1>5. CASE e = d /\ ~stale[d]
  <2>1. Head(inbox[d]) = server /\ server \in RowTable
    BY <1>1, <1>2, <1>5 DEF Shows, TypeOK
  <2>2. local'[d] = SanitizeHierarchy(server) /\ inbox'[d] = <<>>
    BY <1>1, <1>2, <2>1 DEF TypeOK
  <2>3. Agrees(server, local'[d])
    BY <2>1, <2>2, ShownAgrees
  <2> QED
    BY <1>2, <1>5, <2>2, <2>3 DEF Shows
<1> QED
  BY <1>3, <1>4, <1>5

\* Listening and fetching change no list.
LEMMA TransportShows ==
    ASSUME SyncInv, NEW d \in Device, NEW e \in Device,
           Attach(d) \/ FetchAll(d) \/ ListenerFires(d) \/ InitialSyncFails(d)
    PROVE  Shows(e)'
<1>1. TypeOK /\ Shows(e)
  BY DEF SyncInv, ListInv
<1>2. local' = local /\ outbox' = outbox /\ server' = server
  BY DEF Attach, FetchAll, ListenerFires, InitialSyncFails, GoLive
<1>3. CASE e # d
  <2>1. inbox'[e] = inbox[e] /\ stale'[e] = stale[e] /\ phase'[e] = phase[e]
    BY <1>1, <1>3 DEF TypeOK, Attach, FetchAll, ListenerFires, InitialSyncFails, GoLive
  <2> QED
    BY <1>1, <1>2, <2>1, OthersShow
<1>4. CASE e = d /\ (Attach(d) \/ FetchAll(d))
  <2>1. phase'[e] = "starting"
    BY <1>1, <1>4 DEF TypeOK, Attach, FetchAll
  <2> QED
    BY <2>1, NotQuietShows
<1>5. CASE e = d /\ InitialSyncFails(d)
  <2>1. stale'[e]
    BY <1>1, <1>5 DEF TypeOK, InitialSyncFails
  <2> QED
    BY <2>1, NotQuietShows
<1>6. CASE e = d /\ ListenerFires(d)
  <2>1. inbox'[e] = <<server>>
    BY <1>1, <1>6 DEF TypeOK, ListenerFires
  <2>2. inbox'[e] # <<>> /\ Head(inbox'[e]) = server'
    BY <1>2, <2>1
  <2> QED
    BY <2>2 DEF Shows, Quiet
<1> QED
  BY <1>3, <1>4, <1>5, <1>6

\* So a quiet device shows the collection after every step.
LEMMA StepShows ==
    ASSUME SyncInv, [Next]_vars
    PROVE  SyncInv'
<1>1. ListInv'
  BY StepKeepsLists DEF SyncInv
<1>2. ASSUME NEW e \in Device PROVE Shows(e)'
  <2>1. ASSUME NEW d \in Device, UserStep(d) PROVE Shows(e)'
    BY <2>1, UserShows
  <2>2. ASSUME NEW d \in Device, RunWrite(d) PROVE Shows(e)'
    BY <2>2, WriteShows
  <2>3. ASSUME NEW d \in Device, IndexTrap(d) \/ Kill(d) PROVE Shows(e)'
    BY <2>3, RelaunchShows DEF IndexTrap, Kill
  <2>4. ASSUME NEW d \in Device, FinishInitialSync(d) PROVE Shows(e)'
    BY <2>4, FinishShows
  <2>5. ASSUME NEW d \in Device, ApplySnapshot(d) PROVE Shows(e)'
    BY <2>5, SnapshotShows
  <2>6. ASSUME NEW d \in Device,
               Attach(d) \/ FetchAll(d) \/ ListenerFires(d) \/ InitialSyncFails(d)
        PROVE  Shows(e)'
    BY <2>6, TransportShows
  <2>7. ASSUME UNCHANGED vars PROVE Shows(e)'
    <3>1. UNCHANGED <<local, outbox, server, inbox, stale, phase>>
      BY <2>7 DEF vars
    <3> QED
      BY <3>1, OthersShow DEF SyncInv
  <2> QED
    BY <2>1, <2>2, <2>3, <2>4, <2>5, <2>6, <2>7 DEF Next, SystemStep, Mishap
<1> QED
  BY <1>1, <1>2 DEF SyncInv

\* Although applyRemoteTasks replaces the list without looking at what is in
\* flight, a device whose writes have all run and whose listener has nothing to
\* report shows the account's collection: after any number of edits, kills,
\* failed initial syncs and crossing writes on any number of devices.
THEOREM SettledListsAgree == Spec => []SettledShowsServer
<1>1. Init => SyncInv
  BY InitShows
<1>2. SyncInv /\ [Next]_vars => SyncInv'
  BY StepShows
<1>3. SyncInv => SettledShowsServer
  <2> SUFFICES ASSUME SyncInv, NEW d \in Device, Settled(d)
               PROVE  local[d] = SanitizeHierarchy(server)
    BY DEF SettledShowsServer
  <2>1. InFlight(d) = {}
    BY EmptySeq DEF Settled, InFlight, Elements
  <2>2. Quiet(d)
    BY <2>1 DEF Settled, Quiet
  <2> QED
    BY <2>1, <2>2 DEF SyncInv, Shows
<1> QED
  BY <1>1, <1>2, <1>3, PTL DEF Spec

=============================================================================
