-------------------------- MODULE MCTaskHierarchy --------------------------
(***************************************************************************)
(* TaskHierarchy on small instances: three task ids and two remembered     *)
(* deletions are enough for a project, a subtask and a third task that     *)
(* moves between them while one of the three is deleted and brought back.  *)
(***************************************************************************)
EXTENDS TaskHierarchy

\* Any list of two tasks another device may have left in Firestore.
TwoTaskTables == UNION {[ids -> Task] : ids \in {s \in SUBSET TaskId : Cardinality(s) <= 2}}

\* Lists of any size whose rows are open and not reopened: every shape the
\* parent references can have, nesting, dangling references and loops included.
ShapeTables ==
    UNION {[ids -> [parent : TaskId \cup {NoTask}, done : {FALSE}, reopened : BOOLEAN]]
           : ids \in SUBSET TaskId}

NoSnapshots == {}

TaskSymmetry == Permutations(TaskId)

=============================================================================
