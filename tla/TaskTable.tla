----------------------------- MODULE TaskTable -----------------------------
(***************************************************************************)
(* The task operations of LocalStore (Data/LocalStore.swift) as functions  *)
(* on a task table.                                                        *)
(*                                                                         *)
(* A table maps the id of every task in `LocalStore.tasks` to the fields   *)
(* the hierarchy rules read: parentTaskId, whether completedAt is set and  *)
(* whether parentManualReopenAt is set.  Dates are abstracted to "set or   *)
(* not", and array order is abstracted away: nothing below reads it.       *)
(* LocalStore runs each operation to its end on the main thread, so each   *)
(* is one function from the table before to the table after, the trailing  *)
(* reconcileParentCompletion calls included.                               *)
(***************************************************************************)
EXTENDS Naturals

CONSTANTS
    TaskId,     \* the ids a task can have (UUID strings in the code)
    NoTask      \* parentTaskId = nil

ASSUME NoTaskAssumption == NoTask \notin TaskId

Task == [parent : TaskId \cup {NoTask}, done : BOOLEAN, reopened : BOOLEAN]

Table == UNION {[ids -> Task] : ids \in SUBSET TaskId}

EmptyTable == [id \in {} |-> [parent |-> NoTask, done |-> FALSE, reopened |-> FALSE]]

-----------------------------------------------------------------------------
(* Reading and writing rows.                                               *)

IsTopLevel(ts, id) == id \in DOMAIN ts /\ ts[id].parent = NoTask

Children(ts, id) == {c \in DOMAIN ts : ts[c].parent = id}

Put(ts, id, t) == [i \in DOMAIN ts \cup {id} |-> IF i = id THEN t ELSE ts[i]]

Drop(ts, ids) == [i \in DOMAIN ts \ ids |-> ts[i]]

-----------------------------------------------------------------------------
(* reconcileParentCompletion: what a parent's row becomes, given the       *)
(* completion flags of its subtasks.                                       *)

ReconciledParentOnAnyChild(t, flags, reset) ==
    IF flags = {} THEN [t EXCEPT !.reopened = FALSE]
    ELSE IF TRUE \notin flags THEN [t EXCEPT !.done = FALSE, !.reopened = FALSE]
    ELSE LET override == t.reopened /\ ~reset
         IN  [t EXCEPT !.reopened = override, !.done = @ \/ ~override]

ReconciledParentKeepsOverride(t, flags, reset) ==
    IF flags = {} THEN t
    ELSE IF FALSE \in flags THEN [t EXCEPT !.done = FALSE, !.reopened = FALSE]
    ELSE LET override == t.reopened /\ ~reset
         IN  [t EXCEPT !.reopened = override, !.done = @ \/ ~override]

ReconciledParent(t, flags, reset) ==
    IF flags = {} THEN [t EXCEPT !.reopened = FALSE]
    ELSE IF FALSE \in flags THEN [t EXCEPT !.done = FALSE, !.reopened = FALSE]
    ELSE LET override == t.reopened /\ ~reset
         IN  [t EXCEPT !.reopened = override, !.done = @ \/ ~override]

ReconcileParentCompletion(ts, parentId, reset) ==
    IF IsTopLevel(ts, parentId)
    THEN [ts EXCEPT ![parentId] =
             ReconciledParent(@, {ts[c].done : c \in Children(ts, parentId)}, reset)]
    ELSE ts

\* The same for an optional parentId: `if let parentId { reconcile... }`.
ReconcileIfAny(ts, parentId, reset) ==
    IF parentId = NoTask THEN ts ELSE ReconcileParentCompletion(ts, parentId, reset)

-----------------------------------------------------------------------------
(* addTask: the parent reference is kept only when it names a top-level    *)
(* task of the table.                                                      *)

Adopted(ts, t) ==
    IF t.parent = NoTask THEN [t EXCEPT !.reopened = FALSE]
    ELSE IF IsTopLevel(ts, t.parent) THEN t
    ELSE [t EXCEPT !.parent = NoTask]

AddTask(ts, id, t) ==
    LET added == Adopted(ts, t)
    IN  ReconcileIfAny(Put(ts, id, added), added.parent, TRUE)

(* setParent *)

MayMoveAnything(ts, id, parentId) ==
    /\ id \in DOMAIN ts
    /\ parentId # id
    /\ parentId # NoTask => IsTopLevel(ts, parentId)

MayMoveUnderItself(ts, id, parentId) ==
    /\ id \in DOMAIN ts
    /\ parentId # NoTask => Children(ts, id) = {} /\ IsTopLevel(ts, parentId)

MayMove(ts, id, parentId) ==
    /\ id \in DOMAIN ts
    /\ parentId # id
    /\ parentId # NoTask => Children(ts, id) = {} /\ IsTopLevel(ts, parentId)

MovedKeepsOverride(ts, id, parentId) == [ts EXCEPT ![id].parent = parentId]

Moved(ts, id, parentId) ==
    [ts EXCEPT ![id].parent = parentId,
               ![id].reopened = @ /\ parentId = NoTask]

SetParentForgetsOldParent(ts, id, parentId) ==
    IF MayMove(ts, id, parentId)
    THEN ReconcileIfAny(Moved(ts, id, parentId), parentId, TRUE)
    ELSE ts

SetParent(ts, id, parentId) ==
    IF MayMove(ts, id, parentId)
    THEN ReconcileIfAny(ReconcileIfAny(Moved(ts, id, parentId), ts[id].parent, TRUE),
                        parentId, TRUE)
    ELSE ts

-----------------------------------------------------------------------------
(* deleteTask and the two strategies of deleteParentTask.  The code loops  *)
(* over the subtasks with deleteTask or setParent(nil); each call touches  *)
(* that subtask and reconciles the parent, whose row the last call drops,  *)
(* so the loop is one update of all the subtasks.                          *)

DeleteTask(ts, id) ==
    ReconcileIfAny(Drop(ts, {id}), IF id \in DOMAIN ts THEN ts[id].parent ELSE NoTask, TRUE)

DeleteSubtasks(ts, id) == DeleteTask(Drop(ts, Children(ts, id)), id)

DetachSubtasks(ts, id) ==
    DeleteTask([i \in DOMAIN ts |->
                  IF ts[i].parent = id THEN [ts[i] EXCEPT !.parent = NoTask] ELSE ts[i]],
               id)

-----------------------------------------------------------------------------
(* completeTask and restoreTask.                                           *)

CompleteTask(ts, id) ==
    IF id \in DOMAIN ts
    THEN ReconcileIfAny([ts EXCEPT ![id].done = TRUE, ![id].reopened = FALSE],
                        ts[id].parent, FALSE)
    ELSE ts

RestoreTask(ts, id) ==
    IF id \in DOMAIN ts
    THEN ReconcileIfAny([ts EXCEPT ![id].done = FALSE,
                                   ![id].reopened = @ \/ Children(ts, id) # {}],
                        ts[id].parent, TRUE)
    ELSE ts

-----------------------------------------------------------------------------
(* sanitizeHierarchy, run over every remote snapshot, and the same clean-up *)
(* in migrateIfNeeded.  The lookup holds the rows as they arrived.          *)

SanitizedRowKeepsNesting(ts, id) ==
    LET p    == ts[id].parent
        kept == p # id /\ p \in DOMAIN ts
    IN  [ts[id] EXCEPT !.parent = IF kept THEN p ELSE NoTask,
                       !.reopened = @ /\ ~kept]

SanitizedRow(ts, id) ==
    LET p    == ts[id].parent
        kept == p # id /\ IsTopLevel(ts, p)
    IN  [ts[id] EXCEPT !.parent = IF kept THEN p ELSE NoTask,
                       !.reopened = @ /\ ~kept]

SanitizeHierarchy(ts) == [id \in DOMAIN ts |-> SanitizedRow(ts, id)]

-----------------------------------------------------------------------------
(* The shapes a table can have.                                            *)

\* The parent of a task of the table, if it is in the table, is top-level.
OneLevel(ts) ==
    \A id \in DOMAIN ts : ts[id].parent \in DOMAIN ts => IsTopLevel(ts, ts[id].parent)

\* Every non-empty set of tasks holds one whose parent lies outside of it.
Acyclic(ts) ==
    \A ids \in SUBSET DOMAIN ts : ids # {} => \E id \in ids : ts[id].parent \notin ids

=============================================================================
