--------------------------- MODULE TaskHierarchy ---------------------------
(***************************************************************************)
(* One device's task list: the project/subtask rules of LocalStore, the    *)
(* deletion undo of UndoCoordinator's UndoManager, the remote snapshots    *)
(* that replace the list, and the process being relaunched.                *)
(*                                                                         *)
(* saveTasks() follows every change of `tasks` before the main thread      *)
(* yields, so the saved list and the list in memory agree between actions  *)
(* and one variable stands for both.                                       *)
(***************************************************************************)
EXTENDS TaskTable, Sequences, SequencesExt

CONSTANTS
    UndoLevels,     \* deletions the undo manager remembers (bound); 0: no manager
    Snapshots,      \* task tables a Firestore listener may deliver
    ExperimentalModes  \* the values "Enable Experimental Features" takes

ASSUME UndoLevelsAssumption == UndoLevels \in Nat
ASSUME SnapshotsAssumption == Snapshots \subseteq Table
ASSUME ExperimentalModesAssumption == ExperimentalModes \subseteq BOOLEAN

VARIABLES
    tasks,          \* LocalStore.tasks
    twice,          \* ids that two rows of LocalStore.tasks carry
    undoStack,      \* deletions that "Undo" puts back, the last one first out
    redoStack,      \* re-additions that "Redo" deletes again
    cleanupDue,     \* migrateIfNeeded has not run yet in this process
    experimental    \* LocalStore.experimentalFeaturesEnabled

vars == <<tasks, twice, undoStack, redoStack, cleanupDue, experimental>>

\* What registerUndoForTaskDeletion captures: the row as it was deleted.
Entry == [id : TaskId, task : Task]

TypeOK ==
    /\ tasks \in Table
    /\ twice \in SUBSET TaskId
    /\ undoStack \in Seq(Entry)
    /\ redoStack \in Seq(Entry)
    /\ cleanupDue \in BOOLEAN
    /\ experimental \in ExperimentalModes

Init ==
    /\ tasks = EmptyTable
    /\ twice = {}
    /\ undoStack = <<>>
    /\ redoStack = <<>>
    /\ cleanupDue = TRUE
    /\ experimental \in ExperimentalModes

IdsIn(stack) == {stack[i].id : i \in DOMAIN stack}

\* A new UUID: no row, no parent reference and no pending undo carries it.
Fresh(id) ==
    /\ id \notin DOMAIN tasks
    /\ Children(tasks, id) = {}
    /\ id \notin IdsIn(undoStack) \cup IdsIn(redoStack)

\* The undo manager has no limit; the bound makes it forget its oldest entry.
Pushed(stack, e) ==
    IF Len(stack) < UndoLevels THEN Append(stack, e)
    ELSE IF UndoLevels = 0 THEN stack
    ELSE Append(Tail(stack), e)

\* A row with an id that is already there makes every later
\* Dictionary(uniqueKeysWithValues:) over the list trap: the model stops.
Running == twice = {}

-----------------------------------------------------------------------------
(* Operations of the task list.                                            *)

\* TaskInputView, voice drafts and shared items: a new top-level task.
NewTask(id) ==
    /\ Running /\ Fresh(id)
    /\ tasks' = AddTask(tasks, id, [parent |-> NoTask, done |-> FALSE, reopened |-> FALSE])
    /\ UNCHANGED <<twice, undoStack, redoStack, cleanupDue, experimental>>

\* addSubtask: the row is offered by the hierarchy UI only.
NewSubtask(id, parentId) ==
    /\ Running /\ experimental /\ Fresh(id)
    /\ IsTopLevel(tasks, parentId)
    /\ tasks' = AddTask(tasks, id, [parent |-> parentId, done |-> FALSE, reopened |-> FALSE])
    /\ UNCHANGED <<twice, undoStack, redoStack, cleanupDue, experimental>>

\* A drop on a parent row, or "Save" in the editor, which always calls
\* setParent with the parent selected since the editor was opened: any, as
\* the list may have changed under it.
MoveTask(id, parentId) ==
    /\ Running /\ id \in DOMAIN tasks
    /\ tasks' = SetParent(tasks, id, parentId)
    /\ UNCHANGED <<twice, undoStack, redoStack, cleanupDue, experimental>>

\* toggleComplete on a row, or the "Complete" action of a notification.
Complete(id) ==
    /\ Running /\ id \in DOMAIN tasks
    /\ tasks' = CompleteTask(tasks, id)
    /\ UNCHANGED <<twice, undoStack, redoStack, cleanupDue, experimental>>

Restore(id) ==
    /\ Running /\ id \in DOMAIN tasks /\ tasks[id].done
    /\ tasks' = RestoreTask(tasks, id)
    /\ UNCHANGED <<twice, undoStack, redoStack, cleanupDue, experimental>>

\* The plain delete: of any task when the hierarchy UI is hidden, of a task
\* without subtasks when it is shown.
DeleteArmsRow(id) ==
    /\ Running /\ id \in DOMAIN tasks
    /\ experimental => Children(tasks, id) = {}
    /\ tasks' = DeleteTask(tasks, id)
    /\ undoStack' = Pushed(undoStack, tasks[id])
    /\ redoStack' = <<>>
    /\ UNCHANGED <<twice, cleanupDue, experimental>>

DeleteKeepsRedo(id) ==
    /\ Running /\ id \in DOMAIN tasks
    /\ experimental => Children(tasks, id) = {}
    /\ tasks' = DeleteTask(tasks, id)
    /\ undoStack' = Pushed(undoStack, [id |-> id, task |-> tasks[id]])
    /\ UNCHANGED <<twice, redoStack, cleanupDue, experimental>>

Delete(id) ==
    /\ Running /\ id \in DOMAIN tasks
    /\ experimental => Children(tasks, id) = {}
    /\ tasks' = DeleteTask(tasks, id)
    /\ undoStack' = Pushed(undoStack, [id |-> id, task |-> tasks[id]])
    /\ redoStack' = <<>>
    /\ UNCHANGED <<twice, cleanupDue, experimental>>

\* The two answers of the "Delete Project Task" dialog.  A task that has lost
\* its subtasks meanwhile is deleted by the first guard of deleteParentTask.
DeleteParent(id) ==
    /\ Running /\ experimental /\ id \in DOMAIN tasks
    /\ tasks' \in {DeleteSubtasks(tasks, id), DetachSubtasks(tasks, id)}
    /\ UNCHANGED <<twice, undoStack, redoStack, cleanupDue, experimental>>

-----------------------------------------------------------------------------
(* The undo manager.                                                       *)

\* addTask appends without looking for the id: a task that is back in the
\* list by then is there twice.
UndoDeletion ==
    /\ Running /\ undoStack # <<>>
    /\ LET e == Last(undoStack)
       IN  /\ IF e.id \in DOMAIN tasks
              THEN twice' = {e.id} /\ UNCHANGED tasks
              ELSE tasks' = AddTask(tasks, e.id, e.task) /\ UNCHANGED twice
           /\ redoStack' = Append(redoStack, e)
    /\ undoStack' = Front(undoStack)
    /\ UNCHANGED <<cleanupDue, experimental>>

\* The redo closure deletes the id whatever became of the task, and arms the
\* undo with the row captured at the first deletion.
RedoDeletion ==
    /\ Running /\ redoStack # <<>>
    /\ LET e == Last(redoStack)
       IN  /\ tasks' = DeleteTask(tasks, e.id)
           /\ undoStack' = Append(undoStack, e)
    /\ redoStack' = Front(redoStack)
    /\ UNCHANGED <<twice, cleanupDue, experimental>>

-----------------------------------------------------------------------------
(* The rest of the app.                                                    *)

\* setExperimentalFeaturesEnabled, locally or from the synced preference.
SetExperimental(on) ==
    /\ Running
    /\ experimental' = on
    /\ UNCHANGED <<tasks, twice, undoStack, redoStack, cleanupDue>>

\* applyRemoteTasks / applyRemoteSnapshot: replaces the list, keeps the undo.
ApplyRemoteTasks(remote) ==
    /\ Running
    /\ tasks' = SanitizeHierarchy(remote)
    /\ UNCHANGED <<twice, undoStack, redoStack, cleanupDue, experimental>>

\* A new process: the undo manager is gone, load() brings the saved list back.
Relaunch ==
    /\ Running
    /\ undoStack' = <<>>
    /\ redoStack' = <<>>
    /\ cleanupDue' = TRUE
    /\ UNCHANGED <<tasks, twice, experimental>>

\* 0.75 s after the launch migrateIfNeeded cleans the parent references up.
MigrateIfNeeded ==
    /\ Running /\ cleanupDue
    /\ tasks' = SanitizeHierarchy(tasks)
    /\ cleanupDue' = FALSE
    /\ UNCHANGED <<twice, undoStack, redoStack, experimental>>

Next ==
    \/ \E id \in TaskId :
          \/ NewTask(id)
          \/ Complete(id)
          \/ Restore(id)
          \/ Delete(id)
          \/ DeleteParent(id)
          \/ \E p \in TaskId : NewSubtask(id, p)
          \/ \E p \in TaskId \cup {NoTask} : MoveTask(id, p)
    \/ UndoDeletion
    \/ RedoDeletion
    \/ \E on \in ExperimentalModes : SetExperimental(on)
    \/ \E remote \in Snapshots : ApplyRemoteTasks(remote)
    \/ Relaunch
    \/ MigrateIfNeeded

Spec == Init /\ [][Next]_vars

-----------------------------------------------------------------------------
(* What must hold of the list.                                             *)

\* "v1 hierarchy depth is one level only" (PRD 08): the parent of a task that
\* is in the list is a top-level task.  A reference to a task that is gone is
\* not nesting, but it becomes nesting if that task returns as a subtask.
NoNesting == OneLevel(tasks)

\* No chain of parent references closes on itself, dangling references and
\* nesting notwithstanding: every non-empty set of tasks holds one whose
\* parent lies outside (the plan's "invariants for no cycles").
NoCycles == Acyclic(tasks)

\* Undo and redo, in any order and with any other operation between them,
\* never append a task that the list still holds: the
\* Dictionary(uniqueKeysWithValues:) of sanitizeHierarchy, migrateIfNeeded and
\* reorderTasks relies on it.
UniqueIds == twice = {}

\* Subtasks become nested by one step only, the undo of a deletion: every
\* other operation, snapshot and relaunch keeps a one-level list one-level.
NestingOnlyByUndo == [][NoNesting /\ ~NoNesting' => UndoDeletion]_vars

\* Only a top-level task carries the "reopened by hand" override, whichever
\* way it lost its parent, gained one, was deleted or synced.
OverrideOnlyOnTopLevel ==
    \A id \in DOMAIN tasks : tasks[id].reopened => tasks[id].parent = NoTask

\* Parent completion is automatic "when all subtasks are complete, with manual
\* reopen override" (PRD 08): an open project whose subtasks are all complete
\* was reopened by hand.
CompletionAgreement ==
    \A id \in DOMAIN tasks :
        /\ IsTopLevel(tasks, id)
        /\ Children(tasks, id) # {}
        /\ \A c \in Children(tasks, id) : tasks[c].done
        => tasks[id].done \/ tasks[id].reopened

\* The override does not outlive its reason: the project that carries it is
\* open and still has subtasks.
OverrideIsLive ==
    \A id \in DOMAIN tasks :
        tasks[id].reopened => ~tasks[id].done /\ Children(tasks, id) # {}

BySnapshot == \E remote \in Snapshots : ApplyRemoteTasks(remote)

\* A one-level list in which completion agrees stays in agreement under every
\* operation of the device, a relaunch included; putting back a deleted task or
\* a snapshot, neither of which reconciles the projects, may break it.
AgreementLostOnlyBySync ==
    [][NoNesting /\ CompletionAgreement /\ ~CompletionAgreement' =>
          UndoDeletion \/ BySnapshot]_vars

\* Nor does any operation of the device leave an override behind.
OverrideOutlivedOnlyBySync ==
    [][NoNesting /\ OverrideIsLive /\ ~OverrideIsLive' =>
          UndoDeletion \/ BySnapshot]_vars

\* A project is completed behind the user's back only when no open subtask
\* remains: a task turns complete by its own completion, by a snapshot, or
\* because every subtask it has is complete.
AutoCompletionIsEarned ==
    [][\A id \in DOMAIN tasks \cap DOMAIN tasks' :
          ~tasks[id].done /\ tasks'[id].done =>
             \/ Complete(id)
             \/ BySnapshot
             \/ /\ Children(tasks', id) # {}
                /\ \A c \in Children(tasks', id) : tasks'[c].done]_vars

=============================================================================
