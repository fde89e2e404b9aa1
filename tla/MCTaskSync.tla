----------------------------- MODULE MCTaskSync -----------------------------
(***************************************************************************)
(* TaskSync on small instances: a project with its subtasks, edited on two *)
(* devices.                                                                *)
(***************************************************************************)
EXTENDS TaskSync

CONSTANTS Project, First, Second

TaskRow(p, done) == [parent |-> p, done |-> done, reopened |-> FALSE, due |-> FALSE]

\* An open project with one subtask done and one to do; the same with nothing
\* done; the three tasks before anyone arranged them; a project that was
\* reopened by hand after its only subtask was completed, beside another task.
Arranged ==
    [id \in TaskId |->
        IF id = Project THEN TaskRow(NoTask, FALSE) ELSE TaskRow(Project, id = First)]

Open == [id \in TaskId |-> TaskRow(IF id = Project THEN NoTask ELSE Project, FALSE)]

Flat == [id \in TaskId |-> TaskRow(NoTask, FALSE)]

Reopened ==
    [id \in TaskId |->
        IF id = Project THEN [TaskRow(NoTask, FALSE) EXCEPT !.reopened = TRUE]
        ELSE TaskRow(IF id = First THEN Project ELSE NoTask, id = First)]

JustOpen == {Open}

JustFlat == {Flat}

JustReopened == {Reopened}

Projects == {Arranged, Reopened}

\* Devices play the same part.
DeviceSymmetry == Permutations(Device)

=============================================================================
