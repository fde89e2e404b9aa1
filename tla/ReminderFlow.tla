---------------------------- MODULE ReminderFlow ----------------------------
(***************************************************************************)
(* One device's task list and its pending notifications: setReminder,      *)
(* removeReminder, and the operations that cancel or renew a reminder.     *)
(*                                                                         *)
(* LocalStore and ReminderManager run on the main actor.  cancelReminder   *)
(* never suspends; scheduleReminder does, at `await notificationCenter     *)
(* .add`, and setReminder holds an index into the list and a copy of the   *)
(* row across it.  Hence the list is a sequence here.                      *)
(*                                                                         *)
(* External, modelled from its use: the notification centre, which keeps   *)
(* the pending notifications across the end of the process, drops one      *)
(* when its time comes, and may refuse a new one.                          *)
(*                                                                         *)
(* A reminder's date is known by the notification made for it.  Subtasks   *)
(* are left to TaskTable: a project is seen to change with them.  New      *)
(* tasks are left out: appending a row is what UndoDelete does too.        *)
(***************************************************************************)
EXTENDS Naturals, Sequences, FiniteSets, SequencesExt

CONSTANTS
    Tasks,      \* task ids: a set of numbers, in the order of the documents
    Projects,   \* those whose completion follows that of their subtasks
    Overlap,    \* may the user act on what a suspended call is about?
    MaxNags,    \* reminders set altogether (bound)
    MaxKills    \* times the process ends (bound)

ASSUME TasksAssumption == Tasks \subseteq Nat /\ IsFiniteSet(Tasks)
ASSUME ProjectsAssumption == Projects \subseteq Tasks
ASSUME OverlapAssumption == Overlap \in BOOLEAN
ASSUME BoundsAssumption == MaxNags \in Nat /\ MaxKills \in Nat

VARIABLES
    tasks,      \* LocalStore.tasks
    nags,       \* notification ids made so far (UUIDs: 1, 2, ...)
    centre,     \* pending notifications
    past,       \* notifications whose date has passed
    calls,      \* calls of setReminder that are suspended
    chores,     \* spawned tasks that cancel or renew notifications
    undo,       \* the deleted row a shake would bring back
    excused,    \* tasks whose reminder is not renewed: brought back, or refused
    kills

memory == <<calls, chores, undo>>
vars == <<tasks, nags, centre, past, memory, excused, kills>>

NoNag == 0

Nag == 1..MaxNags

Row == [id : Tasks, done : BOOLEAN, nag : Nag \cup {NoNag}]

\* A suspended setReminder: index and task, as they were before the await.
Call == [index : Nat, task : Row, nag : Nag, added : BOOLEAN]

\* cancelReminder of one notification; scheduleReminder of one row, or of the
\* rows of a snapshot one after the other.
Chore == [op : {"cancel"}, nag : Nag] \cup [op : {"schedule"}, rows : Seq(Row) \ {<<>>}]

TypeOK ==
    /\ tasks \in Seq(Row)
    /\ nags \in 0..MaxNags
    /\ centre \subseteq Nag /\ past \subseteq Nag
    /\ calls \subseteq Call
    /\ chores \subseteq Chore
    /\ undo \in Seq(Row)
    /\ excused \subseteq Tasks
    /\ kills \in 0..MaxKills

Fresh(id) == [id |-> id, done |-> FALSE, nag |-> NoNag]

Init ==
    /\ tasks \in {[n \in DOMAIN order |-> Fresh(order[n])] : order \in SetToSeqs(Tasks)}
    /\ nags = 0 /\ centre = {} /\ past = {}
    /\ calls = {} /\ chores = {} /\ undo = <<>>
    /\ excused = {} /\ kills = 0

-----------------------------------------------------------------------------

Listed == {tasks[n].id : n \in DOMAIN tasks}

\* firstIndex(where: { $0.id == id })
IndexOf(id) == CHOOSE n \in DOMAIN tasks : tasks[n].id = id /\ \A m \in 1..(n - 1) : tasks[m].id # id

TheRow(id) == tasks[IndexOf(id)]

SetRow(id, row) == tasks' = [tasks EXCEPT ![IndexOf(id)] = row]

\* The list becomes its rows at the places `kept`, by increasing rank.
Rearranged(kept, rank) ==
    \E f \in SetToSeqs(kept) :
        /\ \A m, n \in DOMAIN f : m < n => rank[f[m]] <= rank[f[n]]
        /\ tasks' = [n \in DOMAIN f |-> tasks[f[n]]]

\* removeAll { $0.id == id }
Without(id) ==
    Rearranged({n \in DOMAIN tasks : tasks[n].id # id}, [n \in DOMAIN tasks |-> n])

\* The chores that concern a task.
ChoresFor(id) ==
    {c \in chores :
        \/ c.op = "cancel" /\ id \in Listed /\ TheRow(id).nag = c.nag
        \/ c.op = "schedule" /\ \E n \in DOMAIN c.rows : c.rows[n].id = id}

\* Without Overlap the user waits for what is under way for the task.
Idle(id) == Overlap \/ ((\A c \in calls : c.task.id # id) /\ ChoresFor(id) = {})

\* The list changes its shape; without Overlap no call holds an index then.
MayReshape == Overlap \/ calls = {}

Spawn(cs) == chores' = chores \cup cs

CancelOf(nag) == IF nag = NoNag THEN {} ELSE {[op |-> "cancel", nag |-> nag]}

Future(row) == row.nag # NoNag /\ row.nag \notin past

-----------------------------------------------------------------------------
(* setReminder.                                                            *)

\* Up to the await: the reminder the task has is cancelled, a new id is made.
SetReminder(id) ==
    /\ id \in Listed /\ Idle(id)
    /\ nags < MaxNags
    /\ nags' = nags + 1
    /\ centre' = centre \ {TheRow(id).nag}
    /\ calls' = calls \cup {[index |-> IndexOf(id), task |-> TheRow(id),
                             nag |-> nags + 1, added |-> FALSE]}
    /\ UNCHANGED <<tasks, past, chores, undo, excused, kills>>

\* A notification whose date has passed by then never rings.
AddSucceeds(c) ==
    /\ ~c.added
    /\ centre' = centre \cup ({c.nag} \ past)
    /\ calls' = (calls \ {c}) \cup {[c EXCEPT !.added = TRUE]}
    /\ UNCHANGED <<tasks, nags, past, chores, undo, excused, kills>>

\* The date has passed or the notification centre refuses: the error is logged,
\* the row still shows the reminder that was cancelled.
AddFails(c) ==
    /\ ~c.added
    /\ calls' = calls \ {c}
    /\ excused' = excused \cup {c.task.id}
    /\ UNCHANGED <<tasks, nags, centre, past, chores, undo, kills>>

FinishSetReminderAtTheTop(c) ==
    /\ c.added
    /\ calls' = calls \ {c}
    /\ tasks' = [tasks EXCEPT ![1] = [c.task EXCEPT !.nag = c.nag]]
    /\ excused' = excused \ {c.task.id}
    /\ UNCHANGED <<nags, centre, past, chores, undo, kills>>

\* After the await, tasks[index] = task.  An index past the end traps.
FinishSetReminder(c) ==
    /\ c.added
    /\ IF c.index \in DOMAIN tasks
       THEN /\ tasks' = [tasks EXCEPT ![c.index] = [c.task EXCEPT !.nag = c.nag]]
            /\ calls' = calls \ {c}
            /\ excused' = excused \ {c.task.id}
            /\ UNCHANGED <<chores, undo>>
       ELSE /\ calls' = {} /\ chores' = {} /\ undo' = <<>>
            /\ UNCHANGED <<tasks, excused>>
    /\ UNCHANGED <<nags, centre, past, kills>>

-----------------------------------------------------------------------------
(* The operations that touch a reminder at once.                           *)

RemoveReminderKeepsRow(id) ==
    /\ id \in Listed /\ Idle(id)
    /\ centre' = centre \ {TheRow(id).nag}
    /\ UNCHANGED <<tasks, nags, past, memory, excused, kills>>

RemoveReminder(id) ==
    /\ id \in Listed /\ Idle(id)
    /\ centre' = centre \ {TheRow(id).nag}
    /\ SetRow(id, [TheRow(id) EXCEPT !.nag = NoNag])
    /\ UNCHANGED <<nags, past, memory, excused, kills>>

CompleteLeavesNotification(id) ==
    /\ id \in Listed /\ Idle(id)
    /\ SetRow(id, [TheRow(id) EXCEPT !.done = TRUE, !.nag = NoNag])
    /\ UNCHANGED <<nags, centre, past, memory, excused, kills>>

Complete(id) ==
    /\ id \in Listed /\ Idle(id)
    /\ SetRow(id, [TheRow(id) EXCEPT !.done = TRUE, !.nag = NoNag])
    /\ Spawn(CancelOf(TheRow(id).nag))
    /\ UNCHANGED <<nags, centre, past, calls, undo, excused, kills>>

\* A task that was completed with its subtasks still has its reminder: it is
\* renewed when it lies ahead and cleared when it does not.
Restore(id) ==
    /\ id \in Listed /\ TheRow(id).done /\ Idle(id)
    /\ LET row == [TheRow(id) EXCEPT !.done = FALSE, !.nag = IF @ \in past THEN NoNag ELSE @]
       IN  /\ SetRow(id, row)
           /\ Spawn(IF Future(row) THEN {[op |-> "schedule", rows |-> <<row>>]} ELSE {})
    /\ UNCHANGED <<nags, centre, past, calls, undo, excused, kills>>

\* reconcileParentCompletion completes or reopens a project, nothing else.
ReconcileProject(id) ==
    /\ id \in Projects \cap Listed /\ Idle(id)
    /\ SetRow(id, [TheRow(id) EXCEPT !.done = ~@])
    /\ UNCHANGED <<nags, centre, past, memory, excused, kills>>

DeleteArmsIndex(id) ==
    /\ id \in Listed /\ Idle(id) /\ MayReshape
    /\ Without(id)
    /\ Spawn(CancelOf(TheRow(id).nag))
    /\ undo' = <<[TheRow(id) EXCEPT !.id = IndexOf(id) - 1]>>
    /\ UNCHANGED <<nags, centre, past, calls, excused, kills>>

Delete(id) ==
    /\ id \in Listed /\ Idle(id) /\ MayReshape
    /\ Without(id)
    /\ Spawn(CancelOf(TheRow(id).nag))
    /\ undo' = <<TheRow(id)>>
    /\ UNCHANGED <<nags, centre, past, calls, excused, kills>>

\* addTask puts the row back as it was, its reminder included.
UndoDelete ==
    /\ undo # <<>>
    /\ \A n \in DOMAIN undo : undo[n].id \notin Listed
    /\ Overlap \/ chores = {}
    /\ tasks' = tasks \o undo
    /\ excused' = excused \cup {undo[n].id : n \in DOMAIN undo}
    /\ undo' = <<>>
    /\ UNCHANGED <<nags, centre, past, calls, chores, kills>>

-----------------------------------------------------------------------------
(* Around the app.                                                         *)

\* The listener answers the device's own writes with the list in the order of
\* the documents; rescheduleRemindersAfterSync goes through a copy of it.
ApplyEcho ==
    /\ MayReshape
    /\ \A c \in chores : c.op # "schedule"
    /\ Rearranged(DOMAIN tasks, [n \in DOMAIN tasks |-> tasks[n].id])
    /\ Spawn(IF tasks = <<>> THEN {} ELSE {[op |-> "schedule", rows |-> tasks']})
    /\ UNCHANGED <<nags, centre, past, calls, undo, excused, kills>>

Cancel(c) ==
    /\ c.op = "cancel"
    /\ centre' = centre \ {c.nag}
    /\ chores' = chores \ {c}
    /\ UNCHANGED excused

\* The next row of a schedule chore; rows that are done, have no reminder or
\* one in the past are passed over, and a refusal is only logged.
Schedule(c) ==
    /\ c.op = "schedule"
    /\ LET row  == Head(c.rows)
           rest == IF Len(c.rows) = 1 THEN {} ELSE {[c EXCEPT !.rows = Tail(@)]}
       IN  /\ chores' = (chores \ {c}) \cup rest
           /\ IF Future(row) /\ ~row.done
              THEN \/ centre' = centre \cup {row.nag} /\ UNCHANGED excused
                   \/ excused' = excused \cup {row.id} /\ UNCHANGED centre
              ELSE UNCHANGED <<centre, excused>>

RunChore ==
    \E c \in chores :
        /\ Cancel(c) \/ Schedule(c)
        /\ UNCHANGED <<tasks, nags, past, calls, undo, kills>>

DatePasses(n) ==
    /\ n \in (1..nags) \ past
    /\ past' = past \cup {n}
    /\ centre' = centre \ {n}
    /\ UNCHANGED <<tasks, nags, memory, excused, kills>>

\* The process ends: list and notifications stay.
Kill ==
    /\ kills < MaxKills
    /\ Overlap \/ (calls = {} /\ chores = {})
    /\ kills' = kills + 1
    /\ calls' = {} /\ chores' = {} /\ undo' = <<>>
    /\ UNCHANGED <<tasks, nags, centre, past, excused>>

Next ==
    \/ \E id \in Tasks :
          \/ SetReminder(id) \/ RemoveReminder(id)
          \/ Complete(id) \/ Restore(id) \/ ReconcileProject(id) \/ Delete(id)
    \/ \E c \in calls : AddSucceeds(c) \/ AddFails(c) \/ FinishSetReminder(c)
    \/ UndoDelete \/ ApplyEcho \/ RunChore \/ Kill
    \/ \E n \in Nag : DatePasses(n)

Spec == Init /\ [][Next]_vars

-----------------------------------------------------------------------------

Quiet == calls = {} /\ chores = {}

\* "Smart Cancellation: Notifications auto-cancel when tasks are completed or
\* deleted" (changelog): once nothing is under way, a pending notification is
\* the reminder of a task of the list, which shows it and can cancel it.  (A
\* project that was completed with its subtasks does keep its reminder.)
NagIsOnItsTask ==
    Quiet => centre \subseteq {tasks[n].nag : n \in DOMAIN tasks}

\* An open task that shows a reminder to come will be reminded, unless the
\* notification was refused or the task was brought back by an undo.
ShownNagRings ==
    Quiet => \A n \in DOMAIN tasks :
                ~tasks[n].done /\ Future(tasks[n]) /\ tasks[n].id \notin excused =>
                    tasks[n].nag \in centre

\* "Update task with reminder info" (setReminder): what is written after the
\* await is the reminder of that task; its completion and all other rows stay
\* as they are by then.
UpdatesItsTask ==
    [][\A c \in calls : FinishSetReminder(c) =>
          tasks' = [n \in DOMAIN tasks |->
                       IF tasks[n].id = c.task.id THEN [tasks[n] EXCEPT !.nag = c.nag]
                       ELSE tasks[n]]]_vars

=============================================================================
