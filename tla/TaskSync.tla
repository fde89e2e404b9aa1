------------------------------ MODULE TaskSync ------------------------------
(***************************************************************************)
(* The task lists of one account's devices and the Firestore collection    *)
(* between them.                                                           *)
(*                                                                         *)
(* Every LocalStore operation changes the list at once and leaves its      *)
(* remote writes to Swift tasks of their own (`_Concurrency.Task { try?    *)
(* await backend... }`).  Swift promises nothing about the order in which  *)
(* such tasks run; the main actor of today's runtime starts them in the    *)
(* order they were spawned (Ordered).  Some carry the row as it was when   *)
(* they were spawned, others read the list when they run.                  *)
(*                                                                         *)
(* External, modelled from its use: Firestore.  A write takes effect on    *)
(* the collection in one step, and a listener is called with the whole     *)
(* collection some time after it changed, intermediate states possibly     *)
(* skipped.  Merging writes, deletions and queries behave as documented.   *)
(*                                                                         *)
(* Left to TaskHierarchy: an undo of a task that a snapshot has brought    *)
(* back, the hierarchy UI being hidden, redo.                              *)
(***************************************************************************)
EXTENDS TaskTable, Sequences, SequencesExt

CONSTANTS
    Device,         \* devices signed in to the account
    InitialLists,   \* lists the account may start with, synced everywhere
    Ordered,        \* do spawned writes run in the order they were spawned?
    MaxEdits,       \* operations by the user, on all devices together (bound)
    MaxKills        \* times a device's process is killed and relaunched (bound)

ASSUME OrderedAssumption == Ordered \in BOOLEAN

ASSUME BoundAssumption == MaxEdits \in Nat /\ MaxKills \in Nat

ASSUME TaskIdAssumption == IsFiniteSet(TaskId)

VARIABLES
    local,      \* local[d]: LocalStore.tasks
    outbox,     \* outbox[d]: spawned writes that have not run
    server,     \* the documents of users/<uid>/tasks
    inbox,      \* inbox[d]: what the listener or the initial fetch handed over
    stale,      \* stale[d]: the collection changed since the listener's last call
    phase,      \* phase[d]: how far handleUserChange has come
    undo,       \* undo[d]: the deletion a shake would take back
    deleted,    \* ids a user deleted (history)
    touched,    \* ids a user changed, moved or put back (history)
    edits, kills

history == <<deleted, touched, edits>>
vars == <<local, outbox, server, inbox, stale, phase, undo, history, kills>>

Row == [parent : TaskId \cup {NoTask}, done : BOOLEAN, reopened : BOOLEAN, due : BOOLEAN]

RowTable == UNION {[ids -> Row] : ids \in SUBSET TaskId}

\* A list as sanitizeHierarchy leaves it: one level deep, no loops or dangling
\* parents, the override on top-level tasks only.
Clean(ts) == OneLevel(ts) /\ ts = SanitizeHierarchy(ts)

ASSUME InitialListsAssumption == \A ts \in InitialLists : ts \in RowTable /\ Clean(ts)

\* backend.upsert(task: copy), "stamped" when it carries a new updatedAt;
\* backend.deleteTask; upsert(task: tasks[parentIndex]) and
\* upsert(tasks: tasks), which read the list when they run.
Write ==
    [op : {"set", "stamped"}, id : TaskId, row : Row]
    \cup [op : {"delete"}, id : TaskId]
    \cup [op : {"index"}, id : TaskId, rows : Nat]
    \cup [op : {"all"}]

TypeOK ==
    /\ local \in [Device -> RowTable]
    /\ outbox \in [Device -> Seq(Write)]
    /\ server \in RowTable
    /\ inbox \in [Device -> Seq(RowTable)]
    /\ stale \in [Device -> BOOLEAN]
    /\ phase \in [Device -> {"detached", "starting", "live"}]
    /\ undo \in [Device -> Seq([id : TaskId, task : Row])]
    /\ deleted \subseteq TaskId /\ touched \subseteq TaskId
    /\ edits \in 0..MaxEdits
    /\ kills \in 0..MaxKills

Init ==
    /\ server \in InitialLists
    /\ local = [d \in Device |-> server]
    /\ stale = [d \in Device |-> FALSE]
    /\ outbox = [d \in Device |-> <<>>]
    /\ inbox = [d \in Device |-> <<>>]
    /\ phase = [d \in Device |-> "live"]
    /\ undo = [d \in Device |-> <<>>]
    /\ deleted = {} /\ touched = {}
    /\ edits = 0 /\ kills = 0

-----------------------------------------------------------------------------
(* An operation as an outcome: the list after it and the writes it spawns. *)

Outcome(ts, out) == [ts |-> ts, out |-> out]

Upsert(ts, id) == [op |-> "set", id |-> id, row |-> ts[id]]

\* reconcileParentCompletion spawns an upsert when it changed the parent; once
\* the last subtask is gone that upsert indexes the list when it runs.
Reconciled(s, p, reset) ==
    LET ts == ReconcileIfAny(s.ts, p, reset)
    IN  IF ts = s.ts THEN s
        ELSE Outcome(ts, Append(s.out,
                                IF Children(ts, p) = {}
                                THEN [op |-> "index", id |-> p, rows |-> Cardinality(DOMAIN ts)]
                                ELSE Upsert(ts, p)))

Added(ts, id, t) ==
    LET added == Adopted(ts, t)
        s     == Reconciled(Outcome(Put(ts, id, added), <<>>), added.parent, TRUE)
    IN  Outcome(s.ts, Append(s.out, [op |-> "set", id |-> id, row |-> added]))

MovedTask(s, id, p) ==
    IF ~MayMove(s.ts, id, p) THEN s
    ELSE LET left  == Reconciled(Outcome(Moved(s.ts, id, p), s.out), s.ts[id].parent, TRUE)
             moved == Reconciled(left, p, TRUE)
         IN  Outcome(moved.ts, Append(moved.out, [op |-> "all"]))

Deleted(s, id) ==
    Reconciled(Outcome(Drop(s.ts, {id}), Append(s.out, [op |-> "delete", id |-> id])),
               IF id \in DOMAIN s.ts THEN s.ts[id].parent ELSE NoTask, TRUE)

\* deleteParentTask: what becomes of a subtask, the loop over the subtasks in
\* their order (Loop(...)[n]: after the first n), and the parent after them.
Handled(s, kid, strategy) ==
    IF strategy = "detachSubtasks" THEN MovedTask(s, kid, NoTask) ELSE Deleted(s, kid)

Loop(ts, kids, strategy) ==
    LET upTo[n \in 0..Len(kids)] ==
            IF n = 0 THEN Outcome(ts, <<>>) ELSE Handled(upTo[n - 1], kids[n], strategy)
    IN  upTo

DeletedParent(ts, id, kids, strategy) ==
    Deleted(Loop(ts, kids, strategy)[Len(kids)], id)

Completed(ts, id) ==
    LET row == [ts[id] EXCEPT !.done = TRUE, !.reopened = FALSE]
        us  == [ts EXCEPT ![id] = row]
    IN  Reconciled(Outcome(us, <<Upsert(us, id)>>), row.parent, FALSE)

Restored(ts, id) ==
    LET row == [ts[id] EXCEPT !.done = FALSE,
                              !.reopened = @ \/ Children(ts, id) # {}]
        us  == [ts EXCEPT ![id] = row]
    IN  Reconciled(Outcome(us, <<Upsert(us, id)>>), row.parent, TRUE)

\* updateTask, setting or clearing the due date.
Edited(ts, id, due) ==
    LET us == [ts EXCEPT ![id].due = due]
    IN  Outcome(us, <<[op |-> "stamped", id |-> id, row |-> us[id]]>>)

-----------------------------------------------------------------------------
(* The user at a device.  Without a backend an operation spawns nothing.   *)

Perform(d, s) ==
    /\ edits < MaxEdits
    /\ edits' = edits + 1
    /\ local' = [local EXCEPT ![d] = s.ts]
    /\ deleted' = deleted \cup (DOMAIN local[d] \ DOMAIN s.ts)
    /\ outbox' = [outbox EXCEPT ![d] = IF phase[d] = "detached" THEN @ ELSE @ \o s.out]
    /\ UNCHANGED <<server, inbox, stale, phase, kills>>

Move(d, id, p) ==
    /\ id \in DOMAIN local[d]
    /\ Perform(d, MovedTask(Outcome(local[d], <<>>), id, p))
    /\ touched' = touched \cup {id}
    /\ UNCHANGED undo

Complete(d, id) ==
    /\ id \in DOMAIN local[d] /\ ~local[d][id].done
    /\ Perform(d, Completed(local[d], id))
    /\ touched' = touched \cup {id}
    /\ UNCHANGED undo

Restore(d, id) ==
    /\ id \in DOMAIN local[d] /\ local[d][id].done
    /\ Perform(d, Restored(local[d], id))
    /\ touched' = touched \cup {id}
    /\ UNCHANGED undo

Edit(d, id) ==
    /\ id \in DOMAIN local[d]
    /\ Perform(d, Edited(local[d], id, ~local[d][id].due))
    /\ touched' = touched \cup {id}
    /\ UNCHANGED undo

DeleteArmsIdOnly(d, id) ==
    /\ id \in DOMAIN local[d] /\ Children(local[d], id) = {}
    /\ Perform(d, Deleted(Outcome(local[d], <<>>), id))
    /\ undo' = [undo EXCEPT ![d] = <<id>>]
    /\ UNCHANGED touched

Delete(d, id) ==
    /\ id \in DOMAIN local[d] /\ Children(local[d], id) = {}
    /\ Perform(d, Deleted(Outcome(local[d], <<>>), id))
    /\ undo' = [undo EXCEPT ![d] = <<[id |-> id, task |-> local[d][id]]>>]
    /\ UNCHANGED touched

DeleteParent(d, id) ==
    /\ id \in DOMAIN local[d] /\ Children(local[d], id) # {}
    /\ \E kids \in SetToSeqs(Children(local[d], id)),
          strategy \in {"deleteSubtasks", "detachSubtasks"} :
          Perform(d, DeletedParent(local[d], id, kids, strategy))
    /\ UNCHANGED <<undo, touched>>

UndoDelete(d) ==
    /\ undo[d] # <<>>
    /\ Head(undo[d]).id \notin DOMAIN local[d]
    /\ Perform(d, Added(local[d], Head(undo[d]).id, Head(undo[d]).task))
    /\ touched' = touched \cup {Head(undo[d]).id}
    /\ undo' = [undo EXCEPT ![d] = <<>>]

-----------------------------------------------------------------------------
(* A spawned write runs.                                                   *)

\* setData(merge: true) with taskData: every field of the row replaces the
\* document's, except that a due date that is not set is left as it was.
Merged(docs, id, row) ==
    Put(docs, id,
        IF id \in DOMAIN docs THEN [row EXCEPT !.due = @ \/ docs[id].due] ELSE row)

MergedAll(docs, ts) ==
    [id \in DOMAIN docs \cup DOMAIN ts |->
        IF id \in DOMAIN ts THEN Merged(docs, id, ts[id])[id] ELSE docs[id]]

\* The collection becomes docs; listeners have that to report.
Written(docs, stamped) ==
    /\ server' = docs
    /\ stale' = [d \in Device |-> stale[d] \/ stamped \/ docs # server]

\* The deferred tasks[parentIndex] is the parent as long as no row left the
\* list; after that it may be any row.
Indexed(ts, w) ==
    IF w.id \in DOMAIN ts /\ Cardinality(DOMAIN ts) >= w.rows THEN {w.id} ELSE DOMAIN ts

RunSet(d, w) ==
    /\ w.op \in {"set", "stamped"}
    /\ Written(Merged(server, w.id, w.row), w.op = "stamped")

RunDelete(d, w) ==
    /\ w.op = "delete"
    /\ Written(Drop(server, {w.id}), FALSE)

RunAll(d, w) ==
    /\ w.op = "all"
    /\ Written(MergedAll(server, local[d]), FALSE)

RunIndex(d, w) ==
    /\ w.op = "index"
    /\ \E id \in Indexed(local[d], w) : Written(Merged(server, id, local[d][id]), FALSE)

RunWrite(d) ==
    \E n \in DOMAIN outbox[d] :
        /\ Ordered => n = 1
        /\ LET w == outbox[d][n]
           IN  RunSet(d, w) \/ RunDelete(d, w) \/ RunAll(d, w) \/ RunIndex(d, w)
        /\ outbox' = [outbox EXCEPT ![d] = RemoveAt(@, n)]
        /\ UNCHANGED <<local, inbox, phase, undo, history, kills>>

-----------------------------------------------------------------------------
(* The process ends and is started again.                                  *)

\* The writes that have not run are lost, the saved list survives.  The clean-up
\* of migrateIfNeeded, 0.75 s after the launch, finds nothing to do: see
\* ListsAreClean.
Relaunched(d) ==
    /\ outbox' = [outbox EXCEPT ![d] = <<>>]
    /\ inbox' = [inbox EXCEPT ![d] = <<>>]
    /\ phase' = [phase EXCEPT ![d] = "detached"]
    /\ undo' = [undo EXCEPT ![d] = <<>>]
    /\ UNCHANGED <<local, server, stale, history>>

Kill(d) ==
    /\ kills < MaxKills
    /\ kills' = kills + 1
    /\ Relaunched(d)

\* tasks[parentIndex] past the end of a list that has become shorter traps.
IndexTrap(d) ==
    /\ \E n \in DOMAIN outbox[d] :
          /\ Ordered => n = 1
          /\ outbox[d][n].op = "index" /\ Cardinality(DOMAIN local[d]) < outbox[d][n].rows
    /\ Relaunched(d)
    /\ UNCHANGED kills

-----------------------------------------------------------------------------
(* The way back: initial sync and listeners.                               *)

\* handleUserChange, once the signed-in user is known, up to fetchAll.
Attach(d) ==
    /\ phase[d] = "detached"
    /\ phase' = [phase EXCEPT ![d] = "starting"]
    /\ UNCHANGED <<local, outbox, server, inbox, stale, undo, history, kills>>

\* fetchAll answers; the user may edit before the answer is handled.
FetchAll(d) ==
    /\ phase[d] = "starting" /\ inbox[d] = <<>>
    /\ inbox' = [inbox EXCEPT ![d] = <<server>>]
    /\ UNCHANGED <<local, outbox, server, stale, phase, undo, history, kills>>

GoLive(d) ==
    /\ inbox' = [inbox EXCEPT ![d] = <<>>]
    /\ phase' = [phase EXCEPT ![d] = "live"]
    /\ UNCHANGED <<outbox, undo, history, kills>>

\* syncInitialData fails before it applies anything; startListeners follows.
InitialSyncFails(d) ==
    /\ phase[d] = "starting"
    /\ GoLive(d)
    /\ stale' = [stale EXCEPT ![d] = TRUE]
    /\ UNCHANGED <<local, server>>

FinishInitialSyncUnreported(d) ==
    /\ phase[d] = "starting" /\ inbox[d] # <<>>
    /\ GoLive(d)
    /\ LET upload == DOMAIN Head(inbox[d]) = {} /\ DOMAIN local[d] # {}
       IN  /\ server' = IF upload THEN MergedAll(server, local[d]) ELSE server
           /\ local' = [local EXCEPT ![d] = SanitizeHierarchy(IF upload THEN @ ELSE Head(inbox[d]))]
    /\ stale' = [e \in Device |-> e # d /\ (stale[e] \/ server' # server)]

\* An empty collection is filled from the list, any other replaces the list;
\* then the listeners start, the first call reporting what is there.
FinishInitialSync(d) ==
    /\ phase[d] = "starting" /\ inbox[d] # <<>>
    /\ GoLive(d)
    /\ LET upload == DOMAIN Head(inbox[d]) = {} /\ DOMAIN local[d] # {}
       IN  /\ server' = IF upload THEN MergedAll(server, local[d]) ELSE server
           /\ local' = [local EXCEPT ![d] = SanitizeHierarchy(IF upload THEN @ ELSE Head(inbox[d]))]
    /\ stale' = [e \in Device |-> stale[e] \/ e = d \/ server' # server]

\* The tasks listener is called with the whole collection and hands it to a
\* main-actor task.
ListenerFires(d) ==
    /\ phase[d] = "live" /\ inbox[d] = <<>>
    /\ stale[d]
    /\ stale' = [stale EXCEPT ![d] = FALSE]
    /\ inbox' = [inbox EXCEPT ![d] = <<server>>]
    /\ UNCHANGED <<local, outbox, server, phase, undo, history, kills>>

ApplySnapshotUnlessDirty(d) ==
    /\ phase[d] = "live" /\ inbox[d] # <<>>
    /\ local' = [local EXCEPT ![d] = IF outbox[d] = <<>> THEN SanitizeHierarchy(Head(inbox[d])) ELSE @]
    /\ inbox' = [inbox EXCEPT ![d] = <<>>]
    /\ UNCHANGED <<outbox, server, stale, phase, undo, history, kills>>

ApplySnapshotUnsanitized(d) ==
    /\ phase[d] = "live" /\ inbox[d] # <<>>
    /\ local' = [local EXCEPT ![d] = Head(inbox[d])]
    /\ inbox' = [inbox EXCEPT ![d] = <<>>]
    /\ UNCHANGED <<outbox, server, stale, phase, undo, history, kills>>

\* applyRemoteTasks; suppressBackendWrites keeps it from spawning writes.
ApplySnapshot(d) ==
    /\ phase[d] = "live" /\ inbox[d] # <<>>
    /\ local' = [local EXCEPT ![d] = SanitizeHierarchy(Head(inbox[d]))]
    /\ inbox' = [inbox EXCEPT ![d] = <<>>]
    /\ UNCHANGED <<outbox, server, stale, phase, undo, history, kills>>

-----------------------------------------------------------------------------

UserStep(d) ==
    \/ UndoDelete(d)
    \/ \E id \in TaskId :
          \/ Complete(d, id)
          \/ Restore(d, id)
          \/ Edit(d, id)
          \/ Delete(d, id)
          \/ DeleteParent(d, id)
          \/ \E p \in TaskId \cup {NoTask} : Move(d, id, p)

SystemStep(d) ==
    \/ RunWrite(d)
    \/ IndexTrap(d)
    \/ Attach(d)
    \/ FetchAll(d)
    \/ FinishInitialSync(d)
    \/ ListenerFires(d)
    \/ ApplySnapshot(d)

Mishap(d) == Kill(d) \/ InitialSyncFails(d)

Next == \E d \in Device : UserStep(d) \/ SystemStep(d) \/ Mishap(d)

\* Swift runs every spawned task, Firestore answers queries and calls listeners
\* in the end; the user owes nothing and nothing need go wrong.
Fairness == \A d \in Device : WF_vars(SystemStep(d))

Spec == Init /\ [][Next]_vars /\ Fairness

-----------------------------------------------------------------------------

\* Nothing of the device is under way.
Settled(d) ==
    /\ phase[d] = "live"
    /\ outbox[d] = <<>> /\ inbox[d] = <<>> /\ ~stale[d]

\* applyRemoteTasks replaces the list without looking at what is in flight.
\* Still, a device whose writes have all run and whose listener has nothing to
\* report shows the account's collection, whatever raced before.
SettledShowsServer ==
    \A d \in Device : Settled(d) => local[d] = SanitizeHierarchy(server)

\* Every device gets there once the user stops, after kills, failed initial
\* syncs and concurrent edits, and stays there.
EventuallyInSync ==
    \A d \in Device : <>[](Settled(d) /\ local[d] = SanitizeHierarchy(server))

\* Two devices may each move a task under a task the other one moves, which
\* nests the documents or closes a loop of parents, and one may delete a task
\* the other one moves a task under.  No device's list ever shows that: it is
\* one level deep, without loops or dangling references, and only top-level
\* tasks carry the override, as sanitizeHierarchy would leave it.
ListsAreClean ==
    \A d \in Device : Clean(local[d])

\* "Parent completion is auto-complete when all subtasks are complete, with
\* manual reopen override" (PRD 08), also when the subtasks are completed on
\* different devices.
CompletionAgreesWhenSettled ==
    (\A d \in Device : Settled(d)) =>
        \A id \in DOMAIN server :
            /\ Children(server, id) # {}
            /\ \A c \in Children(server, id) : server[c].done
            => server[id].done \/ server[id].reopened

\* A task that was deleted on one device, and that nobody changed, is gone once
\* all writes have run and every listener has reported; whatever is done to
\* other tasks meanwhile, elsewhere too, does not bring it back.
DeletedStaysDeleted ==
    (\A d \in Device : Settled(d)) => (deleted \ touched) \cap DOMAIN server = {}

\* The index reconcileParentCompletion hands to its deferred upsert is still an
\* index of the list when the upsert runs.
IndexNeverTraps == [][\A d \in Device : ~IndexTrap(d)]_vars

=============================================================================
