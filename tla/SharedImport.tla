---------------------------- MODULE SharedImport ----------------------------
(***************************************************************************)
(* Sharing to Notelayer: the share extension appends items to a queue in   *)
(* the App Group's UserDefaults, the app imports them into its lists.      *)
(*                                                                         *)
(* Three threads of control touch it: the extension's process, the app's   *)
(* serial utility queue (sharedImportProcessingQueue) and its main queue.  *)
(* Reading and writing the UserDefaults key are steps of their own, as     *)
(* nothing locks it between the two processes.                             *)
(***************************************************************************)
EXTENDS Naturals, Sequences, FiniteSets

CONSTANTS
    Item,       \* items the user may share, each through one share sheet
    Bad,        \* those buildSharedImportPayload cannot convert
    Overlap,    \* may the extension and an import interleave?
    MaxKills    \* times the app's process ends (bound)

ASSUME BadAssumption == Bad \subseteq Item
ASSUME OverlapAssumption == Overlap \in BOOLEAN
ASSUME KillsAssumption == MaxKills \in Nat

VARIABLES
    queue,          \* sharedItemsQueueKey: items with their status
    sheet,          \* sheet[i]: the share sheet of item i
    imported,       \* imported[i]: times item i was added to the saved notes or tasks
    up,             \* the app's process runs
    offered,        \* TodosView.hasScheduledSharedImport
    processing,     \* isSharedImportProcessing
    job,            \* the import on the utility queue
    statusDue,      \* a refreshSharedImportQueueStatusAsync waits there too
    mainQueue,      \* closures dispatched to the main queue, in order
    pendingCount,   \* pendingSharedImportCount
    lastError,      \* is lastSharedImportError set?
    kills

process == <<up, offered, processing, job, statusDue, mainQueue>>
shown == <<pendingCount, lastError>>
vars == <<queue, sheet, imported, process, shown, kills>>

Entry == [id : Item, failed : BOOLEAN]

NoJob == [at |-> "none", items |-> <<>>]

\* What a closure on the main queue will do: import some items, show a count
\* and an error, and release the processing flag or not.
Closure == [items : SUBSET Item, count : Nat, error : BOOLEAN, finish : BOOLEAN]

TypeOK ==
    /\ queue \in Seq(Entry)
    /\ sheet \in [Item -> [at : {"closed", "read", "saved"}, items : Seq(Entry)]]
    /\ imported \in [Item -> Nat]
    /\ up \in BOOLEAN /\ offered \in BOOLEAN /\ processing \in BOOLEAN
    /\ job \in [at : {"none", "scheduled", "decoded"}, items : Seq(Entry)]
    /\ statusDue \in BOOLEAN
    /\ mainQueue \in Seq(Closure)
    /\ pendingCount \in Nat /\ lastError \in BOOLEAN
    /\ kills \in 0..MaxKills

Init ==
    /\ queue = <<>>
    /\ sheet = [i \in Item |-> [at |-> "closed", items |-> <<>>]]
    /\ imported = [i \in Item |-> 0]
    /\ up = FALSE /\ offered = FALSE /\ processing = FALSE
    /\ job = NoJob /\ statusDue = FALSE /\ mainQueue = <<>>
    /\ pendingCount = 0 /\ lastError = FALSE
    /\ kills = 0

-----------------------------------------------------------------------------
(* The share sheet: ShareViewController.saveTask.  One sheet is open at a   *)
(* time.  Without Overlap the sheet and the app take turns: neither reads  *)
(* the queue while the other is between its read and its write.            *)

Reading == {i \in Item : sheet[i].at = "read"}

ReadQueue(i) ==
    /\ sheet[i].at = "closed" /\ Reading = {}
    /\ Overlap \/ job.at # "decoded"
    /\ sheet' = [sheet EXCEPT ![i] = [at |-> "read", items |-> queue]]
    /\ UNCHANGED <<queue, imported, process, shown, kills>>

WriteQueueWithoutStatus(i) ==
    /\ sheet[i].at = "read"
    /\ queue' = Append(sheet[i].items, [id |-> i])
    /\ sheet' = [sheet EXCEPT ![i] = [at |-> "saved", items |-> <<>>]]
    /\ UNCHANGED <<imported, process, shown, kills>>

WriteQueue(i) ==
    /\ sheet[i].at = "read"
    /\ queue' = Append(sheet[i].items, [id |-> i, failed |-> FALSE])
    /\ sheet' = [sheet EXCEPT ![i] = [at |-> "saved", items |-> <<>>]]
    /\ UNCHANGED <<imported, process, shown, kills>>

-----------------------------------------------------------------------------
(* The app's process.                                                      *)

\* LocalStore.init: load() ends with refreshSharedImportQueueStatusAsync().
Launch ==
    /\ ~up
    /\ up' = TRUE
    /\ statusDue' = TRUE
    /\ UNCHANGED <<queue, sheet, imported, offered, processing, job, mainQueue, shown, kills>>

\* Its memory is lost; the UserDefaults, the saved lists among them, are not.
Kill ==
    /\ up /\ kills < MaxKills
    /\ kills' = kills + 1
    /\ up' = FALSE /\ offered' = FALSE /\ processing' = FALSE
    /\ job' = NoJob /\ statusDue' = FALSE /\ mainQueue' = <<>>
    /\ pendingCount' = 0 /\ lastError' = FALSE
    /\ UNCHANGED <<queue, sheet, imported>>

\* scheduleSharedImportProcessing: one import at a time.
Schedule ==
    /\ processing' = TRUE
    /\ job' = IF processing THEN job ELSE [at |-> "scheduled", items |-> <<>>]
    /\ UNCHANGED <<queue, sheet, imported, up, statusDue, mainQueue, shown, kills>>

\* TodosView's first onAppear of the session.
TodosAppear ==
    /\ up /\ ~offered
    /\ offered' = TRUE
    /\ Schedule

\* The "Retry" row, shown while items are pending.
Retry ==
    /\ up /\ pendingCount > 0
    /\ Schedule
    /\ UNCHANGED offered

\* Signing in as another user takes the row down.
ResetForNewUser ==
    /\ up
    /\ pendingCount' = 0 /\ lastError' = FALSE
    /\ UNCHANGED <<queue, sheet, imported, process, kills>>

-----------------------------------------------------------------------------
(* The utility queue, which runs one block at a time.                      *)

Dispatch(c) == mainQueue' = Append(mainQueue, c)

ReportStatus ==
    /\ statusDue /\ job.at # "decoded"
    /\ statusDue' = FALSE
    /\ Dispatch([items |-> {}, count |-> Len(queue), finish |-> FALSE,
                 error |-> \E n \in DOMAIN queue : queue[n].failed])
    /\ UNCHANGED <<queue, sheet, imported, up, offered, processing, job, shown, kills>>

EndsEmptyLocked ==
    /\ job.at = "scheduled" /\ queue = <<>>
    /\ job' = NoJob
    /\ Dispatch([items |-> {}, count |-> 0, error |-> FALSE, finish |-> FALSE])
    /\ UNCHANGED <<queue, sheet, imported, up, offered, processing, statusDue, shown, kills>>

\* Nothing queued: the count goes to zero.
EndsEmpty ==
    /\ job.at = "scheduled" /\ queue = <<>>
    /\ job' = NoJob
    /\ Dispatch([items |-> {}, count |-> 0, error |-> FALSE, finish |-> TRUE])
    /\ UNCHANGED <<queue, sheet, imported, up, offered, processing, statusDue, shown, kills>>

Decode ==
    /\ job.at = "scheduled" /\ queue # <<>>
    /\ Overlap \/ Reading = {}
    /\ job' = [at |-> "decoded", items |-> queue]
    /\ UNCHANGED <<queue, sheet, imported, up, offered, processing, statusDue, mainQueue,
                   shown, kills>>

BadAt(items) == {n \in DOMAIN items : items[n].id \in Bad}

\* The k-th of the numbers in S.
Nth(S, k) == CHOOSE n \in S : Cardinality({m \in S : m < n}) = k - 1

\* The items that cannot be converted, in their order.
Failures(items) ==
    [k \in 1..Cardinality(BadAt(items)) |->
        [items[Nth(BadAt(items), k)] EXCEPT !.failed = TRUE]]

ConversionsOfAllOrNone(items) ==
    LET ids == {items[n].id : n \in DOMAIN items} IN IF ids \cap Bad = {} THEN ids ELSE {}

Conversions(items) == {items[n].id : n \in DOMAIN items} \ Bad

PersistNothing ==
    /\ job.at = "decoded"
    /\ queue' = <<>>
    /\ Dispatch([items |-> Conversions(job.items), count |-> Len(Failures(job.items)),
                 error |-> Failures(job.items) # <<>>, finish |-> TRUE])
    /\ job' = NoJob
    /\ UNCHANGED <<sheet, imported, up, offered, processing, statusDue, shown, kills>>

PersistCountsAll ==
    /\ job.at = "decoded"
    /\ queue' = Failures(job.items)
    /\ Dispatch([items |-> Conversions(job.items), count |-> Len(job.items),
                 error |-> Failures(job.items) # <<>>, finish |-> TRUE])
    /\ job' = NoJob
    /\ UNCHANGED <<sheet, imported, up, offered, processing, statusDue, shown, kills>>

\* The items that failed are written back over the queue; the others are in
\* the closure only until the main queue runs it.
Persist ==
    /\ job.at = "decoded"
    /\ queue' = Failures(job.items)
    /\ Dispatch([items |-> Conversions(job.items), count |-> Len(Failures(job.items)),
                 error |-> Failures(job.items) # <<>>, finish |-> TRUE])
    /\ job' = NoJob
    /\ UNCHANGED <<sheet, imported, up, offered, processing, statusDue, shown, kills>>

-----------------------------------------------------------------------------
(* The main queue.                                                         *)

\* applySharedImports appends and saves; then the row is updated and the next
\* import allowed.
RunClosure ==
    /\ mainQueue # <<>>
    /\ LET c == Head(mainQueue)
       IN  /\ imported' = [i \in Item |-> imported[i] + IF i \in c.items THEN 1 ELSE 0]
           /\ pendingCount' = c.count
           /\ lastError' = c.error
           /\ processing' = (processing /\ ~c.finish)
    /\ mainQueue' = Tail(mainQueue)
    /\ UNCHANGED <<queue, sheet, up, offered, job, statusDue, kills>>

-----------------------------------------------------------------------------

UtilityQueue == ReportStatus \/ EndsEmpty \/ Decode \/ Persist

Next ==
    \/ \E i \in Item : ReadQueue(i) \/ WriteQueue(i)
    \/ Launch \/ Kill \/ TodosAppear \/ Retry \/ ResetForNewUser
    \/ UtilityQueue
    \/ RunClosure

\* The queues of a running process are served and saveTask, once begun, runs to
\* its end; the user owes nothing.
Fairness ==
    /\ WF_vars(UtilityQueue) /\ WF_vars(RunClosure)
    /\ \A i \in Item : WF_vars(WriteQueue(i))

Spec == Init /\ [][Next]_vars /\ Fairness

-----------------------------------------------------------------------------

Queued == {queue[n].id : n \in DOMAIN queue}

InTransit == UNION {mainQueue[n].items : n \in DOMAIN mainQueue}

Stage(i) ==
    IF imported[i] = 1 THEN "imported"
    ELSE IF imported[i] > 1 THEN "imported again"
    ELSE IF i \in Queued \cup InTransit THEN "waiting"
    ELSE IF sheet[i].at # "saved" THEN "unshared"
    ELSE "lost"

Inbox == INSTANCE ShareInbox WITH stage <- [i \in Item |-> Stage(i)], crashes <- kills

\* "keep pending draft, show recovery action, never silently drop" (PRD 07):
\* an item whose sheet said "Saved!" is in the queue until it is imported, once,
\* whatever fails to convert, is retried, or ends the process; only what the
\* main queue has not imported when the process ends is lost.
ImplementsInbox == Inbox!Spec

\* Every path through an import releases isSharedImportProcessing, so that a
\* retry is never ignored for good.
ImportsEnd == processing ~> ~processing

\* An import that starts takes every convertible item that is queued by then
\* into the lists, however many others fail.
ImportDelivers ==
    \A i \in Item \ Bad :
        (job.at = "scheduled" /\ i \in Queued) ~> (imported[i] > 0 \/ ~up)

Quiet == up /\ job = NoJob /\ ~statusDue /\ mainQueue = <<>>

\* When nothing is under way the row counts no item that is not in the queue,
\* and an error is only there together with the row that shows it.
RowIsHonest ==
    /\ Quiet => pendingCount <= Len(queue)
    /\ lastError => pendingCount > 0

\* "never silently drop" (PRD 07), whichever process runs when.
NeverDropped == \A i \in Item : Stage(i) # "lost"

=============================================================================
