# Notelayer in TLA+

Models of the iOS app's own logic (`src/ios-swift/Notelayer/`), checked with TLC
and proved about with TLAPS.  Paths below are relative to
`ios-swift/Notelayer/`; `L`, `F`, `RM` and `SV` abbreviate
`Notelayer/Data/LocalStore.swift`, `Notelayer/Services/FirebaseBackendService.swift`,
`Notelayer/Services/ReminderManager.swift` and
`NotelayerShareExtension/ShareViewController.swift`.

## The system

Notelayer keeps tasks, notes and categories on the device, mirrors them to
Firestore when the user is signed in, and takes items from a share extension.

**Who runs where.**  The app target is built with main-actor isolation as the
default, so `LocalStore`, `FirebaseBackendService` and `ReminderManager` run on the
main actor: one operation runs to its end, or to its next `await`, before another
starts.  Interleavings come from four places only: the awaits, the unstructured
tasks an operation spawns (`_Concurrency.Task { ... }`), the utility queue and the
second process of the share import, and the account's other devices.

| Component | State | Operations | Interacts with | What is hard | What makes it correct |
|---|---|---|---|---|---|
| Task hierarchy (`L`) | `tasks`, the undo manager, experimental flag | add, set parent, complete, restore, delete (alone, with subtasks, detaching), undo, redo, clean-up after launch | views, sync | long sequences of legal calls; undo closures that captured an old row; snapshots between calls | one level, no loops, unique ids, completion of a project follows its subtasks, the reopen override does not outlive its reason |
| Task sync (`L`, `F`) | Firestore documents, spawned writes, listeners, initial sync | upsert, delete, deferred upserts that read the list when they run, fetch, snapshot | hierarchy, Firestore, other devices | interleaving, lost writes, stale indexes, merging documents | devices end with the collection; no list ever breaks the rules; a deleted task stays deleted |
| Account session (`F`, `AuthService`) | user, backend, listeners, suspended calls | sign in, out, forced sync, listeners, publishers | everything that syncs, telemetry | initial syncs that nothing cancels, suspended while the account changes; failures that are swallowed | no row of one account reaches another; the device settles on its user |
| Account deletion (`ManageAccountView`, `F`, `AuthService`) | documents, account | delete data, reset, then the account | session | one step of several failing; listeners and sinks that still run | nothing is left, nothing comes back |
| Categories and group order (`L`, `TodosView`) | orders, `uncategorizedPosition` | add, update, delete, drag a group, remote lists and places | sync | contiguous orders, clamping, gaps and ties between documents, two documents for one arrangement | the place in bounds, other groups keep their neighbours, devices agree |
| Synced preferences (`L`, `F`) | choice with a time stamp | set, reconcile a report, push back | user document, session | echo between publisher and listener; a push over a newer value | last writer wins, no endless echo |
| Shared import (`SV`, `L`) | App Group queue, processing flag, pending row | save from the sheet, import, retry, sign-out reset | two processes, utility and main queue | no lock between the processes; a crash between writing back and importing; flag set on one queue and released on another | nothing dropped, nothing imported twice, every import ends |
| Reminders (`L`, `RM`) | reminder of a row, pending notifications | set, remove, cancel, renew, reschedule after sync | notification centre, sync | an index held across an `await`; cancel before a refused add; copies of rows | notifications and rows agree; other rows stay as they are |
| Insights telemetry | scope of events, events, compaction | set scope, record, compact | session | the scope follows the user late and survives the process | an event is filed under its user or under none |
| Voice staging (`L`) | drafts | parse, stage, edit, commit | tasks | single steps of the main actor | a draft becomes a task once |
| Notes, analytics, calendar export, themes, onboarding, views | | | | little or no protocol | |

## Modules

| Module | What it models |
|---|---|
| `TaskTable` | The task operations of `L` (609-1029) and `sanitizeHierarchy` (231-245) as functions from a task table to the next.  A table maps ids to parent, "completed" and "reopened by hand". |
| `TaskHierarchy`, `MCTaskHierarchy` | One device: `TaskTable` as actions, with the undo and redo stacks of the undo manager, snapshots of any shape, relaunch, and the clean-up 0.75 s after it. |
| `TaskSync`, `MCTaskSync` | Several devices and the Firestore collection: the operations of `TaskTable` again, now with the writes each spawns; the writes running; initial sync, listeners, kills. |
| `Session` | One device, several accounts: published users, `handleUserChange` and `forceSync` suspended at each await, listeners, metadata sinks, the deletion of an account, failures and kills.  Lists and documents are the sets of authors of their rows. |
| `GroupOrder` | `categorySort`, `normalizeCategoryOrder`, clamping, adding, deleting and dragging a group, as functions on orders. |
| `AccountDocument`, `MCAccountDocument` | Several devices of one account: `GroupOrder` as actions with the writes they spawn, the category collection, and the user document with the place and the preference, its listeners and sinks. |
| `ShareInbox` | The abstract promise of sharing: an item waits until it is imported, once; only a crash of the app can lose one on its way. |
| `SharedImport` | The share sheet, the utility queue, the main queue, the flags; `Inbox` is the refinement mapping to `ShareInbox`. |
| `ReminderFlow` | One device's list as a sequence, the notification centre, suspended calls of `setReminder`, spawned cancellations and renewals. |
| `TaskTableProofs`, `TaskHierarchyProofs`, `TaskSyncProofs`, `SessionProofs`, `GroupOrderProofs`, `AccountDocumentProofs`, `SharedImportProofs`, `ReminderFlowProofs` | The theorems and their lemmas. |

`TaskTable` and `GroupOrder` are shared: the actions of the modules above them are
compositions of its functions with the writes the code spawns at the same place.
`TaskSync`, `AccountDocument` and `Session` cut the sync of one device along its
data: the first two have the content of tasks and of categories and preferences for
one account that stays signed in, the third has who is signed in and whose rows are
where, and leaves the content out.

State and actions carry the code's names.  An action is a whole handler: the
trailing `reconcileParentCompletion` and `saveTasks` are part of it.  In
`TaskHierarchy`, `TaskSync`, `Session` and `AccountDocument` what is saved equals
what is in memory at every step, as the code saves before the main actor is free
again.  In `SharedImport` each read and each write of the shared UserDefaults key is
a step.  In `ReminderFlow` a `setReminder` is three steps: up to
`await notificationCenter.add`, the answer, and the rest.  In `Session` a call of
`handleUserChange` or `forceSync` is one step per await (`Stage`).

What is abstracted: dates are "set or not" (completion, override, due date), the
order of choices (preferences; clocks of devices agree) or a notification's identity
(reminders); titles, categories and priorities of a task are not there; the order
of the list is there in `ReminderFlow` only, where an index is held, and in
`TaskSync` an index that may have moved stands for any row.

External parts, modelled from how the code uses them: Firestore (a write takes
effect in one step; collection listeners report the whole collection some time
later, skipping states; a device's listener on the user document reports what
differs from its last report, its own writes at once; `merge: true` leaves absent
fields; documents are served to the signed-in account only), the notification
centre (may refuse; survives the process), `UndoManager` (a stack; the bound makes
it forget the oldest), the Swift runtime (spawned tasks run some time, in any order
unless `Ordered` says otherwise), and iOS ending a process.

## Runs

| Run | Expect | What it shows |
|---|---|---|
| `hierarchy_undo` | pass | With undo and redo and no sync: no loops, no id twice, nesting only by an undo, no project completed while a subtask is open, and agreement of projects with their subtasks, and the end of overrides, broken by nothing but an undo. |
| `hierarchy_remote` | pass | Snapshots of every shape, nested and looped ones too, and no undo: one level deep, overrides on top-level tasks only. |
| `sync_converges` | pass | Two devices arrange three tasks while one process ends, with writes running in any order: all lists are clean at all times, and each device ends with the collection. |
| `sync_project` | pass | The same safety for projects that already have subtasks, which spawn the deferred writes. |
| `sync_resurrects` | violation | One device deletes a task, the other saves another one: `upsert(tasks: tasks)` (`L` 795) writes its whole list and revives the deleted document. |
| `session_waits` | pass | Two accounts on one device whose user signs out at any moment and signs in when nothing is under way, forces syncs, makes rows and deletes accounts while requests fail and the process ends: rows and events stay with their account, and in the end the device listens to its user and shows that account's documents. |
| `account_erased` | violation | Deleting the user document makes its listener report an account without preferences, and the reconciliation writes the document anew before the account itself is deleted. |
| `document_shared` | pass | Two devices add, update, delete and drag categories and switch the experimental features: the place stays in bounds, adding and deleting move no other group, settled devices show the account (its categories, if it has any), echoes end, the last choice wins. |
| `group_wanders` | violation | One device adds a category while the uncategorized group is last: the other learns the new place before the new category, clamps it, and shows the group elsewhere for good. |
| `share_alone` | pass | Sharing and importing in turns, with items that fail, retries, a sign-out reset and process ends: `SharedImport` implements `ShareInbox`, imports end, deliver, and the row is honest. |
| `share_overlap` | violation | An item saved between the import's read and write of the key is overwritten. |
| `reminder_calm` | pass | A user who waits for a suspended call before touching its task: no notification without its row, no row shown that will not ring, no other row changed. |

Each violation is a disagreement with a line of the repository; `PROJECT.json`
quotes it under `findings`.

### Disagreements without a run of their own

These are stated as definitions, or are a passing run with an assumption taken
away; the settings reproduce them.

- **Two rows with one id.**  A snapshot brings a deleted task back, then the deletion
  is undone; `Dictionary(uniqueKeysWithValues:)` (`L` 232, 370, 1119) traps.
  `MCTaskHierarchy`, `Snapshots` all tables of two ids, `UndoLevels` 1, invariant
  `UniqueIds`.
- **A deferred write indexes a list that is too short.**  Deleting a project that was
  reopened by hand, with its last subtask: the write spawned at `L` 990 evaluates
  `tasks[parentIndex]` after the project has left the list.  `MCTaskSync`,
  `InitialLists <- JustReopened`, `Ordered` TRUE, `MaxKills` 0, property
  `IndexNeverTraps`.
- **Two devices complete one subtask each** and nobody completes the project
  (PRD 08).  `MCTaskSync`, `InitialLists <- JustOpen`, `Ordered` TRUE, invariant
  `CompletionAgreesWhenSettled`.
- **A reminder set while rows move.**  A task is deleted while `setReminder` is
  suspended, and `tasks[index] = task` (`L` 1061) replaces the row that moved to the
  index.  `ReminderFlow`, `Overlap` TRUE, property `UpdatesItsTask`.
- **Signing in as another user while a sync is suspended.**  With `WaitToSignIn` FALSE
  (`MaxActs` 4, `MaxMishaps` 1) each of `DocsHoldOwnRows`, `ListHoldsOwnRows` and
  `EventsHoldOwnScope` fails: the initial sync of the first account goes on, and
  applies what it fetched to the lists of the second.  No document of the repository
  speaks of signing in during a sync, so it is a proviso here and not a finding.
- **A forced sync shows a stale list** until the next change, when it applies what it
  fetched over a newer report.  `Session` with `SettlesOnUser` less its
  `[]Unforced`, `MaxActs` 4.
- **An emptied account.**  A device that learns that the account has no categories
  left shows the default ones (`L` 217-220, 337-342), which are not uploaded: two
  devices of the account may show different lists for good.  `MCAccountDocument`, `Device`
  `{d1}`, `MaxEdits` 3, invariant `SettledShowsEmptiedAccount`.
- **Undo nests.**  Undoing deletions can leave a subtask under a subtask.
  `hierarchy_undo` shows that only an undo does it; take `NoNesting` as an invariant
  of that run to see a trace.
- A project completed with its last subtask keeps its notification, unlike one
  completed by hand (`NagIsOnItsTask` lets it).

### Bounds, and why they are enough

- Three task ids: a project, a subtask, and a third that is moved between them,
  deleted and brought back.  Depth two, loops of length three, dangling references
  and nesting all exist with three.
- `UndoLevels` 2 where undo matters: two deletions that refer to each other (a
  subtask, then its project).  0 for the runs and theorems that say what holds without
  undo.
- `Snapshots`: all shapes of the parent references over three ids
  (`hierarchy_remote`), none (`hierarchy_undo`, where the properties except snapshots
  anyway).
- `TaskSync`: two devices, two operations altogether (each of the races needs one on
  either side), one kill.  `Ordered` = FALSE lets spawned writes overtake each other,
  which covers the order of today's runtime as well; TRUE is that order, taken where
  the violation should not depend on Swift's silence about it, and in `sync_project`
  for size.
- `Session`: two accounts, four acts of the user (`MaxActs`) and one mishap
  (`MaxMishaps`): sign in, make a row or force a sync, sign out, sign in as the other,
  with a request that fails or a process that ends anywhere between.
  `account_erased` needs one account, two acts and no mishap.
- `AccountDocument`: two devices, two edits altogether (`MaxEdits`), three categories of which two exist at
  first.  Three give a neighbour on either side and one to add; one edit on each
  device is every race of two.  `group_wanders` needs a single edit.
- `SharedImport`: three items, one that cannot be converted; two process ends.
- `ReminderFlow`: three tasks, one of them a project, two reminders, one process end.
  `Overlap` says whether the user may act on what a suspended call is about;
  without it the process does not end inside a chore either.

Deadlock is not checked where acts are bounded and the system may come to rest with
them used up.  Symmetry is used with safety and action properties only.  The
theorems of the next section need none of these bounds.

### Fairness

Users, mishaps and kills are never fair.

- `TaskSync` and `AccountDocument`: weak fairness of each device's `SystemStep`: the
  Swift runtime runs every spawned task, Firestore answers and calls its listeners.  A
  device that is never online again is outside the claim.
- `Session`: weak fairness of `SystemStep`: spawned calls are run, and what they await
  is answered, denied or fails.
- `SharedImport`: weak fairness of the utility queue, of the main queue, and of
  `saveTask` once it has begun.  Dispatch queues of a running process are served.  No
  launch, retry or share need ever happen.
- `TaskHierarchy` and `ReminderFlow` state no liveness.

`EchoesEnd` rests on the model of the listener: it reports a change once.  A device
pushes its preference also when a report is as new as its own, its own echo included;
that ends because writing equal fields changes nothing, so nothing is reported.

## Proofs

Assumptions: `NoTask`, `Nobody` are no task id and no account; bounds are natural
numbers; `Snapshots` are tables; the lists `TaskSync` starts from are clean tables;
categories are a finite set of naturals (their order stands for that of the ids, which
breaks ties), the default ones a sequence of them, and `Uncategorized` is none of them;
the tasks of `TaskSync` and of `ReminderFlow` are finite sets, the latter of naturals;
modes are Booleans.  Nothing bounds the number of ids, accounts, devices, items, acts or
mishaps.  The provisos of single theorems are in the table.

| Theorem | Says |
|---|---|
| `TypeCorrect` | `TaskHierarchy`: `Spec => []TypeOK` |
| `NeverCyclic` | `Spec => []NoCycles`: no loop of parent references, undo, redo and sync included |
| `OnlyUndoNests` | `Spec => NestingOnlyByUndo` |
| `CompletionIsAlwaysEarned` | `Spec => AutoCompletionIsEarned` |
| `AgreementSurvivesTheDevice` | `Spec => AgreementLostOnlyBySync` |
| `OverrideEndsWithItsReason` | `Spec => OverrideOutlivedOnlyBySync` |
| `OneLevelWithoutUndo` | `UndoLevels = 0` gives `[]NoNesting`, for any snapshots |
| `OverrideStaysOnTop` | `UndoLevels = 0` gives `[]OverrideOnlyOnTopLevel`, for any snapshots |
| `UniqueIdsLocally` | `Snapshots = {}` gives `[]UniqueIds`, for any undo depth |
| `SyncTyped` | `TaskSync`: `Spec => []TypeOK`, for any order of the writes |
| `ListsStayClean` | `Spec => []ListsAreClean` |
| `SettledListsAgree` | `Spec => []SettledShowsServer` |
| `SessionTyped` | `Session`: `Spec => []TypeOK` |
| `AlwaysApart` | `WaitToSignIn` gives `[]Apart`, the inductive invariant of a session |
| `RowsStayWithDocs`, `RowsStayInList`, `EventsStayInScope` | `WaitToSignIn` gives `[]DocsHoldOwnRows`, `[]ListHoldsOwnRows`, `[]EventsHoldOwnScope` |
| `DocumentTyped` | `AccountDocument`: `Spec => []TypeOK` |
| `PlaceStaysInBounds` | `Spec => []PlaceInBounds` |
| `NeighboursAlwaysStay` | `Spec => NeighboursStay` |
| `SettledDevicesAgree` | `Spec => []SettledShowsAccount` |
| `ShareTyped` | `SharedImport`: `Spec => []TypeOK`, with or without `Overlap` |
| `RowStaysHonest` | `~Overlap` gives `[]RowIsHonest` |
| `ShareImplementsInbox` | `~Overlap` gives `Spec => Inbox!Spec`: the refinement |
| `ReminderTyped` | `ReminderFlow`: `Spec => []TypeOK`, with or without `Overlap` |
| `CalmReached` | `~Overlap` gives `[](TypeOK /\ CalmInv)`, the inductive invariant of reminders |
| `NotificationsOnTheirTasks`, `ShownRemindersRing` | `~Overlap` gives `[]NagIsOnItsTask`, `[]ShownNagRings` |
| `RemindersUpdateTheirTask` | `~Overlap` gives `Spec => UpdatesItsTask` |

**The task list.**  `TaskTableProofs` has one lemma per table operation: the result is
a table, acyclic and one-level if the table before was.  Reconciling changes no parent
(`ReconcileShape`), so it drops out everywhere; an added or moved task goes under a
top-level task of the table, and a set that holds the task and that parent holds a
row without a parent.  `Acyclic` is stated over sets ("every non-empty set has a
member whose parent is outside"), which is what makes it provable without
induction over chains.  With these, acyclicity and the one-level rule are
inductive together with `TypeOK`, one step per action (`NextShape`).  Two invariants
needed strengthening.  `UniqueIds`: `UndoInv` adds that the two
stacks name every id at most once, and that no id of the undo stack is in the list;
only then does an undo find its id free.  The override: `restoreTask` sets it on any
task that has subtasks, so the list must be known to be one-level, and the undo
stack empty, for that task to be top-level.

**Completion.**  Every operation changes rows and then reconciles one or two projects.
The three action properties follow from lemmas that carry the set of projects the change
of rows may leave wrong: `Agree(ts, xs)` and `Live(ts, xs)` hold of all rows but those of
`xs`, and reconciling `p` removes `p` from the set (`ReconcileAgrees`, `ReconcileLive`);
`Earned(ts, us, xs)` compares the list before with the one after.  What remains for each
operation is that only the project a subtask leaves or joins can be in the set.  That the
list is one-level enters where a task that becomes top-level must have no subtasks, and
for a restored task.  Of earlier states they need `TypeOK` only, so they hold of every
step, whatever undos and snapshots came before.

**Lists stay clean.**  `Clean` is one-level, without dangling references, overrides on
top-level tasks only.  An operation of `TaskSync` ends in an outcome, the list with the
writes spawned on the way, and each outcome is clean if the list was.  The loop of
`deleteParentTask` is a recursive function over any order of the subtasks; a number at
which it first left the invariant would have a predecessor (`NatLeast`, `LoopIsDefined`),
which is induction over naturals without an operator parameter.  All else replaces the list
by a sanitized one, and `SanitizeCleans` does the rest.  The remembered deletion must be
clean as well (`UndoIsClean`).

**Settled lists.**  `SettledShowsServer` speaks of a device with nothing under way, but
applying a snapshot overwrites changes whose writes are still running, so something must
say that they will be reported.  `Shows` speaks of a device that is `Quiet`: nothing waits
for it, and of its writes none is sure to change the collection (`Effective`: a stamp, the
deletion of a document that is there, a row that differs).  Then it agrees with the
collection on ids and dates, and shows it unless an upload of its whole list is on its
way.  Such an upload, once it changes nothing, has found the collection equal to the
list.  A report that no other will follow is the collection.  Each operation either
spawns an effective write or keeps the agreement (`Answered`), which is where a change that
the code does not write would show.

**Accounts apart.**  That documents hold only own rows is not inductive: a suspended
call carries rows to upload.  `Apart` adds that calls, list and service all belong to
the account last attached (`lastUser`) or to nobody; that a sign-in which waits to be
handled finds no call under way (`UserInv`, where `WaitToSignIn` enters); that at most
one initial sync runs, and none while listeners do (`CallsInv`), so that no listener
is started twice and orphaned.  A sign-out may come at any time because it changes
none of this: `lastUser` stays.

**Groups.**  `IndexOf` counts the categories that precede one.  Distinct categories
have distinct counts, so `sortedCategories` lists each of them (`SortedType`,
`SortedHasAll`); normalising keeps `Precedes` and hence every index
(`NormalizedKeeps`), adding raises all indices by one (`AddedKeeps`), deleting lowers
those behind (`WithoutKeeps`).  The place moves along (`PlaceAfterDeletingKeeps`), which gives
`NeighboursStay`.  `PlaceInBounds` is inductive with `TypeOK`: whatever is reported is
clamped to the categories at hand.

**Settled devices.**  `Explained` says that whatever a device shows in spite of the
account is about to change.  A device that has read all reports and has no single category
to write (which would have it told again) is about to delete what it does not show, and
shows the account's categories unless its whole list is on its way.  For the preference,
the last report waiting is what the listener said last, and with none waiting the choice
is the reported one or is about to be written.  A device with nothing under way then has
no room for a difference.  An account without categories is left out: see the
disagreements.

**Sharing.**  The refinement needs three facts beyond types.  `TurnsInv`: whoever has
read the queue and not written it back has read what is there, so a write only
appends one's own item, or removes what was converted.  `OnceInv`: an item is not shared, in the
queue, in one closure, or imported once, and closures are disjoint.  With these
`WriteQueue` maps to `Share`, running a closure to `Import` (or a stutter, when it
imports nothing), `Kill` to `Crash` of what is in transit, and all else (`Calm`)
stutters.  `RowInv`: the count shown last is no more than what is queued.

**Reminders.**  For a user who waits, `CalmInv` says that what a suspended call or a
spawned chore wrote down is still what the list says: the row a call copied stands
unchanged at the index it holds (`CallsInv`), rows to be renewed are rows of the list and
of no call (`ChoresInv`).  Ids are handed out in order (`MadeInv`), so that a new
notification is nobody's; each has one holder, a row, the row an undo would bring back,
a call, or a cancellation (`HolderInv`).  `CentreInv` and `ShownInv` are the two properties
for states in which something is under way.  With `Overlap`, `CallsInv` is what breaks.

Every safety and action property of the passing runs is the subject of a theorem.
Only model-checked are the liveness properties (`EventuallyInSync`, `SettlesOnUser`,
`EchoesEnd`, `LastChoiceWins`, `ImportsEnd`, `ImportDelivers`), which rest on fairness and
`ENABLED`, outside what the prover can do, and the violations.

## Not modelled

The app is written in Swift; the C and C++ files of the repository, by far most of
its lines, are vendored pods (gRPC, BoringSSL, Abseil, Firestore and others) under
`ios-swift/Notelayer/Pods`.  They are other projects' code, and only what the app
relies on is modelled of them, as external.

`PROJECT.json` lists every component.  Within the modelled ones: `reorderTasks` (order
only) and `updateTask` of fields the rules do not read, except a due date, which
stands for them in `TaskSync`; a JSON encoder that fails; the reminder date of an
imported item, which the code stores without scheduling a notification; reminders
changed on another device, whose old notification the code never cancels here;
permission prompts; the tasks of a deleted category, which the code moves to another
and uploads after the category is gone; onboarding presets and colour migration of
categories; the insights hint, whose record takes the path of the preference with
counters in place of a choice, so that of two devices' counts one is lost; compaction,
retention and aggregation of telemetry, pure functions of dates with unit tests; the
sign-in protocols of the providers.  Voice staging edits and commits drafts in single
steps of the main actor; recognition and parsing are input processing.  The rest is
display.

## What could come next

- The safety half of the liveness properties: that each step of a fair system brings a
  measure down (pending writes, reports) can be proved, though not that it ends.
- `UniqueIds` of one device under snapshots that never bring a deleted task back.
- Categories of tasks across the deletion of a category on two devices.
- An abstract specification of last-writer-wins for `AccountDocument` to implement.
